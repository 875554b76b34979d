--------------------------- MODULE DailyRunProofs ---------------------------
(***************************************************************************)
(* Proofs about DailyRun, for any number of portfolios, any length of the  *)
(* day, hour of the run, retries and generations kept, and any limits; at  *)
(* the end about AuctionWatermark, the part of a run that asks for the     *)
(* results of auctions, for any number of days, requests that fail and     *)
(* runs cut short, any cap and any depth of the backfill.                  *)
(***************************************************************************)
EXTENDS DailyRun, AuctionWatermark, FiniteSetTheorems, WellFoundedInduction, TLAPS

Places ==
  {"down", "check", "waiting", "refresh", "snapshot", "export", "dated", "stable", "mark", "next"}
AtRunner == {"snapshot", "export", "dated", "stable", "mark", "next"}
Procs ==
  [at : Places, slow : Nat, i : Nat, data : Nat, wake : Nat, retry : BOOLEAN]

ClockTypes ==
  /\ now \in Nat /\ limits \in Limits
  /\ proc \in Procs
  /\ proc.slow <= RunHour /\ proc.slow <= now
  /\ proc.at \in AtRunner => proc.i \in DOMAIN Order
  /\ retries \in 0..RefreshRetries /\ failed \in BOOLEAN
  /\ runs \in Nat /\ starts \in Nat /\ faults \in Nat /\ crashes \in Nat
FileTypes ==
  /\ snapshots \in [Portfolios -> SUBSET Nat]
  /\ \A p \in Portfolios : \A d \in snapshots[p] : d <= Today
  /\ DOMAIN gens = Portfolios
  /\ \A p \in Portfolios : \A d \in DOMAIN gens[p] :
       d \in 0..Today /\ gens[p][d] \in 0..books
  /\ stable \in [Portfolios -> Int] /\ \A p \in Portfolios : stable[p] <= books
  /\ mark \in [Portfolios -> Int] /\ \A p \in Portfolios : mark[p] <= Today
BookTypes ==
  /\ books \in Nat /\ proc.data <= books
  /\ booksAt \in Seq(Nat) /\ Len(booksAt) = Today + 1
  /\ \A k \in 1..(Today + 1) : booksAt[k] <= books
  /\ \A k, l \in 1..(Today + 1) : k <= l => booksAt[k] <= booksAt[l]

Types == ClockTypes /\ FileTypes /\ BookTypes

-----------------------------------------------------------------------------
(* When the service waits, for what, and what a run still may bring.       *)

Wakes ==
  proc.at = "waiting" =>
    /\ now <= proc.wake
    /\ Day(proc.wake) <= Today + 1
    /\ Day(proc.wake) = Today + 1 => Hour(proc.wake) <= RunHour
    /\ ~proc.retry => Hour(proc.wake) = RunHour
    /\ proc.retry => Hour(proc.wake) # RunHour /\ retries < RefreshRetries

(* The runs that may still follow today with no start: the one at the      *)
(* daily hour, while it is ahead, and what is left of the retries.         *)
HourAhead ==
  \/ Hour(now) < RunHour
  \/ Hour(now) = RunHour /\ proc.at = "waiting" /\ proc.wake = now /\ ~proc.retry
DailyLeft == IF HourAhead THEN 1 + RefreshRetries ELSE 0
RetriesLeft ==
  IF proc.at = "check" THEN 1 + RefreshRetries
  ELSE IF proc.at = "down" \/ (proc.at = "waiting" /\ ~proc.retry) THEN 0
  ELSE RefreshRetries - retries
RunsLeft == runs + DailyLeft + RetriesLeft <= (1 + RefreshRetries) * (1 + starts) + RefreshRetries

-----------------------------------------------------------------------------
(* What the days have got.                                                 *)

OnCurve(p) == Today \in snapshots[p] \/ <<p, Today>> \in missed
InBackups(p) == Today \in DOMAIN gens[p] \/ <<p, Today>> \in lost

(* The hour of the run is past, by the hour that the service waits for.    *)
HourPast ==
  proc.at = "waiting" /\ (Day(proc.wake) > Today \/ Hour(proc.wake) > RunHour)
BeganOn == Day(now - proc.slow)

DaysKept ==
  /\ HourPast => \A p \in Portfolios : OnCurve(p) /\ InBackups(p)
  /\ proc.at \in AtRunner /\ BeganOn = Today =>
       \A j \in 1..proc.i :
         /\ j < proc.i \/ proc.at # "snapshot" => OnCurve(Order[j])
         /\ j < proc.i \/ proc.at \in {"stable", "mark", "next"} => InBackups(Order[j])
  /\ \A p \in Portfolios : Today \in snapshots[p] =>
       \/ InBackups(p)
       \/ proc.at \in {"export", "dated"} /\ P = p

-----------------------------------------------------------------------------
(* What the files hold.                                                    *)

InOrder ==
  \A p \in Portfolios : \A d, e \in DOMAIN gens[p] : d <= e => gens[p][d] <= gens[p][e]

(* The dump that is being made is younger than what is there, and holds    *)
(* what was entered before the day its run began on.                       *)
DumpInHand ==
  /\ proc.at \in {"dated", "stable", "mark"} =>
       /\ proc.data <= books /\ booksAt[BeganOn + 1] <= proc.data
       /\ stable[P] <= proc.data
       /\ \A d \in DOMAIN gens[P] : gens[P][d] <= proc.data
  /\ proc.at \in {"stable", "mark"} =>
       \E d \in DOMAIN gens[P] : d >= BeganOn /\ gens[P][d] = proc.data
  /\ proc.at = "mark" => stable[P] = proc.data

-----------------------------------------------------------------------------
(* Days and hours.                                                         *)

(* A time is its day and its hour, and no other day and hour are it.       *)
LEMMA TimeParts ==
  ASSUME NEW t \in Nat
  PROVE  /\ Day(t) \in Nat /\ Hour(t) \in 0..(DayHours - 1)
         /\ t = DayHours * Day(t) + Hour(t)
  BY ScheduleAssumption, SMTT(60) DEF Day, Hour

(* A later day is later, at any hour.                                      *)
LEMMA LaterDay ==
  ASSUME NEW d \in Nat, NEW e \in Nat, d < e,
         NEW h \in 0..(DayHours - 1), NEW k \in 0..(DayHours - 1)
  PROVE  DayHours * d + h < DayHours * e + k
<1>1. DayHours \in Nat /\ DayHours > 0
  BY ScheduleAssumption, SMTT(60)
<1>2. DayHours * (e - d) >= DayHours
  <2>1. e - d >= 1
    OBVIOUS
  <2>2. QED
    BY <1>1, <2>1
<1>3. DayHours * e = DayHours * d + DayHours * (e - d)
  BY <1>1
<1>4. DayHours * d \in Nat /\ DayHours * e \in Nat /\ DayHours * (e - d) \in Nat
  BY <1>1
<1>5. QED
  BY <1>1, <1>2, <1>3, <1>4

LEMMA PartsOf ==
  ASSUME NEW d \in Nat, NEW h \in 0..(DayHours - 1)
  PROVE  /\ DayHours * d + h \in Nat
         /\ Day(DayHours * d + h) = d /\ Hour(DayHours * d + h) = h
<1> DEFINE t == DayHours * d + h
<1>1. DayHours * d \in Nat
  BY ScheduleAssumption, SMTT(60)
<1>2. t \in Nat
  BY <1>1, ScheduleAssumption, SMTT(60)
<1>3. t = DayHours * Day(t) + Hour(t) /\ Day(t) \in Nat /\ Hour(t) \in 0..(DayHours - 1)
  BY <1>2, TimeParts
<1>4. Day(t) = d
  <2>1. ~(Day(t) < d) /\ ~(d < Day(t))
    BY <1>1, <1>2, <1>3, LaterDay
  <2>2. QED
    BY <1>3, <2>1
<1>5. Hour(t) = h
  BY <1>1, <1>3, <1>4, ScheduleAssumption, SMTT(60)
<1>6. QED
  BY <1>2, <1>4, <1>5

(* The next hour is of the same day, or it is the first of the next one.   *)
LEMMA NextHour ==
  ASSUME NEW t \in Nat
  PROVE  \/ Day(t + 1) = Day(t) /\ Hour(t + 1) = Hour(t) + 1
         \/ Day(t + 1) = Day(t) + 1 /\ Hour(t + 1) = 0
<1>1. /\ Day(t) \in Nat /\ Hour(t) \in 0..(DayHours - 1)
      /\ t = DayHours * Day(t) + Hour(t)
  BY TimeParts
<1>2. CASE Hour(t) < DayHours - 1
  <2>1. Hour(t) + 1 \in 0..(DayHours - 1) /\ t + 1 = DayHours * Day(t) + (Hour(t) + 1)
    BY <1>1, <1>2, ScheduleAssumption, SMTT(60)
  <2>2. QED
    BY <1>1, <2>1, PartsOf
<1>3. CASE Hour(t) = DayHours - 1
  <2>1. 0 \in 0..(DayHours - 1) /\ t + 1 = DayHours * (Day(t) + 1) + 0
    BY <1>1, <1>3, ScheduleAssumption, SMTT(60)
  <2>2. QED
    BY <1>1, <2>1, PartsOf
<1>4. QED
  BY <1>1, <1>2, <1>3, ScheduleAssumption, SMTT(60)

(* Days follow each other, and the hours of one day.                       *)
LEMMA DaysFollow ==
  ASSUME NEW s \in Nat, NEW t \in Nat, s <= t
  PROVE  /\ Day(s) <= Day(t)
         /\ Day(s) = Day(t) => Hour(s) <= Hour(t) /\ t - s = Hour(t) - Hour(s)
<1>1. /\ Day(s) \in Nat /\ Hour(s) \in 0..(DayHours - 1)
      /\ s = DayHours * Day(s) + Hour(s)
  BY TimeParts
<1>2. /\ Day(t) \in Nat /\ Hour(t) \in 0..(DayHours - 1)
      /\ t = DayHours * Day(t) + Hour(t)
  BY TimeParts
<1>3. Day(s) <= Day(t)
  <2>1. ~(Day(t) < Day(s))
    BY <1>1, <1>2, LaterDay
  <2>2. QED
    BY <1>1, <1>2, <2>1
<1>4. ASSUME Day(s) = Day(t)
      PROVE  Hour(s) <= Hour(t) /\ t - s = Hour(t) - Hour(s)
  <2>1. PICK m \in Nat : m = DayHours * Day(s)
    BY <1>1, ScheduleAssumption, SMTT(60)
  <2>2. s = m + Hour(s) /\ t = m + Hour(t)
    BY ONLY <1>1, <1>2, <1>4, <2>1
  <2>3. Hour(s) \in Int /\ Hour(t) \in Int
    BY <1>1, <1>2
  <2>4. QED
    BY ONLY <2>1, <2>2, <2>3, s <= t, s \in Nat, t \in Nat
<1>5. QED
  BY <1>3, <1>4

(* The time of the next run: ahead, at its hour, today or tomorrow.        *)
LEMMA NextRun ==
  ASSUME NEW t \in Nat
  PROVE  /\ NextDaily(t) \in Nat /\ NextDaily(t) > t
         /\ Hour(NextDaily(t)) = RunHour
         /\ Day(NextDaily(t)) = IF Hour(t) < RunHour THEN Day(t) ELSE Day(t) + 1
<1>1. /\ Day(t) \in Nat /\ Hour(t) \in 0..(DayHours - 1)
      /\ t = DayHours * Day(t) + Hour(t)
  BY TimeParts
<1>2. CASE Hour(t) < RunHour
  <2>1. NextDaily(t) = DayHours * Day(t) + RunHour
    BY <1>1, <1>2, ScheduleAssumption, SMTT(60) DEF NextDaily
  <2>2. RunHour \in 0..(DayHours - 1)
    BY ScheduleAssumption, SMTT(60)
  <2>3. /\ NextDaily(t) \in Nat /\ Hour(NextDaily(t)) = RunHour
        /\ Day(NextDaily(t)) = Day(t)
    BY <1>1, <2>1, <2>2, PartsOf
  <2>4. NextDaily(t) > t
    <3>1. DayHours * Day(t) \in Nat
      BY <1>1, ScheduleAssumption, SMTT(60)
    <3>2. QED
      BY <1>1, <1>2, <2>1, <2>2, <3>1, ScheduleAssumption, SMTT(60)
  <2>5. QED
    BY <1>2, <2>3, <2>4
<1>3. CASE ~(Hour(t) < RunHour)
  <2>1. NextDaily(t) = DayHours * (Day(t) + 1) + RunHour
    BY <1>1, <1>3, ScheduleAssumption, SMTT(60) DEF NextDaily
  <2>2. Day(t) + 1 \in Nat /\ RunHour \in 0..(DayHours - 1)
    BY <1>1, ScheduleAssumption, SMTT(60)
  <2>3. /\ NextDaily(t) \in Nat /\ Hour(NextDaily(t)) = RunHour
        /\ Day(NextDaily(t)) = Day(t) + 1
    BY <2>1, <2>2, PartsOf
  <2>4. NextDaily(t) > t
    BY <1>1, <2>1, ScheduleAssumption, SMTT(60)
  <2>5. QED
    BY <1>3, <2>3, <2>4
<1>4. QED
  BY <1>2, <1>3

(* The hour before the next run is not its hour.                           *)
LEMMA HourBefore ==
  ASSUME NEW t \in Nat, t + 1 < NextDaily(t)
  PROVE  /\ Hour(t + 1) # RunHour
         /\ Day(t + 1) = Day(t) + 1 => Hour(t + 1) = 0
         /\ Hour(t) < RunHour => Day(t + 1) = Day(t) /\ Hour(t + 1) < RunHour
<1>1. /\ Day(t) \in Nat /\ Hour(t) \in 0..(DayHours - 1)
      /\ t = DayHours * Day(t) + Hour(t)
  BY TimeParts
<1>2. /\ Day(t + 1) \in Nat /\ Hour(t + 1) \in 0..(DayHours - 1)
      /\ t + 1 = DayHours * Day(t + 1) + Hour(t + 1)
  BY TimeParts
<1>3. \/ Day(t + 1) = Day(t) /\ Hour(t + 1) = Hour(t) + 1
      \/ Day(t + 1) = Day(t) + 1 /\ Hour(t + 1) = 0
  BY NextHour
<1>4. RunHour \in Nat /\ RunHour > 0 /\ RunHour < DayHours
  BY ScheduleAssumption, SMTT(60)
<1>5. CASE Hour(t) < RunHour
  <2>1. NextDaily(t) = DayHours * Day(t) + RunHour
    BY <1>1, <1>5, ScheduleAssumption, SMTT(60) DEF NextDaily
  <2>2. Hour(t) + 1 < RunHour
    BY <1>1, <1>4, <2>1, ScheduleAssumption, SMTT(60)
  <2>3. Day(t + 1) = Day(t) /\ Hour(t + 1) = Hour(t) + 1
    <3>1. Hour(t) + 1 \in 0..(DayHours - 1) /\ t + 1 = DayHours * Day(t) + (Hour(t) + 1)
      BY <1>1, <1>4, <2>2, ScheduleAssumption, SMTT(60)
    <3>2. QED
      BY <1>1, <3>1, PartsOf
  <2>4. QED
    BY <1>1, <1>4, <2>2, <2>3
<1>6. CASE ~(Hour(t) < RunHour)
  BY <1>1, <1>3, <1>4, <1>6
<1>7. QED
  BY <1>5, <1>6

(* When something that takes no longer than RunHour hours is not of today, *)
(* it is of yesterday, and the hour of the run is ahead.                   *)
LEMMA BeganYesterday ==
  ASSUME NEW t \in Nat, NEW s \in 0..RunHour, s <= t
  PROVE  /\ t - s \in Nat /\ Day(t - s) \in Nat /\ Day(t - s) <= Day(t)
         /\ Day(t - s) # Day(t) => Day(t - s) + 1 = Day(t) /\ Hour(t) < RunHour
<1>1. t - s \in Nat /\ s \in Nat /\ s < DayHours /\ s <= RunHour /\ RunHour \in Nat
  BY ScheduleAssumption, SMTT(60)
<1>2. /\ Day(t) \in Nat /\ Hour(t) \in 0..(DayHours - 1)
      /\ t = DayHours * Day(t) + Hour(t)
  BY TimeParts
<1>3. CASE Hour(t) >= s
  <2>1. DayHours \in Nat /\ DayHours * Day(t) \in Nat
    BY <1>2, ScheduleAssumption, SMTT(60)
  <2>2. Hour(t) - s \in 0..(DayHours - 1) /\ t - s = DayHours * Day(t) + (Hour(t) - s)
    BY <1>1, <1>2, <1>3, <2>1
  <2>3. Day(t - s) = Day(t)
    BY <1>2, <2>2, PartsOf
  <2>4. QED
    BY <1>1, <1>2, <2>3
<1>4. CASE Hour(t) < s
  <2>1. CASE Day(t) = 0
    BY <1>2, <1>4, <2>1, ScheduleAssumption, SMTT(60)
  <2>2. CASE Day(t) # 0
    <3>1. Day(t) - 1 \in Nat /\ Hour(t) + DayHours - s \in 0..(DayHours - 1)
      BY <1>1, <1>2, <1>4, <2>2, ScheduleAssumption, SMTT(60)
    <3>2. DayHours * Day(t) = DayHours * (Day(t) - 1) + DayHours
      BY <1>2, ScheduleAssumption, SMTT(60)
    <3>3. DayHours \in Nat /\ DayHours * (Day(t) - 1) \in Nat
      BY <3>1, ScheduleAssumption, SMTT(60)
    <3>4. t - s = DayHours * (Day(t) - 1) + (Hour(t) + DayHours - s)
      BY <1>1, <1>2, <3>1, <3>2, <3>3
    <3>5. Day(t - s) = Day(t) - 1
      BY <3>1, <3>4, PartsOf
    <3>6. Day(t - s) \in Nat /\ Day(t - s) + 1 = Day(t)
      BY <1>2, <3>1, <3>5
    <3>7. Hour(t) < RunHour
      BY <1>1, <1>2, <1>4
    <3>8. QED
      BY <1>1, <1>2, <3>6, <3>7
  <2>3. QED
    BY <2>1, <2>2
<1>5. QED
  BY <1>1, <1>2, <1>3, <1>4

-----------------------------------------------------------------------------
(* What the removal of old generations leaves.                             *)

LEMMA PrunedIsAPart ==
  ASSUME NEW g
  PROVE  /\ DOMAIN Pruned(g) \subseteq DOMAIN g
         /\ \A d \in DOMAIN Pruned(g) : Pruned(g)[d] = g[d]
  BY DEF Pruned

(* The youngest generation stays.                                          *)
LEMMA YoungestStays ==
  ASSUME NEW n \in Nat, NEW g, DOMAIN g \subseteq 0..n, n \in DOMAIN g
  PROVE  n \in DOMAIN Pruned(g)
<1>1. {y \in DOMAIN g : y > n} = {}
  OBVIOUS
<1>2. Cardinality({y \in DOMAIN g : y > n}) = 0
  BY <1>1, FS_EmptySet
<1>3. QED
  BY <1>2, ScheduleAssumption DEF Pruned

(* What goes has enough younger ones that stay.                            *)
LEMMA EnoughStay ==
  ASSUME NEW n \in Nat, NEW g, DOMAIN g \subseteq 0..n,
         NEW d \in DOMAIN g, d \notin DOMAIN Pruned(g)
  PROVE  Cardinality({e \in DOMAIN Pruned(g) : e > d}) >= BackupKeep
<1> DEFINE Gone == DOMAIN g \ DOMAIN Pruned(g)
           Back == {n - x : x \in Gone}
<1>1. d \in Gone /\ Gone \subseteq 0..n
  OBVIOUS
<1>2. Back \subseteq Nat /\ Back # {}
  BY <1>1
<1>3. PICK b \in Back : \A c \in Back : ~ (<<c, b>> \in OpToRel(<, Nat))
  BY ONLY <1>2, NatLessThanWellFounded, WFMin
<1>4. PICK last \in Gone : b = n - last
  OBVIOUS
<1>5. \A x \in Gone : x <= last
  <2> TAKE x \in Gone
  <2>1. ~ (n - x < n - last)
    BY <1>1, <1>2, <1>3, <1>4 DEF OpToRel
  <2>2. x \in 0..n /\ last \in 0..n
    BY <1>1
  <2>3. QED
    BY <2>1, <2>2
<1> DEFINE Younger == {y \in DOMAIN g : y > last}
           Kept == {e \in DOMAIN Pruned(g) : e > d}
<1>6. Younger \subseteq Kept
  <2>1. ASSUME NEW y \in DOMAIN g, y > last
        PROVE  y \in DOMAIN Pruned(g) /\ y > d
    <3>1. y \in 0..n /\ last \in 0..n /\ d \in 0..n
      BY <1>1
    <3>2. y \notin Gone
      BY <1>5, <2>1, <3>1
    <3>3. d <= last
      BY <1>1, <1>5
    <3>4. QED
      BY <2>1, <3>1, <3>2, <3>3
  <2>2. QED
    BY <2>1
<1>7. IsFiniteSet(Kept) /\ IsFiniteSet(Younger)
  <2>1. IsFiniteSet(0..n)
    BY FS_Interval
  <2>2. Kept \subseteq 0..n /\ Younger \subseteq 0..n
    BY PrunedIsAPart
  <2>3. QED
    BY <2>1, <2>2, FS_Subset
<1>8. Cardinality(Younger) <= Cardinality(Kept)
  BY <1>6, <1>7, FS_Subset
<1>9. ~(Cardinality(Younger) < BackupKeep)
  BY <1>4 DEF Pruned
<1>10. Cardinality(Younger) \in Nat /\ Cardinality(Kept) \in Nat
  BY <1>7, FS_CardinalityType
<1>11. QED
  BY <1>8, <1>9, <1>10, ScheduleAssumption

(* Hence one younger generation at least.                                  *)
LEMMA OneStays ==
  ASSUME NEW n \in Nat, NEW g, DOMAIN g \subseteq 0..n,
         NEW d \in DOMAIN g, d \notin DOMAIN Pruned(g)
  PROVE  \E e \in DOMAIN Pruned(g) : e > d
<1> DEFINE Kept == {e \in DOMAIN Pruned(g) : e > d}
<1>1. Cardinality(Kept) >= BackupKeep
  BY EnoughStay
<1>2. Kept # {}
  <2> HIDE DEF Kept
  <2>1. ASSUME Kept = {}
        PROVE  FALSE
    <3>1. Cardinality(Kept) = 0
      BY <2>1, FS_EmptySet, Zenon
    <3>2. QED
      BY <1>1, <3>1, ScheduleAssumption
  <2>2. QED
    BY <2>1
<1>3. QED
  BY <1>2

-----------------------------------------------------------------------------
(* What the steps make of the record of the process.                       *)

LEMMA DownIsAProcess ==
  /\ Down \in Procs
  /\ Down.at = "down" /\ Down.slow = 0 /\ Down.i = 0 /\ Down.data = 0
  BY DEF Down, Procs, Places

(* A wait: until the next hour, when a run has failed, or the daily hour.  *)
Waiting(w) ==
  /\ w \in Procs
  /\ w.at = "waiting" /\ w.slow = 0 /\ w.data = 0
  /\ w.wake > now
  /\ Day(w.wake) \in Nat /\ Hour(w.wake) \in 0..(DayHours - 1)
  /\ Day(w.wake) <= Today + 1
  /\ Day(w.wake) = Today + 1 => Hour(w.wake) <= RunHour
  /\ ~w.retry => Hour(w.wake) = RunHour
  /\ w.retry => Hour(w.wake) # RunHour /\ retries < RefreshRetries
  /\ Hour(now) < RunHour => Day(w.wake) = Today /\ Hour(w.wake) <= RunHour

LEMMA WaitIsAWait ==
  ASSUME ClockTypes
  PROVE  Waiting(Wait(failed, retries))
<1> DEFINE soon == [Down EXCEPT !.at = "waiting", !.wake = now + 1, !.retry = TRUE]
           daily == [Down EXCEPT !.at = "waiting", !.wake = NextDaily(now)]
<1>1. now \in Nat /\ now + 1 \in Nat /\ Today \in Nat /\ RunHour \in Nat /\ RunHour > 0
  <2>1. now \in Nat
    BY DEF ClockTypes
  <2>2. Day(now) \in Nat
    BY <2>1, TimeParts
  <2>3. QED
    BY <2>1, <2>2, ScheduleAssumption DEF Today
<1>2. Hour(now) \in Nat
  <2>1. Hour(now) \in 0..(DayHours - 1)
    BY <1>1, TimeParts
  <2>2. QED
    BY <2>1, ScheduleAssumption
<1>3. /\ NextDaily(now) \in Nat /\ NextDaily(now) > now
      /\ Hour(NextDaily(now)) = RunHour
      /\ Day(NextDaily(now)) = IF Hour(now) < RunHour THEN Today ELSE Today + 1
  BY <1>1, NextRun DEF Today
<1>4. Waiting(daily)
  <2>1. /\ daily \in Procs /\ daily.at = "waiting" /\ daily.slow = 0 /\ daily.data = 0
        /\ daily.wake = NextDaily(now) /\ daily.retry = FALSE
    BY <1>3 DEF Down, Procs, Places
  <2>2. Day(daily.wake) \in Nat /\ Hour(daily.wake) \in 0..(DayHours - 1)
    BY <1>3, <2>1, TimeParts
  <2> HIDE DEF daily
  <2>3. QED
    BY <1>1, <1>2, <1>3, <2>1, <2>2 DEF Waiting
<1>5. ASSUME retries < RefreshRetries, now + 1 < NextDaily(now)
      PROVE  Waiting(soon)
  <2>1. /\ soon \in Procs /\ soon.at = "waiting" /\ soon.slow = 0 /\ soon.data = 0
        /\ soon.wake = now + 1 /\ soon.retry = TRUE
    BY <1>1 DEF Down, Procs, Places
  <2>2. Day(soon.wake) \in Nat /\ Hour(soon.wake) \in 0..(DayHours - 1)
    BY <1>1, <2>1, TimeParts
  <2>3. /\ Hour(now + 1) # RunHour
        /\ Day(now + 1) = Today + 1 => Hour(now + 1) = 0
        /\ Hour(now) < RunHour => Day(now + 1) = Today /\ Hour(now + 1) < RunHour
    BY <1>1, <1>5, HourBefore DEF Today
  <2>4. Day(now + 1) = Today \/ Day(now + 1) = Today + 1
    BY <1>1, NextHour DEF Today
  <2> HIDE DEF soon
  <2>5. QED
    BY <1>1, <1>2, <1>5, <2>1, <2>2, <2>3, <2>4 DEF Waiting
<1> HIDE DEF soon, daily
<1>6. Wait(failed, retries) = daily \/
        (Wait(failed, retries) = soon /\ retries < RefreshRetries /\ now + 1 < NextDaily(now))
  BY DEF Wait, soon, daily
<1>7. QED
  BY <1>4, <1>5, <1>6

(* The other records.                                                      *)
LEMMA Starts ==
  ASSUME Start
  PROVE  proc' \in Procs /\ proc'.at = "check" /\ proc'.slow = 0 /\ proc'.data = 0
  BY DEF Start, Down, Procs, Places

LEMMA BeginsARun ==
  ASSUME BeginRun
  PROVE  /\ proc' \in Procs
         /\ proc'.at = "refresh" /\ proc'.slow = 0 /\ proc'.data = 0
         /\ runs' = runs + 1
  BY DEF BeginRun, Down, Procs, Places

LEMMA ComesTo ==
  ASSUME ClockTypes, NEW i \in Nat, proc' = At("snapshot", i)
  PROVE  /\ proc' \in Procs
         /\ proc'.at = "snapshot" /\ proc'.slow = proc.slow /\ proc'.i = i /\ proc'.data = 0
  BY DEF At, ClockTypes, Down, Procs, Places

LEMMA GoesTo ==
  ASSUME ClockTypes, NEW where \in Places, GoTo(where)
  PROVE  /\ proc' \in Procs
         /\ proc'.at = where /\ proc'.slow = proc.slow /\ proc'.i = proc.i
         /\ proc'.data = proc.data
  BY DEF GoTo, ClockTypes, Procs

LEMMA TakesTheDump ==
  ASSUME ClockTypes, books \in Nat, proc' = [proc EXCEPT !.at = "dated", !.data = books]
  PROVE  /\ proc' \in Procs
         /\ proc'.at = "dated" /\ proc'.slow = proc.slow /\ proc'.i = proc.i
         /\ proc'.data = books
<1>1. proc \in Procs
  BY DEF ClockTypes
<1>2. QED
  BY ONLY <1>1, books \in Nat, proc' = [proc EXCEPT !.at = "dated", !.data = books]
     DEF Procs, Places

(* An hour goes by, in a run or outside one.                               *)
LEMMA HourGoesBy ==
  ASSUME ClockTypes, Tick
  PROVE  /\ proc' \in Procs
         /\ proc'.at = proc.at /\ proc'.i = proc.i /\ proc'.data = proc.data
         /\ proc'.wake = proc.wake /\ proc'.retry = proc.retry
         /\ IF Running THEN proc.slow < limits.slow /\ proc'.slow = proc.slow + 1
                       ELSE proc'.slow = proc.slow
         /\ now' = now + 1 /\ proc.at # "check"
         /\ proc.at = "waiting" => now < proc.wake
<1>1. proc \in Procs
  BY DEF ClockTypes
<1>2. CASE Running
  <2>1. proc' = [proc EXCEPT !.slow = proc.slow + 1]
    BY <1>2 DEF Tick
  <2>2. /\ proc' \in Procs /\ proc'.at = proc.at /\ proc'.i = proc.i /\ proc'.data = proc.data
        /\ proc'.wake = proc.wake /\ proc'.retry = proc.retry /\ proc'.slow = proc.slow + 1
    BY ONLY <1>1, <2>1 DEF Procs
  <2>3. QED
    BY <1>2, <2>2 DEF Tick
<1>3. CASE ~Running
  BY <1>1, <1>3 DEF Tick
<1>4. QED
  BY <1>2, <1>3

-----------------------------------------------------------------------------
(* Type correctness.                                                       *)

LEMMA ClockTypesStart == Init => ClockTypes
<1> SUFFICES ASSUME Init PROVE ClockTypes
  OBVIOUS
<1>1. now \in Nat /\ limits \in Limits /\ 0 \in 0..RefreshRetries /\ RunHour \in Nat
  BY ScheduleAssumption DEF Init
<1>2. proc \in Procs /\ proc.slow = 0 /\ proc.at = "down"
  BY DownIsAProcess DEF Init
<1>3. retries = 0 /\ runs = 0 /\ starts = 0 /\ faults = 0 /\ crashes = 0
  BY Zenon DEF Init
<1>4. failed \in BOOLEAN
  BY Zenon DEF Init
<1>5. QED
  BY ONLY <1>1, <1>2, <1>3, <1>4 DEF ClockTypes, AtRunner

LEMMA LimitsTypes ==
  ASSUME ClockTypes
  PROVE  /\ limits.faults \in Nat /\ limits.crashes \in Nat /\ limits.changes \in Nat
         /\ limits.slow \in 0..RunHour
  BY ScheduleAssumption DEF ClockTypes

LEMMA OrderTypes ==
  /\ Len(Order) \in Nat /\ Len(Order) >= 1 /\ DOMAIN Order = 1..Len(Order)
  /\ \A i \in DOMAIN Order : Order[i] \in Portfolios
  /\ \A p \in Portfolios : \E i \in DOMAIN Order : Order[i] = p
<1>1. /\ Order \in Seq(Portfolios) /\ Portfolios # {}
      /\ \A p \in Portfolios : \E i \in DOMAIN Order : Order[i] = p
  BY ScheduleAssumption
<1>2. Len(Order) \in Nat /\ DOMAIN Order = 1..Len(Order)
  BY <1>1
<1>3. \E i \in 1..Len(Order) : TRUE
  BY <1>1, <1>2
<1>4. QED
  BY <1>1, <1>2, <1>3

LEMMA ClockTypesStep ==
  ASSUME ClockTypes, BookTypes, Wakes, Next
  PROVE  ClockTypes'
<1> USE DEF AtRunner
<1>1. now \in Nat /\ limits \in Limits /\ proc \in Procs /\ RunHour \in Nat /\ proc.slow \in Nat
      /\ retries \in 0..RefreshRetries /\ RefreshRetries \in Nat
  BY ScheduleAssumption DEF ClockTypes, Procs
<1>2. CASE Start
  <2>1. proc' \in Procs /\ proc'.at = "check" /\ proc'.slow = 0
    BY <1>2, Starts
  <2>2. /\ now' = now /\ limits' = limits /\ retries' = 0
        /\ runs' = runs /\ starts' = starts + 1 /\ faults' = faults /\ crashes' = crashes
    BY <1>2 DEF Start
  <2>3. starts \in Nat /\ runs \in Nat /\ faults \in Nat /\ crashes \in Nat
    BY DEF ClockTypes
  <2>4. failed' \in BOOLEAN
    BY <1>2, Zenon DEF Start
  <2>5. QED
    BY ONLY <1>1, <2>1, <2>2, <2>3, <2>4 DEF ClockTypes, AtRunner
<1>3. CASE CheckAtStart
  BY <1>1, <1>3, WaitIsAWait, BeginsARun DEF CheckAtStart, ClockTypes, Waiting
<1>4. CASE Wake
  <2>1. retries' \in 0..RefreshRetries
    BY <1>1, <1>4 DEF Wake, Wakes
  <2>2. QED
    BY <1>1, <1>4, <2>1, BeginsARun DEF Wake, ClockTypes
<1>5. CASE Refresh
  <2>1. 1 \in DOMAIN Order /\ 1 \in Nat
    BY OrderTypes
  <2>2. QED
    BY <1>1, <1>5, <2>1, ComesTo DEF Refresh, ClockTypes, history
<1>6. CASE Snapshot
  BY <1>1, <1>6, GoesTo DEF Snapshot, ClockTypes, Places, Fails
<1>7. CASE Export
  BY <1>1, <1>7, TakesTheDump DEF Export, ClockTypes, Places, history, BookTypes
<1>8. CASE WriteDated
  BY <1>1, <1>8, GoesTo DEF WriteDated, ClockTypes, Places, history
<1>9. CASE WriteStable
  BY <1>1, <1>9, GoesTo DEF WriteStable, ClockTypes, Places, history
<1>10. CASE Mark
  BY <1>1, <1>10, GoesTo DEF Mark, ClockTypes, Places, history
<1>11. CASE DumpFails
  BY <1>1, <1>11, GoesTo DEF DumpFails, ClockTypes, Places, Fails
<1>12. CASE NextPortfolio
  <2>1. CASE proc.i < Len(Order)
    <3>1. proc.i + 1 \in DOMAIN Order /\ proc.i + 1 \in Nat
      BY <1>1, <1>12, <2>1, OrderTypes DEF NextPortfolio, ClockTypes
    <3>2. proc' = At("snapshot", proc.i + 1)
      BY <1>12, <2>1 DEF NextPortfolio
    <3>3. QED
      BY <1>1, <1>12, <3>1, <3>2, ComesTo DEF NextPortfolio, ClockTypes, history
  <2>2. CASE ~(proc.i < Len(Order))
    BY <1>1, <1>12, <2>2, WaitIsAWait DEF NextPortfolio, ClockTypes, history, Waiting
  <2>3. QED
    BY <2>1, <2>2
<1>13. CASE Tick
  <2>1. proc'.slow \in Nat /\ proc'.slow <= RunHour /\ proc'.slow <= now'
    BY <1>1, <1>13, HourGoesBy, LimitsTypes DEF ClockTypes
  <2>2. runs' \in Nat /\ starts' \in Nat
    BY <1>13 DEF Tick, ClockTypes
  <2>3. QED
    BY <1>1, <1>13, <2>1, <2>2, HourGoesBy DEF Tick, ClockTypes
<1>14. CASE Change
  BY <1>1, <1>14 DEF Change, ClockTypes, history
<1>15. CASE Crash
  BY <1>1, <1>15, DownIsAProcess DEF Crash, ClockTypes
<1>16. QED
  BY <1>2, <1>3, <1>4, <1>5, <1>6, <1>7, <1>8, <1>9, <1>10, <1>11, <1>12, <1>13, <1>14, <1>15
     DEF Next, RunDaily, dailyRun

(* What the steps of the dump do to the generations.                       *)
LEMMA Runner ==
  ASSUME ClockTypes, proc.at \in AtRunner
  PROVE  P \in Portfolios
  BY OrderTypes DEF ClockTypes, P

LEMMA Dated ==
  ASSUME ClockTypes, FileTypes, WriteDated
  PROVE  /\ P \in Portfolios
         /\ DOMAIN gens' = Portfolios
         /\ \A p \in Portfolios : p # P => gens'[p] = gens[p]
         /\ DOMAIN gens'[P] = DOMAIN gens[P] \cup {Today}
         /\ \A d \in DOMAIN gens'[P] :
              gens'[P][d] = IF d = Today THEN proc.data ELSE gens[P][d]
<1> DEFINE g == [d \in DOMAIN gens[P] \cup {Today} |->
                   IF d = Today THEN proc.data ELSE gens[P][d]]
<1>1. P \in Portfolios
  BY Runner DEF WriteDated, AtRunner
<1>2. gens' = [gens EXCEPT ![P] = g]
  BY DEF WriteDated
<1>3. DOMAIN g = DOMAIN gens[P] \cup {Today}
  OBVIOUS
<1>4. \A d \in DOMAIN g : g[d] = IF d = Today THEN proc.data ELSE gens[P][d]
  OBVIOUS
<1> HIDE DEF g
<1>5. /\ DOMAIN gens' = Portfolios /\ gens'[P] = g
      /\ \A p \in Portfolios : p # P => gens'[p] = gens[p]
  BY <1>1, <1>2 DEF FileTypes
<1>6. QED
  BY <1>1, <1>3, <1>4, <1>5

LEMMA Removed ==
  ASSUME ClockTypes, FileTypes, WriteStable
  PROVE  /\ P \in Portfolios
         /\ DOMAIN gens' = Portfolios
         /\ \A p \in Portfolios : p # P => gens'[p] = gens[p]
         /\ gens'[P] = Pruned(gens[P])
         /\ DOMAIN gens[P] \subseteq 0..Today /\ Today \in Nat
<1>1. P \in Portfolios
  BY Runner DEF WriteStable, AtRunner
<1>2. gens' = [gens EXCEPT ![P] = Pruned(gens[P])]
  BY DEF WriteStable
<1>3. Today \in Nat
  BY TimeParts DEF ClockTypes, Today
<1>4. QED
  BY <1>1, <1>2, <1>3 DEF FileTypes

LEMMA TodayMoves ==
  ASSUME ClockTypes, Next
  PROVE  /\ Today \in Nat /\ Today' \in Nat
         /\ \/ now' = now /\ Today' = Today
            \/ Tick /\ now' = now + 1 /\ (Today' = Today \/ Today' = Today + 1)
<1>1. now \in Nat /\ (now' = now \/ (Tick /\ now' = now + 1))
  BY DEF ClockTypes, Next, RunDaily, dailyRun, Start, CheckAtStart, Wake, Refresh, Snapshot,
     Export, WriteDated, WriteStable, Mark, DumpFails, NextPortfolio, Tick, Change, Crash
<1>2. Today \in Nat /\ (Day(now + 1) = Today \/ Day(now + 1) = Today + 1)
  BY <1>1, TimeParts, NextHour DEF Today
<1>3. QED
  BY <1>1, <1>2 DEF Today

LEMMA FilesStart == Init => FileTypes /\ BookTypes
<1> SUFFICES ASSUME Init PROVE FileTypes /\ BookTypes
  OBVIOUS
<1>1. /\ snapshots = [p \in Portfolios |-> {}]
      /\ DOMAIN gens = Portfolios /\ \A p \in Portfolios : gens[p] = <<>>
      /\ stable = [p \in Portfolios |-> -1] /\ mark = [p \in Portfolios |-> -1]
  BY Zenon DEF Init
<1>2. \A p \in Portfolios : DOMAIN gens[p] = {}
  BY <1>1
<1>3. /\ books = 0 /\ booksAt = <<0>> /\ now \in 0..(DayHours - 1)
  BY Zenon DEF Init
<1>4. proc.data = 0
  BY DownIsAProcess, Zenon DEF Init
<1>5. Today = 0
  <2>1. 0 \in Nat /\ DayHours * 0 + now = now
    BY <1>3, ScheduleAssumption
  <2>2. Day(DayHours * 0 + now) = 0
    BY <1>3, <2>1, PartsOf
  <2>3. QED
    BY <2>1, <2>2 DEF Today
<1>6. BookTypes
  BY ONLY <1>3, <1>4, <1>5 DEF BookTypes
<1>7. FileTypes
  BY ONLY <1>1, <1>2, <1>3, <1>5 DEF FileTypes
<1>8. QED
  BY <1>6, <1>7

(* The books.                                                              *)
LEMMA BookTypesStep ==
  ASSUME ClockTypes, BookTypes, Next
  PROVE  BookTypes'
<1>1. /\ books \in Nat /\ booksAt \in Seq(Nat) /\ Len(booksAt) = Today + 1
      /\ \A k \in 1..(Today + 1) : booksAt[k] <= books
      /\ \A k, l \in 1..(Today + 1) : k <= l => booksAt[k] <= booksAt[l]
      /\ proc.data <= books /\ proc.data \in Nat
  BY DEF BookTypes, ClockTypes, Procs
<1>2. Today \in Nat /\ Today' \in Nat
  BY TodayMoves
<1>3. books' \in Nat /\ books <= books' /\ proc'.data <= books'
  <2>1. CASE Start
    <3>1. books' = books
      BY <2>1, Zenon DEF Start
    <3>2. QED
      BY <1>1, <2>1, <3>1, Starts
  <2>2. CASE CheckAtStart
    BY <1>1, <2>2, WaitIsAWait, BeginsARun DEF CheckAtStart, Waiting
  <2>3. CASE Wake
    BY <1>1, <2>3, BeginsARun DEF Wake
  <2>4. CASE Refresh
    <3>1. 1 \in Nat /\ proc' = At("snapshot", 1) /\ books' = books
      BY <2>4 DEF Refresh
    <3>2. QED
      BY <1>1, <3>1, ComesTo
  <2>5. CASE Snapshot \/ WriteDated \/ WriteStable \/ Mark \/ DumpFails
    <3>1. (\E w \in Places : GoTo(w)) /\ books' = books
      BY <2>5 DEF Snapshot, WriteDated, WriteStable, Mark, DumpFails, Places
    <3>2. QED
      BY <1>1, <3>1, GoesTo
  <2>6. CASE Export
    BY <1>1, <2>6, TakesTheDump DEF Export
  <2>7. CASE NextPortfolio
    <3>1. books' = books
      BY <2>7 DEF NextPortfolio
    <3>2. CASE proc.i < Len(Order)
      <4>1. proc.i + 1 \in Nat /\ proc' = At("snapshot", proc.i + 1)
        BY <2>7, <3>2 DEF NextPortfolio, ClockTypes, Procs
      <4>2. QED
        BY <1>1, <3>1, <4>1, ComesTo
    <3>3. CASE ~(proc.i < Len(Order))
      BY <1>1, <2>7, <3>1, <3>3, WaitIsAWait DEF NextPortfolio, Waiting
    <3>4. QED
      BY <3>2, <3>3
  <2>8. CASE Tick
    BY <1>1, <2>8, HourGoesBy DEF Tick
  <2>9. CASE Change
    BY <1>1, <2>9 DEF Change
  <2>10. CASE Crash
    BY <1>1, <2>10, DownIsAProcess DEF Crash
  <2>11. QED
    BY <2>1, <2>2, <2>3, <2>4, <2>5, <2>6, <2>7, <2>8, <2>9, <2>10 DEF Next, RunDaily, dailyRun
<1>4. CASE Today' = Today + 1
  <2>1. Tick /\ now' = now + 1
    BY <1>2, <1>4, TodayMoves
  <2>2. Hour(now') = 0
    BY <1>2, <1>4, <2>1, NextHour DEF Today, ClockTypes
  <2>3. booksAt' = Append(booksAt, books) /\ books' = books
    BY <2>1, <2>2 DEF Tick
  <2>4. /\ booksAt' \in Seq(Nat) /\ Len(booksAt') = Today + 2
        /\ \A k \in 1..(Today + 1) : booksAt'[k] = booksAt[k]
        /\ booksAt'[Today + 2] = books
    BY <1>1, <1>2, <2>3
  <2>5. \A k \in 1..(Today' + 1) : k \in 1..(Today + 1) \/ k = Today + 2
    BY <1>2, <1>4
  <2>6. \A k \in 1..(Today' + 1) : booksAt'[k] <= books'
    <3> TAKE k \in 1..(Today' + 1)
    <3>1. CASE k = Today + 2
      BY <1>1, <2>3, <2>4, <3>1
    <3>2. CASE k \in 1..(Today + 1)
      BY <1>1, <2>3, <2>4, <3>2
    <3>3. QED
      BY <2>5, <3>1, <3>2
  <2>7. ASSUME NEW k \in 1..(Today' + 1), NEW l \in 1..(Today' + 1), k <= l
        PROVE  booksAt'[k] <= booksAt'[l]
    <3>1. CASE l = Today + 2
      BY <2>3, <2>4, <2>6, <3>1
    <3>2. CASE l \in 1..(Today + 1)
      <4>1. k \in 1..(Today + 1)
        BY <1>2, <2>7, <3>2
      <4>2. QED
        BY <1>1, <2>4, <2>7, <3>2, <4>1
    <3>3. QED
      BY <2>5, <3>1, <3>2
  <2>8. QED
    BY <1>2, <1>3, <1>4, <2>4, <2>6, <2>7 DEF BookTypes
<1>5. CASE Today' = Today
  <2>1. booksAt' = booksAt
    <3>1. CASE Tick
      <4>1. Hour(now') # 0
        <5>1. now \in Nat /\ now' = now + 1 /\ Day(now + 1) # Day(now) + 1
          BY <1>2, <1>5, <3>1 DEF Tick, Today, ClockTypes
        <5>2. Hour(now) \in Nat /\ Hour(now + 1) = Hour(now) + 1
          BY <5>1, NextHour, TimeParts, ScheduleAssumption
        <5>3. QED
          BY <5>1, <5>2
      <4>2. QED
        BY <3>1, <4>1 DEF Tick
    <3>2. CASE ~Tick
      BY <3>2 DEF Next, RunDaily, dailyRun, Start, CheckAtStart, Wake, Refresh, Snapshot, Export,
         WriteDated, WriteStable, Mark, DumpFails, NextPortfolio, Change, Crash, history
    <3>3. QED
      BY <3>1, <3>2
  <2>2. \A k \in 1..(Today + 1) : booksAt[k] \in Nat
    BY <1>1, <1>2
  <2>3. \A k \in 1..(Today + 1) : booksAt[k] <= books'
    BY <1>1, <1>2, <1>3, <2>2
  <2>4. QED
    BY <1>1, <1>2, <1>3, <1>5, <2>1, <2>3 DEF BookTypes
<1>6. QED
  BY <1>2, <1>4, <1>5, TodayMoves

(* The files.                                                              *)
LEMMA FileTypesStep ==
  ASSUME ClockTypes, FileTypes, BookTypes, Next, BookTypes'
  PROVE  FileTypes'
<1>1. Today \in Nat /\ Today' \in Nat /\ Today <= Today'
  BY TodayMoves
<1>2. books \in Nat /\ books' \in Nat /\ books <= books' /\ proc.data \in 0..books
  <2>1. books' = books \/ books' = books + 1
    BY DEF Next, RunDaily, dailyRun, Start, CheckAtStart, Wake, Refresh, Snapshot, Export,
       WriteDated, WriteStable, Mark, DumpFails, NextPortfolio, Tick, Change, Crash
  <2>2. QED
    BY <2>1 DEF BookTypes, ClockTypes, Procs
<1>3. /\ snapshots' \in [Portfolios -> SUBSET Nat]
      /\ \A p \in Portfolios : \A d \in snapshots'[p] : d <= Today'
  <2>1. CASE snapshots' = [snapshots EXCEPT ![P] = @ \cup {Today}] /\ Snapshot
    <3>1. P \in Portfolios
      BY <2>1, Runner DEF Snapshot, AtRunner
    <3>2. \A p \in Portfolios : snapshots[p] \subseteq Nat
      BY DEF FileTypes
    <3>3. QED
      BY <1>1, <2>1, <3>1, <3>2 DEF FileTypes
  <2>2. CASE snapshots' = snapshots
    BY <1>1, <2>2 DEF FileTypes
  <2>3. QED
    BY <2>1, <2>2 DEF Next, RunDaily, dailyRun, Start, CheckAtStart, Wake, Refresh, Snapshot,
       Export, WriteDated, WriteStable, Mark, DumpFails, NextPortfolio, Tick, Change, Crash, files
<1>4. /\ DOMAIN gens' = Portfolios
      /\ \A p \in Portfolios : \A d \in DOMAIN gens'[p] :
           d \in 0..Today' /\ gens'[p][d] \in 0..books'
  <2>1. CASE WriteDated
    <3>1. books' = books /\ Today' = Today
      BY <2>1 DEF WriteDated, Today
    <3>2. QED
      BY <1>1, <1>2, <2>1, <3>1, Dated DEF FileTypes
  <2>2. CASE WriteStable
    <3>1. books' = books /\ Today' = Today
      BY <2>2 DEF WriteStable, Today
    <3>2. QED
      BY <2>2, <3>1, Removed, PrunedIsAPart DEF FileTypes
  <2>3. CASE gens' = gens
    BY <1>1, <1>2, <2>3 DEF FileTypes
  <2>4. QED
    BY <2>1, <2>2, <2>3 DEF Next, RunDaily, dailyRun, Start, CheckAtStart, Wake, Refresh,
       Snapshot, Export, Mark, DumpFails, NextPortfolio, Tick, Change, Crash, files
<1>5. stable' \in [Portfolios -> Int] /\ \A p \in Portfolios : stable'[p] <= books'
  <2>1. CASE stable' = [stable EXCEPT ![P] = proc.data] /\ WriteStable
    <3>1. P \in Portfolios
      BY <2>1, Runner DEF WriteStable, AtRunner
    <3>2. stable \in [Portfolios -> Int] /\ \A p \in Portfolios : stable[p] <= books
      BY DEF FileTypes
    <3>3. stable' \in [Portfolios -> Int] /\ stable'[P] = proc.data
      BY <1>2, <2>1, <3>1, <3>2
    <3>4. \A p \in Portfolios : p # P => stable'[p] = stable[p]
      BY <2>1, <3>2
    <3>5. \A p \in Portfolios : stable'[p] <= books'
      BY <1>2, <3>2, <3>3, <3>4
    <3>6. QED
      BY <3>3, <3>5
  <2>2. CASE stable' = stable
    BY <1>2, <2>2 DEF FileTypes
  <2>3. QED
    BY <2>1, <2>2 DEF Next, RunDaily, dailyRun, Start, CheckAtStart, Wake, Refresh, Snapshot,
       Export, WriteDated, WriteStable, Mark, DumpFails, NextPortfolio, Tick, Change, Crash, files
<1>6. mark' \in [Portfolios -> Int] /\ \A p \in Portfolios : mark'[p] <= Today'
  <2>1. CASE mark' = [mark EXCEPT ![P] = Today] /\ Mark
    <3>1. P \in Portfolios
      BY <2>1, Runner DEF Mark, AtRunner
    <3>2. mark \in [Portfolios -> Int] /\ \A p \in Portfolios : mark[p] <= Today
      BY DEF FileTypes
    <3>3. mark' \in [Portfolios -> Int] /\ mark'[P] = Today
      BY <1>1, <2>1, <3>1, <3>2
    <3>4. \A p \in Portfolios : p # P => mark'[p] = mark[p]
      BY <2>1, <3>2
    <3>5. \A p \in Portfolios : mark'[p] <= Today'
      BY <1>1, <3>2, <3>3, <3>4
    <3>6. QED
      BY <3>3, <3>5
  <2>2. CASE mark' = mark
    BY <1>1, <2>2 DEF FileTypes
  <2>3. QED
    BY <2>1, <2>2 DEF Next, RunDaily, dailyRun, Start, CheckAtStart, Wake, Refresh, Snapshot,
       Export, WriteDated, WriteStable, Mark, DumpFails, NextPortfolio, Tick, Change, Crash, files
<1>7. QED
  BY <1>3, <1>4, <1>5, <1>6 DEF FileTypes

-----------------------------------------------------------------------------
(* What the service waits for.                                             *)

LEMMA WaitsThenWakes ==
  ASSUME ClockTypes, proc' = Wait(failed, retries), now' = now, retries' = retries
  PROVE  Wakes'
<1>1. Waiting(proc')
  BY WaitIsAWait
<1>2. now \in Nat /\ proc'.wake \in Nat /\ proc'.wake > now /\ Today' = Today
  BY <1>1 DEF ClockTypes, Waiting, Procs, Today
<1>3. QED
  BY <1>1, <1>2 DEF Wakes, Waiting

LEMMA NotWaiting ==
  ASSUME ClockTypes,
         \/ Start \/ Wake \/ Refresh \/ Snapshot \/ Export \/ WriteDated \/ WriteStable \/ Mark
         \/ DumpFails \/ Crash
  PROVE  proc'.at # "waiting"
<1>1. CASE Start
  BY <1>1, Starts
<1>2. CASE Wake
  BY <1>2, BeginsARun DEF Wake
<1>3. CASE Refresh
  <2>1. 1 \in Nat /\ proc' = At("snapshot", 1)
    BY <1>3 DEF Refresh
  <2>2. QED
    BY <2>1, ComesTo
<1>4. CASE Snapshot \/ WriteDated \/ WriteStable \/ Mark \/ DumpFails
  <2>1. \E w \in Places \ {"waiting"} : GoTo(w)
    BY <1>4 DEF Snapshot, WriteDated, WriteStable, Mark, DumpFails, Places
  <2>2. QED
    BY <2>1, GoesTo
<1>5. CASE Export
  <2>1. proc' = [proc EXCEPT !.at = "dated", !.data = books] /\ proc \in Procs
    BY <1>5 DEF Export, ClockTypes
  <2>2. QED
    BY ONLY <2>1 DEF Procs
<1>6. CASE Crash
  BY <1>6, DownIsAProcess DEF Crash
<1>7. QED
  BY <1>1, <1>2, <1>3, <1>4, <1>5, <1>6

LEMMA WakesStep ==
  ASSUME ClockTypes, Wakes, Next
  PROVE  Wakes'
<1>1. CASE Start \/ Wake \/ Refresh \/ Snapshot \/ Export \/ WriteDated \/ WriteStable \/ Mark
           \/ DumpFails \/ Crash
  BY <1>1, NotWaiting DEF Wakes
<1>2. CASE CheckAtStart
  <2>1. now' = now /\ retries' = retries
    BY <1>2 DEF CheckAtStart
  <2>2. BeginRun \/ proc' = Wait(failed, retries)
    BY <1>2 DEF CheckAtStart
  <2>3. CASE BeginRun
    BY <2>3, BeginsARun DEF Wakes
  <2>4. QED
    BY <2>1, <2>2, <2>3, WaitsThenWakes
<1>3. CASE NextPortfolio
  <2>1. now' = now /\ retries' = retries
    BY <1>3 DEF NextPortfolio
  <2>2. CASE proc.i < Len(Order)
    <3>1. proc.i + 1 \in Nat /\ proc' = At("snapshot", proc.i + 1)
      BY <1>3, <2>2 DEF NextPortfolio, ClockTypes, Procs
    <3>2. QED
      BY <3>1, ComesTo DEF Wakes
  <2>3. CASE ~(proc.i < Len(Order))
    BY <1>3, <2>1, <2>3, WaitsThenWakes DEF NextPortfolio
  <2>4. QED
    BY <2>2, <2>3
<1>4. CASE Tick
  <2> SUFFICES ASSUME proc'.at = "waiting"
               PROVE  Wakes'
    BY DEF Wakes
  <2>1. /\ proc.at = "waiting" /\ proc'.wake = proc.wake /\ proc'.retry = proc.retry
        /\ now' = now + 1 /\ now < proc.wake /\ retries' = retries
    BY <1>4, HourGoesBy DEF Tick
  <2>2. now \in Nat /\ proc.wake \in Nat
    BY DEF ClockTypes, Procs
  <2>3. Today \in Nat /\ Today' \in Nat /\ Today <= Today' /\ Day(proc.wake) \in Nat
    BY <2>2, TodayMoves, TimeParts
  <2>4. Day(proc.wake) = Today' + 1 => Today' = Today
    <3>1. Day(proc.wake) <= Today + 1
      BY <2>1 DEF Wakes
    <3>2. \A a, b, c \in Nat : a <= b + 1 /\ b <= c /\ a = c + 1 => c = b
      OBVIOUS
    <3> QED BY ONLY <2>3, <3>1, <3>2
  <2>5. now' <= proc.wake
    BY <2>1, <2>2
  <2>6. Day(proc.wake) <= Today' + 1
    BY <2>1, <2>3 DEF Wakes
  <2>7. QED
    BY <2>1, <2>3, <2>4, <2>5, <2>6 DEF Wakes
<1>5. CASE Change
  BY <1>5 DEF Change, Wakes, Today, files, history
<1>6. QED
  BY <1>1, <1>2, <1>3, <1>4, <1>5 DEF Next, RunDaily, dailyRun

-----------------------------------------------------------------------------
(* How many runs a day may bring.                                          *)

MostRuns == (1 + RefreshRetries) * (1 + starts) + RefreshRetries

LEMMA LeftTypes ==
  ASSUME ClockTypes
  PROVE  /\ DailyLeft \in Nat /\ RetriesLeft \in Nat /\ runs \in Nat
         /\ DailyLeft <= 1 + RefreshRetries
         /\ proc.at # "check" => RetriesLeft <= RefreshRetries
         /\ MostRuns \in Nat
         /\ retries \in 0..RefreshRetries /\ RefreshRetries \in Nat
<1>1. retries \in 0..RefreshRetries /\ RefreshRetries \in Nat /\ starts \in Nat /\ runs \in Nat
  BY ScheduleAssumption DEF ClockTypes
<1>2. DailyLeft \in Nat /\ DailyLeft <= 1 + RefreshRetries
  BY <1>1 DEF DailyLeft
<1>3. RetriesLeft \in Nat /\ (proc.at # "check" => RetriesLeft <= RefreshRetries)
  BY <1>1 DEF RetriesLeft
<1>4. (1 + RefreshRetries) * (1 + starts) \in Nat
  BY <1>1
<1>5. MostRuns \in Nat
  BY <1>1, <1>4 DEF MostRuns
<1>6. QED
  BY <1>1, <1>2, <1>3, <1>5

(* Sums: of runs, what the daily hour may bring and what the retries may.  *)
LEMMA FewerLeft ==
  ASSUME NEW a \in Nat, NEW b \in Nat, NEW c \in Nat, NEW m \in Nat, NEW m2 \in Nat,
         NEW a2 \in Nat, NEW b2 \in Nat, NEW c2 \in Nat,
         a + b + c <= m, a2 + c2 <= a + c, b2 <= b, m2 = m
  PROVE  a2 + b2 + c2 <= m2
  OBVIOUS
LEMMA OneMoreStart ==
  ASSUME NEW a \in Nat, NEW b \in Nat, NEW k \in Nat, NEW m \in Nat, NEW b2 \in Nat,
         a + b + 0 <= m, b2 <= b
  PROVE  a + b2 + k <= m + k
  OBVIOUS
LEMMA LessLeft ==
  ASSUME NEW a \in Nat, NEW b \in Nat, NEW c \in Nat, NEW m \in Nat, NEW b2 \in Nat,
         a + b + c <= m, b2 <= b
  PROVE  a + b2 + c <= m
  OBVIOUS
LEMMA NoMore ==
  ASSUME NEW a \in Nat, NEW n \in Nat, NEW r \in Nat, NEW l \in Nat, l <= r - n
  PROVE  a + l <= a + (r - n) /\ a + l <= a + (1 + r)
  OBVIOUS
LEMMA AtMidnight ==
  ASSUME NEW b \in Nat, NEW r \in Nat, NEW l \in Nat, b <= 1 + r, l <= r
  PROVE  0 + b + l <= (1 + r) * (1 + 0) + r
  OBVIOUS

(* A step at which the hour stays, and the service does not start.         *)
LEMMA SameHour ==
  ASSUME ClockTypes, ClockTypes', RunsLeft, now' = now, starts' = starts,
         HourAhead' => HourAhead, runs' + RetriesLeft' <= runs + RetriesLeft
  PROVE  RunsLeft'
<1>1. DailyLeft' \in Nat /\ DailyLeft \in Nat /\ DailyLeft' <= DailyLeft
  BY LeftTypes, ScheduleAssumption DEF DailyLeft
<1>2. MostRuns' = MostRuns
  BY DEF MostRuns
<1>3. RetriesLeft' \in Nat /\ RetriesLeft \in Nat /\ runs \in Nat /\ runs' \in Nat
  <2>1. retries' \in 0..RefreshRetries /\ RefreshRetries \in Nat
    BY ScheduleAssumption DEF ClockTypes
  <2>2. \/ RetriesLeft' = 1 + RefreshRetries \/ RetriesLeft' = 0
        \/ RetriesLeft' = RefreshRetries - retries'
    BY ONLY TRUE DEF RetriesLeft
  <2>3. RetriesLeft' \in Nat
    BY ONLY <2>1, <2>2
  <2>4. QED
    BY <2>3, LeftTypes DEF ClockTypes
<1>4. MostRuns \in Nat
  BY LeftTypes
<1>5. runs + DailyLeft + RetriesLeft <= MostRuns
  BY DEF RunsLeft, MostRuns
<1>6. runs' + RetriesLeft' <= runs + RetriesLeft
  OBVIOUS
<1>7. runs' + DailyLeft' + RetriesLeft' <= MostRuns'
  BY ONLY <1>1, <1>2, <1>3, <1>4, <1>5, <1>6, FewerLeft
<1>8. QED
  BY <1>7 DEF RunsLeft, MostRuns

LEMMA WaitingLeaves ==
  ASSUME ClockTypes, proc' = Wait(failed, retries), now' = now, retries' = retries
  PROVE  /\ HourAhead' => HourAhead
         /\ RetriesLeft' <= RefreshRetries - retries
<1>1. Waiting(proc')
  BY WaitIsAWait
<1>2. proc'.at = "waiting" /\ proc'.wake > now /\ now \in Nat
  BY <1>1 DEF Waiting, ClockTypes
<1>3. retries \in 0..RefreshRetries /\ RefreshRetries \in Nat
  BY ScheduleAssumption DEF ClockTypes
<1>4. HourAhead' => HourAhead
  BY <1>2 DEF HourAhead
<1>5. RetriesLeft' <= RefreshRetries - retries
  BY <1>2, <1>3 DEF RetriesLeft
<1>6. QED
  BY <1>4, <1>5

LEMMA RunsLeftStart == Init => RunsLeft
<1> SUFFICES ASSUME Init PROVE RunsLeft
  OBVIOUS
<1>1. runs = 0 /\ starts = 0 /\ proc.at = "down"
  BY DownIsAProcess, Zenon DEF Init
<1>2. RetriesLeft = 0
  BY <1>1 DEF RetriesLeft
<1>3. RefreshRetries \in Nat /\ DailyLeft \in Nat /\ DailyLeft <= 1 + RefreshRetries
  BY ScheduleAssumption DEF DailyLeft
<1>4. QED
  BY <1>1, <1>2, <1>3 DEF RunsLeft

LEMMA RunsLeftStep ==
  ASSUME ClockTypes, ClockTypes', Wakes, RunsLeft, Next
  PROVE  RunsLeft'
<1>1. /\ retries \in 0..RefreshRetries /\ RefreshRetries \in Nat /\ runs \in Nat
      /\ starts \in Nat /\ now \in Nat
  BY ScheduleAssumption DEF ClockTypes
<1>2. CASE Start
  <2>1. proc.at = "down" /\ now' = now /\ runs' = runs /\ starts' = starts + 1
    BY <1>2, Zenon DEF Start
  <2>2. proc'.at = "check"
    BY <1>2, Starts
  <2>3. RetriesLeft = 0 /\ RetriesLeft' = 1 + RefreshRetries
    BY <2>1, <2>2 DEF RetriesLeft
  <2>4. DailyLeft' \in Nat /\ DailyLeft \in Nat /\ DailyLeft' <= DailyLeft
    BY <1>1, <2>1, <2>2 DEF DailyLeft, HourAhead
  <2>5. MostRuns' = MostRuns + (1 + RefreshRetries) /\ MostRuns \in Nat
    <3>1. (1 + RefreshRetries) * (1 + (starts + 1))
            = (1 + RefreshRetries) * (1 + starts) + (1 + RefreshRetries)
      BY <1>1
    <3>2. (1 + RefreshRetries) * (1 + starts) \in Nat
      BY <1>1
    <3>3. QED
      BY <1>1, <2>1, <3>1, <3>2 DEF MostRuns
  <2>6. runs + DailyLeft + RetriesLeft <= MostRuns
    BY DEF RunsLeft, MostRuns
  <2>7. 1 + RefreshRetries \in Nat /\ runs + DailyLeft + 0 <= MostRuns
    BY ONLY <1>1, <2>3, <2>6
  <2>8. runs + DailyLeft' + (1 + RefreshRetries) <= MostRuns + (1 + RefreshRetries)
    BY ONLY <1>1, <2>4, <2>5, <2>7, OneMoreStart
  <2>9. runs' + DailyLeft' + RetriesLeft' <= MostRuns'
    BY ONLY <2>1, <2>3, <2>5, <2>8
  <2>10. QED
    BY <2>9 DEF RunsLeft, MostRuns
<1>3. CASE CheckAtStart
  <2>1. proc.at = "check" /\ now' = now /\ starts' = starts /\ retries' = retries
    BY <1>3 DEF CheckAtStart
  <2>2. RetriesLeft = 1 + RefreshRetries
    BY <2>1 DEF RetriesLeft
  <2>3. CASE BeginRun
    <3>1. proc'.at = "refresh" /\ runs' = runs + 1
      BY <2>3, BeginsARun
    <3>2. HourAhead' => HourAhead
      BY <2>1, <3>1 DEF HourAhead
    <3>3. RetriesLeft' = RefreshRetries - retries
      BY <2>1, <3>1 DEF RetriesLeft
    <3>4. runs' + RetriesLeft' <= runs + RetriesLeft
      BY ONLY <1>1, <2>2, <3>1, <3>3
    <3>5. QED
      BY <2>1, <3>2, <3>4, SameHour
  <2>4. CASE proc' = Wait(failed, retries) /\ runs' = runs
    <3>1. /\ HourAhead' => HourAhead
          /\ RetriesLeft' <= RefreshRetries - retries
      BY <2>1, <2>4, WaitingLeaves
    <3>2. RetriesLeft' \in Nat
      BY <1>1, <2>1 DEF RetriesLeft
    <3>3. runs' + RetriesLeft' <= runs + RetriesLeft
      <4>1. retries \in Nat
        BY ONLY <1>1
      <4>2. runs + RetriesLeft' <= runs + (1 + RefreshRetries)
        BY ONLY <1>1, <3>1, <3>2, <4>1, NoMore
      <4>3. QED
        BY ONLY <2>2, <2>4, <4>2
    <3>4. QED
      BY <2>1, <3>1, <3>3, SameHour
  <2>5. QED
    BY <1>3, <2>3, <2>4 DEF CheckAtStart
<1>4. CASE Wake
  <2>1. /\ proc.at = "waiting" /\ now = proc.wake /\ now' = now /\ starts' = starts
        /\ retries' = IF proc.retry THEN retries + 1 ELSE 0
    BY <1>4 DEF Wake
  <2>2. proc'.at = "refresh" /\ runs' = runs + 1
    BY <1>4, BeginsARun DEF Wake
  <2>3. RetriesLeft' = RefreshRetries - retries'
    BY <2>2 DEF RetriesLeft
  <2>4. CASE proc.retry
    <3>1. RetriesLeft = RefreshRetries - retries
      BY <2>1, <2>4 DEF RetriesLeft
    <3>2. retries' = retries + 1
      BY <2>1, <2>4
    <3>3. runs' + RetriesLeft' <= runs + RetriesLeft
      BY ONLY <1>1, <2>2, <2>3, <3>1, <3>2
    <3>4. HourAhead' => HourAhead
      BY <2>1, <2>2 DEF HourAhead
    <3>5. QED
      BY <2>1, <3>3, <3>4, SameHour
  <2>5. CASE ~proc.retry
    <3>1. RetriesLeft = 0 /\ retries' = 0
      BY <2>1, <2>5 DEF RetriesLeft
    <3>2. Hour(now) = RunHour
      BY <2>1, <2>5 DEF Wakes
    <3>3. HourAhead /\ ~HourAhead'
      BY <2>1, <2>2, <2>5, <3>2, ScheduleAssumption DEF HourAhead
    <3>4. DailyLeft = 1 + RefreshRetries /\ DailyLeft' = 0
      BY <3>3 DEF DailyLeft
    <3>5. MostRuns' = MostRuns /\ MostRuns \in Nat
      BY <2>1, LeftTypes DEF MostRuns
    <3>6. runs + DailyLeft + RetriesLeft <= MostRuns
      BY DEF RunsLeft, MostRuns
    <3>7. runs' + DailyLeft' + RetriesLeft' <= MostRuns'
      BY ONLY <1>1, <2>2, <2>3, <3>1, <3>4, <3>5, <3>6
    <3>8. QED
      BY <3>7 DEF RunsLeft, MostRuns
  <2>6. QED
    BY <2>4, <2>5
<1>5. CASE Refresh \/ Snapshot \/ Export \/ WriteDated \/ WriteStable \/ Mark \/ DumpFails
  <2>1. /\ proc.at \notin {"down", "check", "waiting"}
        /\ now' = now /\ starts' = starts /\ retries' = retries /\ runs' = runs
    BY <1>5 DEF Refresh, Snapshot, Export, WriteDated, WriteStable, Mark, DumpFails, history
  <2>2. proc'.at \notin {"down", "check", "waiting"}
    <3>1. CASE Refresh
      <4>1. 1 \in Nat /\ proc' = At("snapshot", 1)
        BY <3>1 DEF Refresh
      <4>2. QED
        BY <4>1, ComesTo
    <3>2. CASE Snapshot \/ WriteDated \/ WriteStable \/ Mark \/ DumpFails
      <4>1. \E w \in Places \ {"down", "check", "waiting"} : GoTo(w)
        BY <3>2 DEF Snapshot, WriteDated, WriteStable, Mark, DumpFails, Places
      <4>2. QED
        BY <4>1, GoesTo
    <3>3. CASE Export
      <4>1. proc' = [proc EXCEPT !.at = "dated", !.data = books] /\ proc \in Procs
        BY <3>3 DEF Export, ClockTypes
      <4>2. QED
        BY ONLY <4>1 DEF Procs
    <3>4. QED
      BY <1>5, <3>1, <3>2, <3>3
  <2>3. RetriesLeft' = RefreshRetries - retries /\ RetriesLeft = RefreshRetries - retries
    BY <2>1, <2>2 DEF RetriesLeft
  <2>4. HourAhead' => HourAhead
    BY <2>1, <2>2 DEF HourAhead
  <2>5. runs' + RetriesLeft' <= runs + RetriesLeft
    BY ONLY <1>1, <2>1, <2>3
  <2>6. QED
    BY <2>1, <2>4, <2>5, SameHour
<1>6. CASE NextPortfolio
  <2>1. /\ proc.at = "next"
        /\ now' = now /\ starts' = starts /\ retries' = retries /\ runs' = runs
    BY <1>6 DEF NextPortfolio, history
  <2>2. RetriesLeft = RefreshRetries - retries
    BY <2>1 DEF RetriesLeft
  <2>3. (HourAhead' => HourAhead) /\ RetriesLeft' <= RefreshRetries - retries
    <3>1. CASE proc.i < Len(Order)
      <4>1. proc.i + 1 \in Nat /\ proc' = At("snapshot", proc.i + 1)
        BY <1>6, <3>1 DEF NextPortfolio, ClockTypes, Procs
      <4>2. proc'.at = "snapshot"
        BY <4>1, ComesTo
      <4>3. QED
        BY <1>1, <2>1, <4>2 DEF HourAhead, RetriesLeft
    <3>2. CASE ~(proc.i < Len(Order))
      BY <1>6, <2>1, <3>2, WaitingLeaves DEF NextPortfolio
    <3>3. QED
      BY <3>1, <3>2
  <2>4. RetriesLeft' \in Nat
    BY <1>1, <2>1 DEF RetriesLeft
  <2>5. runs' + RetriesLeft' <= runs + RetriesLeft
    <3>1. retries \in Nat
      BY ONLY <1>1
    <3>2. runs + RetriesLeft' <= runs + (RefreshRetries - retries)
      BY ONLY <1>1, <2>3, <2>4, <3>1, NoMore
    <3>3. QED
      BY ONLY <2>1, <2>2, <3>2
  <2>6. QED
    BY <2>1, <2>3, <2>5, SameHour
<1>7. CASE Tick
  <2>1. /\ proc'.at = proc.at /\ proc'.wake = proc.wake /\ proc'.retry = proc.retry
        /\ now' = now + 1 /\ proc.at # "check"
    BY <1>7, HourGoesBy
  <2>2. RetriesLeft' = RetriesLeft /\ RetriesLeft \in Nat /\ RetriesLeft <= RefreshRetries
    BY <1>1, <1>7, <2>1, LeftTypes DEF RetriesLeft, Tick
  <2>3. DailyLeft' \in Nat /\ DailyLeft' <= 1 + RefreshRetries
    BY <1>1 DEF DailyLeft
  <2>4. CASE Hour(now') = 0
    <3>1. runs' = 0 /\ starts' = 0
      BY <1>7, <2>4 DEF Tick
    <3>2. 0 + DailyLeft' + RetriesLeft' <= (1 + RefreshRetries) * (1 + 0) + RefreshRetries
      BY ONLY <1>1, <2>2, <2>3, AtMidnight
    <3>3. runs' + DailyLeft' + RetriesLeft' <= MostRuns'
      BY ONLY <3>1, <3>2 DEF MostRuns
    <3>4. QED
      BY <3>3 DEF RunsLeft, MostRuns
  <2>5. CASE Hour(now') # 0
    <3>1. runs' = runs /\ starts' = starts
      BY <1>7, <2>5 DEF Tick
    <3>2. Hour(now') = Hour(now) + 1 /\ Hour(now) \in Nat
      <4>1. Hour(now) \in 0..(DayHours - 1)
        BY <1>1, TimeParts
      <4>2. QED
        BY <1>1, <2>1, <2>5, <4>1, NextHour, ScheduleAssumption
    <3>3. HourAhead' => HourAhead
      BY <3>2, ScheduleAssumption DEF HourAhead
    <3>4. DailyLeft \in Nat /\ DailyLeft' <= DailyLeft
      BY <1>1, <2>3, <3>3 DEF DailyLeft
    <3>5. MostRuns' = MostRuns /\ MostRuns \in Nat
      BY <3>1, LeftTypes DEF MostRuns
    <3>6. runs + DailyLeft + RetriesLeft <= MostRuns
      BY DEF RunsLeft, MostRuns
    <3>7. runs + DailyLeft' + RetriesLeft <= MostRuns
      BY ONLY <1>1, <2>2, <2>3, <3>4, <3>5, <3>6, LessLeft
    <3>8. runs' + DailyLeft' + RetriesLeft' <= MostRuns'
      BY ONLY <2>2, <3>1, <3>5, <3>7
    <3>9. QED
      BY <3>8 DEF RunsLeft, MostRuns
  <2>6. QED
    BY <2>4, <2>5
<1>8. CASE Change
  BY <1>8 DEF Change, RunsLeft, DailyLeft, RetriesLeft, HourAhead, history
<1>9. CASE Crash
  <2>1. now' = now /\ starts' = starts /\ runs' = runs
    BY <1>9 DEF Crash
  <2>2. proc'.at = "down"
    BY <1>9, DownIsAProcess DEF Crash
  <2>3. RetriesLeft' = 0 /\ RetriesLeft \in Nat
    BY <2>2, LeftTypes DEF RetriesLeft
  <2>4. HourAhead' => HourAhead
    BY <2>1, <2>2 DEF HourAhead
  <2>5. runs' + RetriesLeft' <= runs + RetriesLeft
    BY ONLY <1>1, <2>1, <2>3
  <2>6. QED
    BY <2>1, <2>4, <2>5, SameHour
<1>10. QED
  BY <1>2, <1>3, <1>4, <1>5, <1>6, <1>7, <1>8, <1>9 DEF Next, RunDaily, dailyRun

-----------------------------------------------------------------------------
(* The generations and the file without a date.                            *)

LEMMA Began ==
  ASSUME ClockTypes
  PROVE  /\ Today \in Nat /\ BeganOn \in Nat /\ BeganOn <= Today
         /\ BeganOn # Today => BeganOn + 1 = Today /\ Hour(now) < RunHour
<1>1. now \in Nat /\ proc.slow \in 0..RunHour /\ proc.slow <= now
  BY ScheduleAssumption DEF ClockTypes, Procs
<1>2. Today \in Nat
  BY <1>1, TimeParts DEF Today
<1>3. QED
  BY <1>1, <1>2, BeganYesterday DEF BeganOn, Today

(* Days that have begun stay in the books as they are.                     *)
LEMMA OldBooks ==
  ASSUME ClockTypes, BookTypes, Next
  PROVE  \A k \in 1..(Today + 1) : booksAt'[k] = booksAt[k]
<1>1. booksAt' = booksAt \/ booksAt' = Append(booksAt, books)
  BY DEF Next, RunDaily, dailyRun, Start, CheckAtStart, Wake, Refresh, Snapshot, Export,
     WriteDated, WriteStable, Mark, DumpFails, NextPortfolio, Tick, Change, Crash, history
<1>2. booksAt \in Seq(Nat) /\ Len(booksAt) = Today + 1 /\ books \in Nat
  BY DEF BookTypes
<1>3. QED
  BY <1>1, <1>2

LEMMA InOrderStep ==
  ASSUME ClockTypes, FileTypes, InOrder, DumpInHand, Next
  PROVE  InOrder'
<1>1. CASE WriteDated
  <2>1. /\ P \in Portfolios /\ DOMAIN gens' = Portfolios
        /\ \A p \in Portfolios : p # P => gens'[p] = gens[p]
        /\ DOMAIN gens'[P] = DOMAIN gens[P] \cup {Today}
        /\ \A d \in DOMAIN gens'[P] :
             gens'[P][d] = IF d = Today THEN proc.data ELSE gens[P][d]
    BY <1>1, Dated
  <2>2. Today \in Nat /\ proc.data \in Nat
    BY Began DEF ClockTypes, Procs
  <2>3. \A d \in DOMAIN gens[P] : d \in 0..Today /\ gens[P][d] \in Nat /\ gens[P][d] <= proc.data
    BY <1>1, <2>1 DEF FileTypes, DumpInHand, WriteDated
  <2>4. ASSUME NEW d \in DOMAIN gens'[P], NEW e \in DOMAIN gens'[P], d <= e
        PROVE  gens'[P][d] <= gens'[P][e]
    <3>1. CASE e = Today
      BY <2>1, <2>2, <2>3, <3>1
    <3>2. CASE e # Today
      <4>1. e \in DOMAIN gens[P] /\ e < Today
        BY <2>1, <2>2, <2>3, <3>2
      <4>2. d \in DOMAIN gens[P] /\ d # Today
        BY <2>1, <2>2, <2>3, <2>4, <4>1
      <4>3. QED
        BY <2>1, <2>4, <3>2, <4>1, <4>2 DEF InOrder
    <3>3. QED
      BY <3>1, <3>2
  <2>5. QED
    BY <2>1, <2>4 DEF InOrder
<1>2. CASE WriteStable
  <2>1. /\ P \in Portfolios
        /\ \A p \in Portfolios : p # P => gens'[p] = gens[p]
        /\ gens'[P] = Pruned(gens[P])
    BY <1>2, Removed
  <2>2. ASSUME NEW d \in DOMAIN gens'[P], NEW e \in DOMAIN gens'[P], d <= e
        PROVE  gens'[P][d] <= gens'[P][e]
    <3>1. /\ d \in DOMAIN gens[P] /\ gens'[P][d] = gens[P][d]
          /\ e \in DOMAIN gens[P] /\ gens'[P][e] = gens[P][e]
      BY <2>1, <2>2, PrunedIsAPart
    <3>2. QED
      BY <2>1, <2>2, <3>1 DEF InOrder
  <2>3. QED
    BY <2>1, <2>2 DEF InOrder
<1>3. CASE gens' = gens
  BY <1>3 DEF InOrder
<1>4. QED
  BY <1>1, <1>2, <1>3 DEF Next, RunDaily, dailyRun, Start, CheckAtStart, Wake, Refresh,
     Snapshot, Export, Mark, DumpFails, NextPortfolio, Tick, Change, Crash, files

InDump == {"dated", "stable", "mark"}

LEMMA NotInTheDump ==
  ASSUME ClockTypes,
         \/ Start \/ CheckAtStart \/ Wake \/ Refresh \/ Snapshot \/ Mark \/ DumpFails
         \/ NextPortfolio \/ Crash
  PROVE  proc'.at \notin InDump
<1> USE DEF InDump
<1>1. CASE Start
  BY <1>1, Starts
<1>2. CASE CheckAtStart
  BY <1>2, BeginsARun, WaitIsAWait DEF CheckAtStart, Waiting
<1>3. CASE Wake
  BY <1>3, BeginsARun DEF Wake
<1>4. CASE Refresh
  <2>1. 1 \in Nat /\ proc' = At("snapshot", 1)
    BY <1>4 DEF Refresh
  <2>2. QED
    BY <2>1, ComesTo
<1>5. CASE Snapshot \/ Mark \/ DumpFails
  <2>1. \E w \in {"export", "next"} : w \in Places /\ GoTo(w)
    BY <1>5 DEF Snapshot, Mark, DumpFails, Places
  <2>2. QED
    BY <2>1, GoesTo
<1>6. CASE NextPortfolio
  <2>1. CASE proc.i < Len(Order)
    <3>1. proc.i + 1 \in Nat /\ proc' = At("snapshot", proc.i + 1)
      BY <1>6, <2>1 DEF NextPortfolio, ClockTypes, Procs
    <3>2. QED
      BY <3>1, ComesTo
  <2>2. CASE ~(proc.i < Len(Order))
    BY <1>6, <2>2, WaitIsAWait DEF NextPortfolio, Waiting
  <2>3. QED
    BY <2>1, <2>2
<1>7. CASE Crash
  BY <1>7, DownIsAProcess DEF Crash
<1>8. QED
  BY <1>1, <1>2, <1>3, <1>4, <1>5, <1>6, <1>7

LEMMA SameAge ==
  ASSUME NEW n \in Nat, NEW s \in Nat, NEW n2 \in Nat, NEW s2 \in Nat, n2 = n + 1, s2 = s + 1
  PROVE  n2 - s2 = n - s
  OBVIOUS

LEMMA DumpInHandStep ==
  ASSUME ClockTypes, FileTypes, BookTypes, InOrder, DumpInHand, Next
  PROVE  DumpInHand'
<1> USE DEF InDump
<1>1. /\ books \in Nat /\ proc.data \in Nat
      /\ Today \in Nat /\ BeganOn \in Nat /\ BeganOn + 1 \in 1..(Today + 1)
  BY Began DEF BookTypes, ClockTypes, Procs
<1>2. \A k \in 1..(Today + 1) : booksAt[k] \in Nat /\ booksAt[k] <= books
  BY <1>1 DEF BookTypes
<1>3. booksAt'[BeganOn + 1] = booksAt[BeganOn + 1]
  BY <1>1, OldBooks
<1>4. CASE proc'.at \notin InDump
  BY <1>4 DEF DumpInHand
<1>5. CASE Export
  <2>1. /\ proc'.at = "dated" /\ proc'.slow = proc.slow /\ proc'.i = proc.i /\ proc'.data = books
        /\ UNCHANGED <<now, gens, stable, books>> /\ proc.at = "export"
    BY <1>1, <1>5, TakesTheDump DEF Export, files
  <2>2. P' = P /\ BeganOn' = BeganOn /\ P \in Portfolios
    BY <2>1, Runner DEF P, BeganOn, AtRunner
  <2>3. stable[P] <= books /\ \A d \in DOMAIN gens[P] : gens[P][d] <= books
    BY <1>1, <2>2 DEF FileTypes
  <2>4. booksAt[BeganOn + 1] <= books
    BY <1>1, <1>2
  <2>5. QED
    BY <1>1, <1>3, <2>1, <2>2, <2>3, <2>4 DEF DumpInHand
<1>6. CASE WriteDated
  <2>1. /\ proc'.at = "stable" /\ proc'.slow = proc.slow /\ proc'.i = proc.i
        /\ proc'.data = proc.data
        /\ UNCHANGED <<now, stable, books>> /\ proc.at = "dated"
    BY <1>6, GoesTo DEF WriteDated, Places, history
  <2>2. P' = P /\ BeganOn' = BeganOn
    BY <2>1 DEF P, BeganOn
  <2>3. /\ P \in Portfolios
        /\ DOMAIN gens'[P] = DOMAIN gens[P] \cup {Today}
        /\ \A d \in DOMAIN gens'[P] :
             gens'[P][d] = IF d = Today THEN proc.data ELSE gens[P][d]
    BY <1>6, Dated
  <2>4. \A d \in DOMAIN gens'[P] : gens'[P][d] <= proc.data
    BY <1>1, <2>1, <2>3 DEF DumpInHand
  <2>5. Today \in DOMAIN gens'[P] /\ gens'[P][Today] = proc.data /\ Today >= BeganOn
    BY <1>1, <2>3
  <2>6. proc.data <= books /\ booksAt[BeganOn + 1] <= proc.data /\ stable[P] <= proc.data
    BY <2>1 DEF DumpInHand
  <2>7. QED
    BY <1>3, <2>1, <2>2, <2>4, <2>5, <2>6 DEF DumpInHand
<1>7. CASE WriteStable
  <2>1. /\ proc'.at = "mark" /\ proc'.slow = proc.slow /\ proc'.i = proc.i
        /\ proc'.data = proc.data
        /\ UNCHANGED <<now, books>> /\ proc.at = "stable"
        /\ stable' = [stable EXCEPT ![P] = proc.data]
    BY <1>7, GoesTo DEF WriteStable, Places, history
  <2>2. P' = P /\ BeganOn' = BeganOn
    BY <2>1 DEF P, BeganOn
  <2>3. /\ P \in Portfolios /\ gens'[P] = Pruned(gens[P])
        /\ DOMAIN gens[P] \subseteq 0..Today
    BY <1>7, Removed
  <2>4. stable'[P] = proc.data
    BY <2>1, <2>3 DEF FileTypes
  <2>5. \A d \in DOMAIN gens'[P] : d \in DOMAIN gens[P] /\ gens'[P][d] = gens[P][d]
    BY <2>3, PrunedIsAPart
  <2>6. \A d \in DOMAIN gens'[P] : gens'[P][d] <= proc.data
    BY <2>1, <2>5 DEF DumpInHand
  <2>7. PICK d \in DOMAIN gens[P] : d >= BeganOn /\ gens[P][d] = proc.data
    BY <2>1 DEF DumpInHand
  <2>8. \E e \in DOMAIN gens'[P] : e >= BeganOn /\ gens'[P][e] = proc.data
    <3>1. CASE d \in DOMAIN gens'[P]
      BY <2>5, <2>7, <3>1
    <3>2. CASE d \notin DOMAIN gens'[P]
      <4>1. PICK e \in DOMAIN gens'[P] : e > d
        BY <1>1, <2>3, <3>2, OneStays
      <4>2. e \in DOMAIN gens[P] /\ gens'[P][e] = gens[P][e]
        BY <2>5
      <4>3. d \in 0..Today /\ e \in 0..Today
        BY <2>3, <4>2
      <4>4. gens[P][d] <= gens[P][e] /\ gens[P][e] <= proc.data
        BY <2>1, <2>3, <4>1, <4>2, <4>3 DEF InOrder, DumpInHand
      <4>5. gens[P][e] \in Nat
        BY <2>3, <4>2 DEF FileTypes
      <4>6. gens'[P][e] = proc.data
        BY <1>1, <2>7, <4>2, <4>4, <4>5
      <4>7. e >= BeganOn
        BY <1>1, <2>7, <4>1, <4>3
      <4>8. QED
        BY <4>6, <4>7
    <3>3. QED
      BY <3>1, <3>2
  <2>9. proc.data <= books /\ booksAt[BeganOn + 1] <= proc.data
    BY <2>1 DEF DumpInHand
  <2>10. QED
    BY <1>1, <1>3, <2>1, <2>2, <2>4, <2>6, <2>8, <2>9 DEF DumpInHand
<1>8. CASE Tick /\ proc'.at \in InDump
  <2>1. /\ proc'.at = proc.at /\ proc'.i = proc.i /\ proc'.data = proc.data
        /\ UNCHANGED <<gens, stable, books>> /\ now' = now + 1
    BY <1>8, HourGoesBy DEF Tick, files
  <2>2. proc'.slow = proc.slow + 1
    BY <1>8, <2>1, HourGoesBy DEF Running
  <2>3. P' = P /\ BeganOn' = BeganOn
    <3>1. now \in Nat /\ proc.slow \in Nat /\ now' \in Nat /\ proc'.slow \in Nat
      BY <2>1, <2>2 DEF ClockTypes, Procs
    <3>2. now' - proc'.slow = now - proc.slow
      BY ONLY <2>1, <2>2, <3>1, SameAge
    <3>3. P' = P
      BY ONLY <2>1 DEF P
    <3>4. QED
      BY ONLY <3>2, <3>3 DEF BeganOn, Day
  <2>4. QED
    BY <1>3, <2>1, <2>3 DEF DumpInHand
<1>9. CASE Change
  <2>1. UNCHANGED <<now, proc, gens, stable, booksAt>> /\ books' = books + 1
    BY <1>9 DEF Change, files, history
  <2>2. P' = P /\ BeganOn' = BeganOn
    BY <2>1 DEF P, BeganOn
  <2>3. proc.at \in InDump => proc.data <= books + 1
    BY <1>1 DEF BookTypes
  <2>4. QED
    BY <2>1, <2>2, <2>3 DEF DumpInHand
<1>10. QED
  BY <1>4, <1>5, <1>6, <1>7, <1>8, <1>9, NotInTheDump DEF Next, RunDaily, dailyRun

-----------------------------------------------------------------------------
(* What the mark says.                                                     *)

(* Of two generations that of the younger day is kept.                     *)
LEMMA NoneIsLost ==
  ASSUME ClockTypes, FileTypes, BookTypes, InOrder, DumpInHand, Next,
         NEW p \in Portfolios, NEW d \in DOMAIN gens[p]
  PROVE  \E e \in DOMAIN gens'[p] : e >= d /\ gens'[p][e] >= gens[p][d]
<1>1. /\ \A e \in DOMAIN gens[p] : e \in 0..Today /\ gens[p][e] \in Nat
      /\ Today \in Nat /\ proc.data \in Nat
  BY Began DEF FileTypes, BookTypes, ClockTypes, Procs
<1>2. CASE WriteDated /\ p = P
  <2>1. /\ DOMAIN gens'[p] = DOMAIN gens[p] \cup {Today}
        /\ \A x \in DOMAIN gens'[p] :
             gens'[p][x] = IF x = Today THEN proc.data ELSE gens[p][x]
    BY <1>2, Dated
  <2>2. gens[p][d] <= proc.data
    BY <1>2 DEF DumpInHand, WriteDated
  <2>3. QED
    BY <1>1, <2>1, <2>2
<1>3. CASE WriteStable /\ p = P
  <2>1. gens'[p] = Pruned(gens[p]) /\ DOMAIN gens[p] \subseteq 0..Today
    BY <1>3, Removed
  <2>2. \A x \in DOMAIN gens'[p] : x \in DOMAIN gens[p] /\ gens'[p][x] = gens[p][x]
    BY <2>1, PrunedIsAPart
  <2>3. CASE d \in DOMAIN gens'[p]
    BY <1>1, <2>2, <2>3
  <2>4. CASE d \notin DOMAIN gens'[p]
    <3>1. PICK e \in DOMAIN gens'[p] : e > d
      BY <1>1, <2>1, <2>4, OneStays
    <3>2. e \in DOMAIN gens[p] /\ d <= e /\ gens'[p][e] = gens[p][e]
      BY <1>1, <2>2, <3>1
    <3>3. gens[p][d] <= gens[p][e]
      BY <3>2 DEF InOrder
    <3>4. QED
      BY <1>1, <3>2, <3>3
  <2>5. QED
    BY <2>3, <2>4
<1>4. CASE gens'[p] = gens[p]
  BY <1>1, <1>4
<1>5. gens'[p] = gens[p] \/ ((WriteDated \/ WriteStable) /\ p = P)
  <2>1. CASE WriteDated
    BY <2>1, Dated
  <2>2. CASE WriteStable
    BY <2>2, Removed
  <2>3. CASE gens' = gens
    BY <2>3
  <2>4. QED
    BY <2>1, <2>2, <2>3 DEF Next, RunDaily, dailyRun, Start, CheckAtStart, Wake, Refresh,
       Snapshot, Export, Mark, DumpFails, NextPortfolio, Tick, Change, Crash, files
<1>6. QED
  BY <1>2, <1>3, <1>4, <1>5

LEMMA MarkStart == Init => MarkTellsTheTruth /\ InOrder /\ DumpInHand
<1> SUFFICES ASSUME Init PROVE MarkTellsTheTruth /\ InOrder /\ DumpInHand
  OBVIOUS
<1>1. /\ DOMAIN gens = Portfolios /\ \A p \in Portfolios : gens[p] = <<>>
      /\ mark = [p \in Portfolios |-> -1]
  BY Zenon DEF Init
<1>2. \A p \in Portfolios : DOMAIN gens[p] = {}
  BY <1>1
<1>3. proc.at = "down"
  BY DownIsAProcess, Zenon DEF Init
<1>4. \A p \in Portfolios : ~(mark[p] > 0)
  BY ONLY <1>1
<1>5. QED
  BY ONLY <1>2, <1>3, <1>4 DEF MarkTellsTheTruth, InOrder, DumpInHand

LEMMA MarkStep ==
  ASSUME ClockTypes, FileTypes, BookTypes, InOrder, DumpInHand, MarkTellsTheTruth, Next
  PROVE  MarkTellsTheTruth'
<1> SUFFICES ASSUME NEW p \in Portfolios, mark'[p] > 0
             PROVE  /\ stable'[p] >= booksAt'[mark'[p]]
                    /\ \E d \in DOMAIN gens'[p] :
                         d + 1 >= mark'[p] /\ gens'[p][d] >= booksAt'[mark'[p]]
  BY DEF MarkTellsTheTruth
<1>1. /\ Today \in Nat /\ BeganOn \in Nat /\ BeganOn <= Today /\ Today <= BeganOn + 1
      /\ mark \in [Portfolios -> Int] /\ mark[p] <= Today
      /\ stable \in [Portfolios -> Int] /\ proc.data \in Nat
  BY Began DEF FileTypes, ClockTypes, Procs
<1>2. \A d \in DOMAIN gens[p] : d \in 0..Today /\ gens[p][d] \in Nat
  BY DEF FileTypes, BookTypes
<1>3. \A d \in DOMAIN gens'[p] : d \in Nat /\ gens'[p][d] \in Nat
  <2>1. BookTypes'
    BY BookTypesStep
  <2>2. FileTypes'
    BY <2>1, FileTypesStep
  <2>3. QED
    BY <2>1, <2>2 DEF FileTypes, BookTypes
<1>4. \A k \in 1..(Today + 1) : booksAt[k] \in Nat /\ booksAt'[k] = booksAt[k]
  BY <1>1, OldBooks DEF BookTypes
<1>5. CASE mark'[p] = mark[p]
  <2>1. mark[p] \in 1..(Today + 1)
    BY <1>1, <1>5
  <2>2. /\ stable[p] >= booksAt[mark[p]]
        /\ \E d \in DOMAIN gens[p] : d + 1 >= mark[p] /\ gens[p][d] >= booksAt[mark[p]]
    BY <1>5 DEF MarkTellsTheTruth
  <2>3. PICK d \in DOMAIN gens[p] : d + 1 >= mark[p] /\ gens[p][d] >= booksAt[mark[p]]
    BY <2>2
  <2>4. PICK e \in DOMAIN gens'[p] : e >= d /\ gens'[p][e] >= gens[p][d]
    BY NoneIsLost
  <2>5. booksAt'[mark'[p]] = booksAt[mark[p]] /\ booksAt[mark[p]] \in Nat
    BY <1>4, <1>5, <2>1
  <2>6. e + 1 >= mark'[p] /\ gens'[p][e] >= booksAt'[mark'[p]]
    BY <1>1, <1>2, <1>3, <1>5, <2>1, <2>3, <2>4, <2>5
  <2>7. stable'[p] >= stable[p]
    <3>1. CASE WriteStable
      <4>1. stable' = [stable EXCEPT ![P] = proc.data] /\ proc.at = "stable"
        BY <3>1 DEF WriteStable
      <4>2. stable[P] <= proc.data /\ P \in Portfolios
        BY <4>1, Runner DEF DumpInHand, AtRunner
      <4>3. QED
        BY <1>1, <4>1, <4>2
    <3>2. CASE stable' = stable
      BY <1>1, <3>2
    <3>3. QED
      BY <3>1, <3>2 DEF Next, RunDaily, dailyRun, Start, CheckAtStart, Wake, Refresh, Snapshot,
         Export, WriteDated, Mark, DumpFails, NextPortfolio, Tick, Change, Crash, files
  <2>8. stable'[p] >= booksAt'[mark'[p]]
    <3>1. stable[p] \in Int /\ stable'[p] \in Int
      <4>1. BookTypes'
        BY BookTypesStep
      <4>2. FileTypes'
        BY <4>1, FileTypesStep
      <4>3. QED
        BY <1>1, <4>2 DEF FileTypes
    <3>2. QED
      BY <2>2, <2>5, <2>7, <3>1
  <2>9. QED
    BY <2>6, <2>8
<1>6. CASE Mark /\ p = P
  <2>1. /\ mark' = [mark EXCEPT ![P] = Today] /\ proc.at = "mark"
        /\ UNCHANGED <<gens, stable, booksAt>>
    BY <1>6 DEF Mark, history
  <2>2. mark'[p] = Today
    BY <1>1, <1>6, <2>1
  <2>3. /\ booksAt[BeganOn + 1] <= proc.data /\ stable[p] = proc.data
        /\ \E d \in DOMAIN gens[p] : d >= BeganOn /\ gens[p][d] = proc.data
    BY <1>6, <2>1 DEF DumpInHand
  <2>4. Today \in 1..(Today + 1) /\ BeganOn + 1 \in 1..(Today + 1)
    BY <1>1, <2>2
  <2>5. booksAt[Today] <= booksAt[BeganOn + 1]
    BY <1>1, <2>4 DEF BookTypes
  <2>6. booksAt[Today] \in Nat /\ booksAt[BeganOn + 1] \in Nat /\ booksAt[Today] <= proc.data
    <3>1. booksAt[Today] \in Nat /\ booksAt[BeganOn + 1] \in Nat
      BY <1>4, <2>4
    <3>2. QED
      BY <1>1, <2>3, <2>5, <3>1
  <2>7. PICK d \in DOMAIN gens[p] : d >= BeganOn /\ gens[p][d] = proc.data
    BY <2>3
  <2>8. d + 1 >= Today
    BY <1>1, <1>2, <2>7
  <2>9. stable[p] >= booksAt[Today] /\ gens[p][d] >= booksAt[Today]
    BY <1>1, <2>3, <2>6, <2>7
  <2>10. QED
    BY <2>1, <2>2, <2>8, <2>9
<1>7. mark'[p] = mark[p] \/ (Mark /\ p = P)
  <2>1. CASE Mark
    <3>1. mark' = [mark EXCEPT ![P] = Today]
      BY <2>1 DEF Mark
    <3>2. QED
      BY <1>1, <2>1, <3>1
  <2>2. CASE mark' = mark
    BY <2>2
  <2>3. QED
    BY <2>1, <2>2 DEF Next, RunDaily, dailyRun, Start, CheckAtStart, Wake, Refresh, Snapshot,
       Export, WriteDated, WriteStable, DumpFails, NextPortfolio, Tick, Change, Crash, files
<1>8. QED
  BY <1>5, <1>6, <1>7

-----------------------------------------------------------------------------
(* What a step does to a generation.                                       *)

LEMMA GenerationsStep ==
  ASSUME ClockTypes, FileTypes, BookTypes, DumpInHand, Next,
         NEW p \in Portfolios, NEW d \in DOMAIN gens[p]
  PROVE  IF d \in DOMAIN gens'[p]
           THEN gens'[p][d] >= gens[p][d]
           ELSE Cardinality({e \in DOMAIN gens'[p] : e > d}) >= BackupKeep
<1>1. d \in 0..Today /\ gens[p][d] \in Nat /\ Today \in Nat /\ proc.data \in Nat
  BY Began DEF FileTypes, BookTypes, ClockTypes, Procs
<1>2. CASE WriteDated /\ p = P
  <2>1. /\ DOMAIN gens'[p] = DOMAIN gens[p] \cup {Today}
        /\ gens'[p][d] = IF d = Today THEN proc.data ELSE gens[p][d]
    BY <1>2, Dated
  <2>2. gens[p][d] <= proc.data
    BY <1>2 DEF DumpInHand, WriteDated
  <2>3. QED
    BY <1>1, <2>1, <2>2
<1>3. CASE WriteStable /\ p = P
  <2>1. gens'[p] = Pruned(gens[p]) /\ DOMAIN gens[p] \subseteq 0..Today
    BY <1>3, Removed
  <2>2. CASE d \in DOMAIN gens'[p]
    <3>1. gens'[p][d] = gens[p][d]
      BY <2>1, <2>2, PrunedIsAPart
    <3>2. QED
      BY <1>1, <2>2, <3>1
  <2>3. CASE d \notin DOMAIN gens'[p]
    BY <1>1, <2>1, <2>3, EnoughStay
  <2>4. QED
    BY <2>2, <2>3
<1>4. CASE gens'[p] = gens[p]
  BY <1>1, <1>4
<1>5. gens'[p] = gens[p] \/ ((WriteDated \/ WriteStable) /\ p = P)
  <2>1. CASE WriteDated
    BY <2>1, Dated
  <2>2. CASE WriteStable
    BY <2>2, Removed
  <2>3. CASE gens' = gens
    BY <2>3
  <2>4. QED
    BY <2>1, <2>2, <2>3 DEF Next, RunDaily, dailyRun, Start, CheckAtStart, Wake, Refresh,
       Snapshot, Export, Mark, DumpFails, NextPortfolio, Tick, Change, Crash, files
<1>6. QED
  BY <1>2, <1>3, <1>4, <1>5

-----------------------------------------------------------------------------
(* The days of the curve and of the backups.                               *)

LEMMA DaysKeptStart == Init => DaysKept
<1> SUFFICES ASSUME Init PROVE DaysKept
  OBVIOUS
<1>1. proc.at = "down"
  BY DownIsAProcess, Zenon DEF Init
<1>2. \A p \in Portfolios : snapshots[p] = {}
  BY Zenon DEF Init
<1>3. QED
  BY ONLY <1>1, <1>2 DEF DaysKept, HourPast, AtRunner

(* Within a day, what a portfolio has got stays.                           *)
LEMMA StaysOnCurve ==
  ASSUME ClockTypes, FileTypes, Next, Today' = Today,
         NEW p \in Portfolios, OnCurve(p)
  PROVE  OnCurve(p)'
<1>1. missed \subseteq missed'
  BY DEF Next, RunDaily, dailyRun, Start, CheckAtStart, Wake, Refresh, Snapshot, Export,
     WriteDated, WriteStable, Mark, DumpFails, NextPortfolio, Tick, Change, Crash, history
<1>2. snapshots[p] \subseteq snapshots'[p]
  <2>1. CASE snapshots' = [snapshots EXCEPT ![P] = @ \cup {Today}]
    BY <2>1 DEF FileTypes
  <2>2. CASE snapshots' = snapshots
    BY <2>2
  <2>3. QED
    BY <2>1, <2>2 DEF Next, RunDaily, dailyRun, Start, CheckAtStart, Wake, Refresh, Snapshot,
       Export, WriteDated, WriteStable, Mark, DumpFails, NextPortfolio, Tick, Change, Crash, files
<1>3. QED
  BY <1>1, <1>2 DEF OnCurve

LEMMA StaysInBackups ==
  ASSUME ClockTypes, FileTypes, Next, Today' = Today,
         NEW p \in Portfolios, InBackups(p)
  PROVE  InBackups(p)'
<1>1. lost \subseteq lost'
  BY DEF Next, RunDaily, dailyRun, Start, CheckAtStart, Wake, Refresh, Snapshot, Export,
     WriteDated, WriteStable, Mark, DumpFails, NextPortfolio, Tick, Change, Crash, history
<1>2. Today \in DOMAIN gens[p] => Today \in DOMAIN gens'[p]
  <2>1. CASE WriteDated
    BY <2>1, Dated
  <2>2. CASE WriteStable
    BY <2>2, Removed, YoungestStays
  <2>3. CASE gens' = gens
    BY <2>3
  <2>4. QED
    BY <2>1, <2>2, <2>3 DEF Next, RunDaily, dailyRun, Start, CheckAtStart, Wake, Refresh,
       Snapshot, Export, Mark, DumpFails, NextPortfolio, Tick, Change, Crash, files
<1>3. QED
  BY <1>1, <1>2 DEF InBackups

(* What the run that is at a runner has done today.                        *)
DoneToday ==
  proc.at \in AtRunner /\ BeganOn = Today =>
    \A j \in 1..proc.i :
      /\ j < proc.i \/ proc.at # "snapshot" => OnCurve(Order[j])
      /\ j < proc.i \/ proc.at \in {"stable", "mark", "next"} => InBackups(Order[j])
AfterTheHour == HourPast => \A p \in Portfolios : OnCurve(p) /\ InBackups(p)
SnapshotAndBackup ==
  \A p \in Portfolios : Today \in snapshots[p] =>
    \/ InBackups(p)
    \/ proc.at \in {"export", "dated"} /\ P = p

LEMMA DaysKeptParts == DaysKept <=> AfterTheHour /\ DoneToday /\ SnapshotAndBackup
  BY DEF DaysKept, AfterTheHour, DoneToday, SnapshotAndBackup

LEMMA AfterTheHourStep ==
  ASSUME ClockTypes, FileTypes, Wakes, AfterTheHour, DoneToday, SnapshotAndBackup, Next
  PROVE  AfterTheHour'
<1> SUFFICES ASSUME HourPast', NEW p \in Portfolios
             PROVE  OnCurve(p)' /\ InBackups(p)'
  BY DEF AfterTheHour
<1>1. proc'.at = "waiting" /\ (Day(proc'.wake) > Today' \/ Hour(proc'.wake) > RunHour)
  BY DEF HourPast
<1>2. CASE CheckAtStart
  <2>1. proc.at = "check" /\ Today' = Today /\ snapshots' = snapshots /\ gens' = gens
    BY <1>2 DEF CheckAtStart, Today, files
  <2>2. CASE Today \in snapshots[p] /\ missed' = missed /\ lost' = lost
    <3>1. InBackups(p)
      BY <2>1, <2>2 DEF SnapshotAndBackup
    <3>2. QED
      BY <2>1, <2>2, <3>1 DEF OnCurve, InBackups
  <2>3. CASE missed' = missed \cup AllToday /\ lost' = lost \cup AllToday
    BY <2>1, <2>3 DEF OnCurve, InBackups, AllToday
  <2>4. CASE BeginRun
    BY <1>1, <2>4, BeginsARun
  <2>5. QED
    BY <1>2, <2>2, <2>3, <2>4 DEF CheckAtStart, NeedsCatchUp
<1>3. CASE NextPortfolio
  <2>1. Today' = Today /\ now' = now /\ proc.at = "next"
    BY <1>3 DEF NextPortfolio, Today
  <2>2. CASE proc.i < Len(Order)
    <3>1. proc.i + 1 \in Nat /\ proc' = At("snapshot", proc.i + 1)
      BY <1>3, <2>2 DEF NextPortfolio, ClockTypes, Procs
    <3>2. QED
      BY <1>1, <3>1, ComesTo
  <2>3. CASE ~(proc.i < Len(Order))
    <3>1. Waiting(proc')
      BY <1>3, <2>3, WaitIsAWait DEF NextPortfolio
    <3>2. BeganOn = Today
      <4>1. RunHour \in Nat /\ Hour(proc'.wake) \in Nat /\ Today \in Nat
        BY <3>1, Began, ScheduleAssumption DEF Waiting
      <4>2. ~(Hour(now) < RunHour)
        BY <1>1, <2>1, <3>1, <4>1 DEF Waiting
      <4>3. QED
        BY <4>2, Began
    <3>3. proc.i = Len(Order)
      BY <2>1, <2>3, OrderTypes DEF ClockTypes, AtRunner, Procs
    <3>4. PICK j \in 1..proc.i : Order[j] = p
      BY <3>3, OrderTypes
    <3>5. OnCurve(p) /\ InBackups(p)
      BY <2>1, <3>2, <3>4 DEF DoneToday, AtRunner
    <3>6. QED
      BY <2>1, <3>5, StaysOnCurve, StaysInBackups
  <2>4. QED
    BY <2>2, <2>3
<1>4. CASE Tick
  <2>1. /\ proc.at = "waiting" /\ proc'.wake = proc.wake /\ now' = now + 1 /\ now < proc.wake
    BY <1>1, <1>4, HourGoesBy
  <2>2. now \in Nat /\ proc.wake \in Nat /\ Today \in Nat /\ RunHour \in Nat
    BY Began, ScheduleAssumption DEF ClockTypes, Procs
  <2>3. Day(proc.wake) \in Nat /\ Hour(proc.wake) \in Nat /\ Today' <= Day(proc.wake)
    <3>1. now + 1 \in Nat /\ now + 1 <= proc.wake
      BY <2>1, <2>2
    <3>2. Day(now + 1) <= Day(proc.wake)
      BY <2>2, <3>1, DaysFollow
    <3>3. Hour(proc.wake) \in 0..(DayHours - 1) /\ Day(proc.wake) \in Nat
      BY <2>2, TimeParts
    <3>4. QED
      BY <2>1, <3>2, <3>3, ScheduleAssumption DEF Today
  <2>4. Today' = Today
    <3>1. ASSUME Today' = Today + 1
          PROVE  FALSE
      <4>1. Day(proc.wake) = Today + 1
        BY <2>1, <2>2, <2>3, <3>1 DEF Wakes
      <4>2. Hour(proc.wake) <= RunHour
        BY <2>1, <4>1 DEF Wakes
      <4>3. QED
        BY <1>1, <2>1, <2>2, <2>3, <3>1, <4>1, <4>2
    <3>2. QED
      BY <3>1, TodayMoves
  <2>5. OnCurve(p) /\ InBackups(p)
    BY <1>1, <2>1, <2>4 DEF AfterTheHour, HourPast
  <2>6. QED
    BY <2>4, <2>5, StaysOnCurve, StaysInBackups
<1>5. CASE Change
  <2>1. Today' = Today /\ proc' = proc
    BY <1>5 DEF Change, Today
  <2>2. OnCurve(p) /\ InBackups(p)
    BY <1>1, <2>1 DEF AfterTheHour, HourPast
  <2>3. QED
    BY <2>1, <2>2, StaysOnCurve, StaysInBackups
<1>6. QED
  BY <1>1, <1>2, <1>3, <1>4, <1>5, NotWaiting DEF Next, RunDaily, dailyRun

(* Steps of a run at one runner.                                           *)
LEMMA AtTheSame ==
  ASSUME ClockTypes, BookTypes, Snapshot \/ Export \/ WriteDated \/ WriteStable \/ Mark \/ DumpFails
  PROVE  /\ proc'.i = proc.i /\ P' = P /\ BeganOn' = BeganOn /\ Today' = Today
         /\ proc.at \in AtRunner /\ P \in Portfolios /\ proc'.at # "snapshot"
         /\ proc'.at \in {"stable", "mark", "next"} =>
              \/ proc.at \in {"stable", "mark", "next"} \/ WriteDated \/ DumpFails
         /\ proc'.at \in {"export", "dated"} => Snapshot \/ Export
<1>1. proc.at \in AtRunner /\ now' = now
  BY DEF Snapshot, Export, WriteDated, WriteStable, Mark, DumpFails, AtRunner
<1>2. /\ proc'.i = proc.i /\ proc'.slow = proc.slow /\ proc'.at # "snapshot"
      /\ proc'.at \in {"stable", "mark", "next"} =>
           \/ proc.at \in {"stable", "mark", "next"} \/ WriteDated \/ DumpFails
      /\ proc'.at \in {"export", "dated"} => Snapshot \/ Export
  <2>1. CASE Snapshot
    BY <2>1, GoesTo DEF Snapshot, Places
  <2>2. CASE Export
    BY <2>2, TakesTheDump DEF Export, BookTypes
  <2>3. CASE WriteDated
    BY <2>3, GoesTo DEF WriteDated, Places
  <2>4. CASE WriteStable
    BY <2>4, GoesTo DEF WriteStable, Places
  <2>5. CASE Mark
    BY <2>5, GoesTo DEF Mark, Places
  <2>6. CASE DumpFails
    BY <2>6, GoesTo DEF DumpFails, Places
  <2>7. QED
    BY <2>1, <2>2, <2>3, <2>4, <2>5, <2>6
<1>3. P' = P /\ BeganOn' = BeganOn /\ Today' = Today
  BY <1>1, <1>2 DEF P, BeganOn, Today
<1>4. QED
  BY <1>1, <1>2, <1>3, Runner

LEMMA DoneTodayStep ==
  ASSUME ClockTypes, FileTypes, BookTypes, DoneToday, Next
  PROVE  DoneToday'
<1> SUFFICES ASSUME proc'.at \in AtRunner, BeganOn' = Today', NEW j \in 1..proc'.i
             PROVE  /\ j < proc'.i \/ proc'.at # "snapshot" => OnCurve(Order[j])'
                    /\ j < proc'.i \/ proc'.at \in {"stable", "mark", "next"}
                         => InBackups(Order[j])'
  BY DEF DoneToday
<1>1. CASE Start \/ CheckAtStart \/ Wake \/ Crash
  BY <1>1, Starts, BeginsARun, WaitIsAWait, DownIsAProcess
     DEF AtRunner, CheckAtStart, Waiting, Wake, Crash
<1>2. CASE Refresh
  <2>1. 1 \in Nat /\ proc' = At("snapshot", 1)
    BY <1>2 DEF Refresh
  <2>2. proc'.i = 1 /\ proc'.at = "snapshot"
    BY <2>1, ComesTo
  <2>3. ~(j < proc'.i)
    BY <2>2
  <2>4. QED
    BY <2>2, <2>3
<1>3. CASE Snapshot \/ Export \/ WriteDated \/ WriteStable \/ Mark \/ DumpFails
  <2>1. /\ proc'.i = proc.i /\ BeganOn' = BeganOn /\ Today' = Today
        /\ proc.at \in AtRunner /\ P \in Portfolios
        /\ proc'.at \in {"stable", "mark", "next"} =>
             \/ proc.at \in {"stable", "mark", "next"} \/ WriteDated \/ DumpFails
    BY <1>3, AtTheSame
  <2>2. j \in 1..proc.i /\ proc.i \in 1..Len(Order) /\ Order[j] \in Portfolios
    BY <2>1, OrderTypes DEF ClockTypes
  <2>3. /\ j < proc.i \/ proc.at # "snapshot" => OnCurve(Order[j])
        /\ j < proc.i \/ proc.at \in {"stable", "mark", "next"} => InBackups(Order[j])
    BY <2>1, <2>2 DEF DoneToday
  <2>4. CASE j < proc.i
    BY <2>1, <2>2, <2>3, <2>4, StaysOnCurve, StaysInBackups
  <2>5. CASE j = proc.i
    <3>1. Order[j] = P
      BY <2>5 DEF P
    <3>2. OnCurve(Order[j])'
      <4>1. CASE Snapshot
        <5>1. Today \in snapshots'[P] \/ <<P, Today>> \in missed'
          BY <2>1, <4>1 DEF Snapshot, FileTypes
        <5>2. QED
          BY <2>1, <3>1, <5>1 DEF OnCurve
      <4>2. CASE ~Snapshot
        <5>1. proc.at # "snapshot"
          BY <1>3, <4>2 DEF Export, WriteDated, WriteStable, Mark, DumpFails
        <5>2. QED
          BY <2>1, <2>2, <2>3, <5>1, StaysOnCurve
      <4>3. QED
        BY <4>1, <4>2
    <3>3. ASSUME proc'.at \in {"stable", "mark", "next"}
          PROVE  InBackups(Order[j])'
      <4>1. CASE WriteDated
        <5>1. Today \in DOMAIN gens'[P]
          BY <4>1, Dated
        <5>2. QED
          BY <2>1, <3>1, <5>1 DEF InBackups
      <4>2. CASE DumpFails
        <5>1. <<P, Today>> \in lost'
          BY <4>2 DEF DumpFails
        <5>2. QED
          BY <2>1, <3>1, <5>1 DEF InBackups
      <4>3. CASE proc.at \in {"stable", "mark", "next"}
        BY <2>1, <2>2, <2>3, <4>3, StaysInBackups
      <4>4. QED
        BY <2>1, <3>3, <4>1, <4>2, <4>3
    <3>4. QED
      BY <2>1, <2>5, <3>2, <3>3
  <2>6. QED
    BY <2>2, <2>4, <2>5
<1>4. CASE NextPortfolio
  <2>1. proc.at = "next" /\ now' = now
    BY <1>4 DEF NextPortfolio
  <2>2. CASE proc.i < Len(Order)
    <3>1. proc.i + 1 \in Nat /\ proc' = At("snapshot", proc.i + 1)
      BY <1>4, <2>2 DEF NextPortfolio, ClockTypes, Procs
    <3>2. proc'.at = "snapshot" /\ proc'.slow = proc.slow /\ proc'.i = proc.i + 1
      BY <3>1, ComesTo
    <3>3. BeganOn' = BeganOn /\ Today' = Today
      BY <2>1, <3>2 DEF BeganOn, Today
    <3>4. proc.i \in 1..Len(Order)
      BY <2>1, OrderTypes DEF ClockTypes, AtRunner
    <3>5. CASE j \in 1..proc.i
      <4>1. Order[j] \in Portfolios
        BY <3>4, <3>5, OrderTypes
      <4>2. OnCurve(Order[j]) /\ InBackups(Order[j])
        BY <2>1, <3>3, <3>5 DEF DoneToday, AtRunner
      <4>3. QED
        BY <3>3, <4>1, <4>2, StaysOnCurve, StaysInBackups
    <3>6. CASE j = proc.i + 1
      BY <3>2, <3>4, <3>6
    <3>7. QED
      BY <3>2, <3>4, <3>5, <3>6
  <2>3. CASE ~(proc.i < Len(Order))
    BY <1>4, <2>3, WaitIsAWait DEF NextPortfolio, Waiting, AtRunner
  <2>4. QED
    BY <2>2, <2>3
<1>5. CASE Tick \/ Change
  <2>1. proc'.at = proc.at /\ proc'.i = proc.i /\ BeganOn' = BeganOn
    <3>1. CASE Tick
      <4>1. /\ proc'.at = proc.at /\ proc'.i = proc.i /\ now' = now + 1
            /\ IF Running THEN proc.slow < limits.slow /\ proc'.slow = proc.slow + 1
                          ELSE proc'.slow = proc.slow
        BY <3>1, HourGoesBy
      <4>2. Running
        BY <4>1 DEF Running, AtRunner
      <4>3. /\ now \in Nat /\ proc.slow \in Nat /\ now' \in Nat /\ proc'.slow \in Nat
            /\ proc'.slow = proc.slow + 1
        BY <4>1, <4>2 DEF ClockTypes, Procs
      <4>4. now' - proc'.slow = now - proc.slow
        BY ONLY <4>1, <4>3, SameAge
      <4>5. QED
        BY ONLY <4>1, <4>4 DEF BeganOn, Day
    <3>2. CASE Change
      BY <3>2 DEF Change, BeganOn
    <3>3. QED
      BY <1>5, <3>1, <3>2
  <2>2. Today' = Today /\ BeganOn = Today
    BY <2>1, Began, TodayMoves
  <2>3. Order[j] \in Portfolios
    BY <2>1, OrderTypes DEF ClockTypes
  <2>4. /\ j < proc.i \/ proc.at # "snapshot" => OnCurve(Order[j])
        /\ j < proc.i \/ proc.at \in {"stable", "mark", "next"} => InBackups(Order[j])
    BY <2>1, <2>2 DEF DoneToday
  <2>5. QED
    BY <2>1, <2>2, <2>3, <2>4, StaysOnCurve, StaysInBackups
<1>6. QED
  BY <1>1, <1>2, <1>3, <1>4, <1>5 DEF Next, RunDaily, dailyRun

LEMMA SnapshotAndBackupStep ==
  ASSUME ClockTypes, FileTypes, BookTypes, SnapshotAndBackup, Next
  PROVE  SnapshotAndBackup'
<1> SUFFICES ASSUME NEW p \in Portfolios, Today' \in snapshots'[p]
             PROVE  InBackups(p)' \/ (proc'.at \in {"export", "dated"} /\ P' = p)
  BY DEF SnapshotAndBackup
<1>1. Today \in Nat /\ Today' \in Nat
  BY TodayMoves
<1>2. CASE Snapshot /\ p = P
  <2>1. proc'.at = "export" /\ P' = P
    BY <1>2, GoesTo, AtTheSame DEF Snapshot, Places
  <2>2. QED
    BY <1>2, <2>1
<1>3. CASE ~(Snapshot /\ p = P)
  <2>1. snapshots'[p] = snapshots[p]
    <3>1. CASE Snapshot
      <4>1. snapshots' = [snapshots EXCEPT ![P] = @ \cup {Today}] \/ snapshots' = snapshots
        BY <3>1 DEF Snapshot
      <4>2. QED
        BY <1>3, <3>1, <4>1 DEF FileTypes
    <3>2. CASE snapshots' = snapshots
      BY <3>2
    <3>3. QED
      BY <3>1, <3>2 DEF Next, RunDaily, dailyRun, Start, CheckAtStart, Wake, Refresh, Export,
         WriteDated, WriteStable, Mark, DumpFails, NextPortfolio, Tick, Change, Crash, files
  <2>2. Today' <= Today
    BY <2>1 DEF FileTypes
  <2>3. Today' = Today
    BY <1>1, <2>2, TodayMoves
  <2>4. CASE InBackups(p)
    BY <2>3, <2>4, StaysInBackups
  <2>5. CASE proc.at \in {"export", "dated"} /\ P = p
    <3>1. CASE Export
      <4>1. proc'.at = "dated" /\ P' = P
        BY <3>1, TakesTheDump, AtTheSame DEF Export, BookTypes
      <4>2. QED
        BY <2>5, <4>1
    <3>2. CASE WriteDated
      <4>1. Today \in DOMAIN gens'[P]
        BY <3>2, Dated
      <4>2. QED
        BY <2>3, <2>5, <4>1 DEF InBackups
    <3>3. CASE DumpFails
      <4>1. <<P, Today>> \in lost'
        BY <3>3 DEF DumpFails
      <4>2. QED
        BY <2>3, <2>5, <4>1 DEF InBackups
    <3>4. CASE Tick
      BY <2>5, <3>4, HourGoesBy DEF P
    <3>5. CASE Change
      BY <2>5, <3>5 DEF Change, P
    <3>6. CASE Crash
      <4>1. AllToday \subseteq lost'
        BY <2>5, <3>6 DEF Crash, Running
      <4>2. QED
        BY <2>3, <4>1 DEF InBackups, AllToday
    <3>7. QED
      BY <2>5, <3>1, <3>2, <3>3, <3>4, <3>5, <3>6 DEF Next, RunDaily, dailyRun, Start,
         CheckAtStart, Wake, Refresh, Snapshot, WriteStable, Mark, NextPortfolio
  <2>6. QED
    BY <2>1, <2>3, <2>4, <2>5 DEF SnapshotAndBackup
<1>4. QED
  BY <1>2, <1>3

-----------------------------------------------------------------------------
(* The theorems.                                                           *)

Kept == Wakes /\ RunsLeft /\ DaysKept /\ InOrder /\ DumpInHand /\ MarkTellsTheTruth

LEMMA KeptStart == Init => Types /\ Kept
<1> SUFFICES ASSUME Init PROVE Types /\ Kept
  OBVIOUS
<1>1. Types
  BY ClockTypesStart, FilesStart DEF Types
<1>2. Wakes
  <2>1. proc.at = "down"
    BY DownIsAProcess, Zenon DEF Init
  <2>2. QED
    BY <2>1 DEF Wakes
<1>3. QED
  BY <1>1, <1>2, RunsLeftStart, DaysKeptStart, MarkStart DEF Kept

LEMMA KeptStep ==
  ASSUME Types, Kept, [Next]_vars
  PROVE  Types' /\ Kept'
<1>1. CASE Next
  <2>1. ClockTypes /\ FileTypes /\ BookTypes
    BY DEF Types
  <2>2. /\ Wakes /\ RunsLeft /\ InOrder /\ DumpInHand /\ MarkTellsTheTruth
        /\ AfterTheHour /\ DoneToday /\ SnapshotAndBackup
    BY DaysKeptParts DEF Kept
  <2>3. ClockTypes' /\ BookTypes'
    BY <1>1, <2>1, <2>2, ClockTypesStep, BookTypesStep
  <2>4. FileTypes'
    BY <1>1, <2>1, <2>3, FileTypesStep
  <2>5. Wakes' /\ RunsLeft'
    BY <1>1, <2>1, <2>2, <2>3, WakesStep, RunsLeftStep
  <2>6. InOrder' /\ DumpInHand' /\ MarkTellsTheTruth'
    BY <1>1, <2>1, <2>2, InOrderStep, DumpInHandStep, MarkStep
  <2>7. AfterTheHour' /\ DoneToday' /\ SnapshotAndBackup'
    BY <1>1, <2>1, <2>2, AfterTheHourStep, DoneTodayStep, SnapshotAndBackupStep
  <2>8. DaysKept'
    BY <2>7 DEF DaysKept, AfterTheHour, DoneToday, SnapshotAndBackup
  <2>9. QED
    BY <2>3, <2>4, <2>5, <2>6, <2>8 DEF Types, Kept
<1>2. CASE UNCHANGED vars
  BY <1>2 DEF vars, files, history, Types, ClockTypes, FileTypes, BookTypes, Kept, Wakes, RunsLeft,
     DailyLeft, HourAhead, RetriesLeft, DaysKept, HourPast, OnCurve, InBackups, BeganOn, InOrder,
     DumpInHand, MarkTellsTheTruth, Today, P
<1>3. QED
  BY <1>1, <1>2

LEMMA KeptAlways == Spec => [](Types /\ Kept)
<1>1. Init => Types /\ Kept
  BY KeptStart
<1>2. Types /\ Kept /\ [Next]_vars => (Types /\ Kept)'
  BY KeptStep
<1>3. QED
  BY <1>1, <1>2, PTL DEF Spec

(* Every day on which the service lives is on the curve and in the         *)
(* backups of every portfolio, whatever fails and whenever it starts.      *)
THEOREM NoDayIsMissing == Spec => []DayIsKept
<1>1. Types /\ Kept => DayIsKept
  <2> SUFFICES ASSUME Types, Kept, proc.at = "waiting", Hour(now) > RunHour
               PROVE  \A p \in Portfolios : OnCurve(p) /\ InBackups(p)
    BY DEF DayIsKept, DayIsSnapshotted, DayIsBackedUp, OnCurve, InBackups
  <2>1. now \in Nat /\ proc.wake \in Nat /\ now <= proc.wake /\ RunHour \in Nat
    BY ScheduleAssumption DEF Types, ClockTypes, Procs, Kept, Wakes
  <2>2. /\ Day(now) <= Day(proc.wake)
        /\ Day(now) = Day(proc.wake) => Hour(now) <= Hour(proc.wake)
    BY <2>1, DaysFollow
  <2>3. Hour(now) \in Int /\ Hour(proc.wake) \in Int /\ Day(now) \in Nat /\ Day(proc.wake) \in Nat
    BY <2>1, TimeParts
  <2>4. HourPast
    BY <2>1, <2>2, <2>3 DEF HourPast, Today
  <2>5. QED
    BY <2>4 DEF Kept, DaysKept
<1>2. QED
  BY <1>1, KeptAlways, PTL

(* The mark of the backup never claims more than the files hold.           *)
THEOREM TheMarkIsTrue == Spec => []MarkTellsTheTruth
<1>1. Types /\ Kept => MarkTellsTheTruth
  BY DEF Kept
<1>2. QED
  BY <1>1, KeptAlways, PTL

(* The National Bank is asked a bounded number of times a day.             *)
THEOREM RunsAreFew == Spec => []NotTooOften
<1>1. Types /\ Kept => NotTooOften
  <2> SUFFICES ASSUME Types, Kept
               PROVE  NotTooOften
    OBVIOUS
  <2>1. DailyLeft \in Nat /\ RetriesLeft \in Nat /\ runs \in Nat /\ MostRuns \in Nat
    BY LeftTypes DEF Types
  <2>2. runs + DailyLeft + RetriesLeft <= MostRuns
    BY DEF Kept, RunsLeft, MostRuns
  <2>3. runs <= MostRuns
    BY ONLY <2>1, <2>2
  <2>4. QED
    BY <2>3 DEF NotTooOften, MostRuns
<1>2. QED
  BY <1>1, KeptAlways, PTL

(* No step takes a generation away without enough younger ones, or writes  *)
(* one over with an older state of the books.                              *)
THEOREM GenerationsAreSafe == Spec => GenerationsKept
<1> DEFINE A == \A p \in Portfolios : \A d \in DOMAIN gens[p] :
       IF d \in DOMAIN gens'[p]
         THEN gens'[p][d] >= gens[p][d]
         ELSE Cardinality({e \in DOMAIN gens'[p] : e > d}) >= BackupKeep
<1>1. Types /\ Kept /\ [Next]_vars => [A]_vars
  <2> SUFFICES ASSUME Types, Kept, Next
               PROVE  A
    OBVIOUS
  <2>1. QED
    BY GenerationsStep DEF Types, Kept
<1>2. QED
  BY <1>1, KeptAlways, PTL DEF Spec, GenerationsKept

-----------------------------------------------------------------------------
(* The results of auctions (AuctionWatermark).                             *)

USE AuctionBounds DEF world, past, counts

-----------------------------------------------------------------------------
(* The newest of a set of days.                                            *)

LEMMA LastOfDays ==
  ASSUME NEW n \in Nat, NEW S \in SUBSET (0..n), S # {}
  PROVE  /\ Max(S) \in S
         /\ \A d \in S : d <= Max(S)
<1> DEFINE Back == {n - d : d \in S}
<1>1. Back \subseteq Nat
  OBVIOUS
<1>2. Back # {}
  OBVIOUS
<1>3. PICK b \in Back : \A c \in Back : ~ (<<c, b>> \in OpToRel(<, Nat))
  BY ONLY <1>1, <1>2, NatLessThanWellFounded, WFMin
<1>4. \A c \in Back : ~ (c < b)
  BY <1>1, <1>3 DEF OpToRel
<1>5. PICK last \in S : b = n - last
  OBVIOUS
<1>6. \A d \in S : last >= d
  <2> TAKE d \in S
  <2>1. ~ (n - d < n - last)
    BY <1>4, <1>5
  <2> QED
    BY <2>1
<1> HIDE DEF Back
<1>7. \E m \in S : \A d \in S : m >= d
  BY <1>6
<1>8. Max(S) \in S /\ \A d \in S : Max(S) >= d
  BY ONLY <1>7 DEF Max
<1>9. \A m \in 0..n, d \in 0..n : m >= d => d <= m
  OBVIOUS
<1> QED
  BY ONLY S \in SUBSET (0..n), <1>8, <1>9

-----------------------------------------------------------------------------
(* What the steps of a refresh and of a backfill make of their records.    *)

RefreshRecords ==
  [at : {"rest", "decide", "catchup"}, since : 0..LastDay, newest : 0..LastDay,
   day : 0..LastDay + 1, done : 0..LastDay, failed : BOOLEAN]
BackfillRecords ==
  [at : {"new", "run", "over"}, day : 0..LastDay + 1, end : 0..LastDay]

LEMMA AtRest ==
  /\ Resting \in RefreshRecords /\ Resting.at = "rest"
  /\ NotStarted \in BackfillRecords /\ NotStarted.at = "new"
  /\ Finished \in BackfillRecords /\ Finished.at = "over"
BY DEF Resting, NotStarted, Finished, RefreshRecords, BackfillRecords

-----------------------------------------------------------------------------
(* Type correctness.                                                       *)

AuctionTypes ==
  /\ today \in StartDay..LastDay
  /\ published \subseteq 1..today
  /\ stored \subseteq published
  /\ polledThrough \in 0..LastDay /\ since \in 0..LastDay
  /\ refresh \in RefreshRecords
  /\ backfill \in BackfillRecords
  /\ cutOff \subseteq Days
  /\ unfetched \subseteq Days

LEMMA LatestIsADay ==
  ASSUME AuctionTypes
  PROVE  /\ Latest \in 0..today
         /\ Latest # 0 => Latest \in published
         /\ \A d \in published : d <= Latest
<1>1. today \in Nat /\ published \cup {0} \in SUBSET (0..today) /\ published \cup {0} # {}
  BY DEF AuctionTypes
<1> QED
  BY <1>1, LastOfDays DEF Latest, AuctionTypes

(* The newest auction has been asked for.                                  *)
AskedLatest ==
  /\ refresh'.at = "decide" /\ refresh'.since = today /\ refresh'.newest = Latest
  /\ stored' = stored \cup (published \cap {Latest})

LEMMA RefreshLatestAsks ==
  ASSUME AuctionTypes, RefreshLatest
  PROVE  /\ refresh.at = "rest" /\ refresh' \in RefreshRecords
         /\ AskedLatest \/ UNCHANGED <<refresh, stored>>
         /\ UNCHANGED <<world, polledThrough, backfill, past>>
<1>1. today \in 0..LastDay /\ Latest \in 0..LastDay /\ refresh \in RefreshRecords
  BY LatestIsADay DEF AuctionTypes
<1>2. ASSUME refresh' = [refresh EXCEPT !.at = "decide", !.since = today, !.newest = Latest]
      PROVE  /\ refresh' \in RefreshRecords
             /\ refresh'.at = "decide" /\ refresh'.since = today /\ refresh'.newest = Latest
  BY ONLY <1>1, <1>2, AuctionBounds DEF RefreshRecords
<1> QED
  BY <1>1, <1>2 DEF RefreshLatest, AskedLatest

(* The catch-up starts after CatchUpFrom.                                  *)
StartedCatchUp ==
  /\ polledThrough # 0 /\ refresh.newest > polledThrough
  /\ refresh'.at = "catchup" /\ refresh'.since = refresh.since
  /\ refresh'.newest = refresh.newest
  /\ refresh'.day = CatchUpFrom + 1 /\ refresh'.done = CatchUpFrom /\ ~refresh'.failed
  /\ cutOff' = cutOff \cup ((polledThrough + 1)..CatchUpFrom)
  /\ UNCHANGED <<polledThrough, since>>

LEMMA RefreshDecides ==
  ASSUME AuctionTypes, RefreshDecide
  PROVE  /\ refresh.at = "decide" /\ refresh' \in RefreshRecords
         /\ CatchUpFrom \in 0..LastDay /\ CatchUpFrom >= polledThrough
         /\ NothingNew \/ FirstMark \/ StartedCatchUp
         /\ UNCHANGED <<world, stored, backfill, unfetched>>
<1> DEFINE next == CatchUpFrom + 1
<1>1. CatchUpFrom \in 0..LastDay /\ CatchUpFrom >= polledThrough
  BY DEF CatchUpFrom, Later, AuctionTypes
<1>2. next \in 0..LastDay + 1 /\ refresh \in RefreshRecords
  BY <1>1 DEF AuctionTypes
<1>3. ASSUME StartCatchUp
      PROVE  refresh' \in RefreshRecords /\ StartedCatchUp
  <2>1. refresh' = [refresh EXCEPT !.at = "catchup", !.day = next, !.done = CatchUpFrom, !.failed = FALSE]
    BY <1>3 DEF StartCatchUp
  <2> HIDE DEF next
  <2>2. /\ refresh' \in RefreshRecords
        /\ refresh'.at = "catchup" /\ refresh'.since = refresh.since
        /\ refresh'.newest = refresh.newest
        /\ refresh'.day = next /\ refresh'.done = CatchUpFrom /\ ~refresh'.failed
    BY ONLY <1>1, <1>2, <2>1, AuctionBounds DEF RefreshRecords
  <2>3. UNCHANGED <<polledThrough, since>> /\ cutOff' = cutOff \cup ((polledThrough + 1)..CatchUpFrom)
        /\ polledThrough # 0 /\ refresh.newest > polledThrough
    BY <1>3 DEF StartCatchUp
  <2> QED
    BY <2>2, <2>3 DEF next, StartedCatchUp
<1>4. ASSUME NothingNew \/ FirstMark
      PROVE  refresh' \in RefreshRecords
  BY <1>4, AtRest DEF NothingNew, FirstMark
<1> QED
  BY <1>1, <1>3, <1>4 DEF RefreshDecide

(* A day of the catch-up, taken or failed.                                 *)
DayTaken ==
  /\ stored' = stored \cup Answer(refresh.day)
  /\ refresh'.failed = refresh.failed
  /\ refresh'.done = IF refresh.failed THEN refresh.done ELSE refresh.day
DayFailed == refresh'.failed /\ refresh'.done = refresh.done /\ UNCHANGED stored

LEMMA RefreshDayMovesOn ==
  ASSUME AuctionTypes, RefreshDay
  PROVE  /\ refresh.at = "catchup" /\ refresh.day < refresh.newest
         /\ refresh' \in RefreshRecords
         /\ refresh'.at = "catchup" /\ refresh'.since = refresh.since
         /\ refresh'.newest = refresh.newest /\ refresh'.day = refresh.day + 1
         /\ DayTaken \/ DayFailed
         /\ UNCHANGED <<world, polledThrough, backfill, past>>
<1> DEFINE next == refresh.day + 1
           reached == IF refresh.failed THEN refresh.done ELSE refresh.day
<1>1. refresh \in RefreshRecords /\ next \in 0..LastDay + 1 /\ reached \in 0..LastDay
  BY DEF RefreshDay, AuctionTypes, RefreshRecords
<1>2. ASSUME refresh' = [refresh EXCEPT !.day = next, !.done = reached]
      PROVE  /\ refresh' \in RefreshRecords
             /\ refresh'.at = refresh.at /\ refresh'.since = refresh.since
             /\ refresh'.newest = refresh.newest /\ refresh'.day = next
             /\ refresh'.failed = refresh.failed /\ refresh'.done = reached
  <2> HIDE DEF next, reached
  <2> QED
    BY ONLY <1>1, <1>2, AuctionBounds DEF RefreshRecords
<1>3. ASSUME refresh' = [refresh EXCEPT !.day = next, !.failed = TRUE]
      PROVE  /\ refresh' \in RefreshRecords
             /\ refresh'.at = refresh.at /\ refresh'.since = refresh.since
             /\ refresh'.newest = refresh.newest /\ refresh'.day = next
             /\ refresh'.failed /\ refresh'.done = refresh.done
  <2> HIDE DEF next, reached
  <2> QED
    BY ONLY <1>1, <1>3, AuctionBounds DEF RefreshRecords
<1>4. /\ refresh.at = "catchup" /\ refresh.day < refresh.newest
      /\ UNCHANGED <<world, polledThrough, backfill, past>>
      /\ \/ /\ refresh' = [refresh EXCEPT !.day = next, !.done = reached]
            /\ stored' = stored \cup Answer(refresh.day)
         \/ /\ refresh' = [refresh EXCEPT !.day = next, !.failed = TRUE]
            /\ UNCHANGED stored
  BY DEF RefreshDay
<1> HIDE DEF reached
<1>5. ASSUME refresh' = [refresh EXCEPT !.day = next, !.done = reached],
             stored' = stored \cup Answer(refresh.day)
      PROVE  DayTaken
  BY <1>2, <1>5 DEF DayTaken, reached
<1>6. ASSUME refresh' = [refresh EXCEPT !.day = next, !.failed = TRUE], UNCHANGED stored
      PROVE  DayFailed
  BY <1>3, <1>6 DEF DayFailed
<1> HIDE DEF next
<1>7. next = refresh.day + 1
  BY DEF next
<1> QED
  BY ONLY <1>2, <1>3, <1>4, <1>5, <1>6, <1>7

(* A day of the backfill.                                                  *)
LEMMA BackfillMovesOn ==
  ASSUME AuctionTypes, BackfillDay
  PROVE  /\ backfill.at = "run" /\ backfill.day <= backfill.end
         /\ backfill' \in BackfillRecords
         /\ backfill'.at = "run" /\ backfill'.day = backfill.day + 1
         /\ backfill'.end = backfill.end
         /\ \/ stored' = stored \cup Answer(backfill.day) /\ UNCHANGED unfetched
            \/ unfetched' = unfetched \cup {backfill.day} /\ UNCHANGED stored
         /\ UNCHANGED <<world, polledThrough, refresh, since, cutOff>>
<1> DEFINE next == backfill.day + 1
<1>1. backfill \in BackfillRecords /\ next \in 0..LastDay + 1
  BY DEF BackfillDay, AuctionTypes, BackfillRecords
<1>2. backfill' = [backfill EXCEPT !.day = next]
  BY DEF BackfillDay
<1> HIDE DEF next
<1>3. /\ backfill' \in BackfillRecords
      /\ backfill'.at = backfill.at /\ backfill'.day = next /\ backfill'.end = backfill.end
  BY ONLY <1>1, <1>2, AuctionBounds DEF BackfillRecords
<1> QED
  BY <1>3 DEF BackfillDay, next

(* A running backfill ends with a day of the service's own time.           *)
BackfillWithin ==
  backfill.at = "run" => /\ backfill.end \in StartDay..today
                         /\ backfill.day \in 1..backfill.end + 1

LEMMA TypesHold == AuctionSpec => [](AuctionTypes /\ BackfillWithin)
<1>1. AuctionInit => AuctionTypes /\ BackfillWithin
  BY AtRest DEF AuctionInit, AuctionTypes, BackfillWithin
<1>2. AuctionTypes /\ BackfillWithin /\ [AuctionNext]_auctionVars => AuctionTypes' /\ BackfillWithin'
  <2> SUFFICES ASSUME AuctionTypes, BackfillWithin, [AuctionNext]_auctionVars
               PROVE  AuctionTypes' /\ BackfillWithin'
    OBVIOUS
  <2>1. CASE NextDay
    <3>1. /\ today' = today + 1 /\ today' <= LastDay
          /\ backfill.at = "run" => backfill.end = today
          /\ UNCHANGED <<published, stored, polledThrough, refresh, backfill, past>>
      BY <2>1 DEF NextDay, AuctionTypes
    <3>2. today \in StartDay..LastDay /\ StartDay \in Nat /\ LastDay \in Nat
      BY DEF AuctionTypes
    <3>3. /\ today' \in StartDay..LastDay /\ today \in StartDay..today'
          /\ 1..today \subseteq 1..today'
      BY ONLY <3>1, <3>2
    <3>4. AuctionTypes'
      <4>1. published' \subseteq 1..today'
        <5>1. published \subseteq 1..today
          BY DEF AuctionTypes
        <5> QED BY ONLY <3>1, <3>3, <5>1
      <4>2. today' \in StartDay..LastDay
        BY ONLY <3>3
      <4>3. /\ stored' \subseteq published' /\ polledThrough' \in 0..LastDay /\ since' \in 0..LastDay
            /\ refresh' \in RefreshRecords /\ backfill' \in BackfillRecords
            /\ cutOff' \subseteq Days /\ unfetched' \subseteq Days
        BY <3>1 DEF AuctionTypes
      <4> QED BY ONLY <4>1, <4>2, <4>3 DEF AuctionTypes
    <3>5. BackfillWithin'
      BY <3>1, <3>3 DEF BackfillWithin
    <3> QED BY <3>4, <3>5
  <2>2. CASE PublishResults
    <3>1. /\ published' = published \cup {today}
          /\ UNCHANGED <<today, stored, polledThrough, refresh, backfill, past>>
      BY <2>2 DEF PublishResults
    <3>2. today \in 1..today
      BY DEF AuctionTypes
    <3>3. AuctionTypes'
      BY <3>1, <3>2 DEF AuctionTypes
    <3>4. BackfillWithin'
      BY <3>1 DEF BackfillWithin
    <3> QED BY <3>3, <3>4
  <2>3. CASE RefreshLatest
    BY <2>3, RefreshLatestAsks DEF AskedLatest, AuctionTypes, BackfillWithin
  <2>4. CASE RefreshDecide
    <3>1. refresh.newest \in 0..LastDay
      BY DEF AuctionTypes, RefreshRecords
    <3>2. /\ refresh' \in RefreshRecords /\ CatchUpFrom \in 0..LastDay
          /\ NothingNew \/ FirstMark \/ StartedCatchUp
          /\ UNCHANGED <<world, stored, backfill, unfetched>>
      BY <2>4, RefreshDecides
    <3>3. polledThrough' \in 0..LastDay /\ since' \in 0..LastDay
      BY <3>1, <3>2 DEF NothingNew, FirstMark, StartedCatchUp, AuctionTypes
    <3>4. (polledThrough + 1)..CatchUpFrom \subseteq Days
      BY <3>2 DEF AuctionTypes, Days
    <3>5. cutOff' \subseteq Days
      BY <3>2, <3>4 DEF NothingNew, FirstMark, StartedCatchUp, AuctionTypes
    <3> QED
      BY <3>2, <3>3, <3>5 DEF AuctionTypes, BackfillWithin
  <2>5. CASE RefreshDay
    BY <2>5, RefreshDayMovesOn DEF DayTaken, DayFailed, Answer, AuctionTypes, BackfillWithin
  <2>6. CASE RefreshSavesMark
    BY <2>6, AtRest DEF RefreshSavesMark, RefreshRecords, AuctionTypes, BackfillWithin
  <2>7. CASE RefreshTimeout
    BY <2>7, AtRest DEF RefreshTimeout, AuctionTypes, BackfillWithin
  <2>8. CASE BackfillIfThin
    <3>1. backfill' \in BackfillRecords /\ BackfillWithin'
      BY <2>8, AtRest DEF BackfillIfThin, Later, BackfillRecords, AuctionTypes, BackfillWithin
    <3> QED
      BY <2>8, <3>1 DEF BackfillIfThin, AuctionTypes
  <2>9. CASE BackfillDay
    <3>1. backfill.day \in Days
      BY <2>9, BackfillMovesOn DEF AuctionTypes, BackfillWithin, Days
    <3>2. BackfillWithin'
      BY <2>9, BackfillMovesOn DEF BackfillWithin
    <3> QED
      BY <2>9, <3>1, <3>2, BackfillMovesOn DEF Answer, AuctionTypes
  <2>10. CASE BackfillSavesMark
    BY <2>10, AtRest DEF BackfillSavesMark, AuctionTypes, BackfillWithin
  <2>11. CASE BackfillTimeout
    BY <2>11, AtRest DEF BackfillTimeout, AuctionTypes, BackfillWithin
  <2>12. CASE Restart
    BY <2>12, AtRest DEF Restart, AuctionTypes, BackfillWithin
  <2>13. CASE UNCHANGED auctionVars
    BY <2>13 DEF auctionVars, AuctionTypes, BackfillWithin
  <2> QED
    BY <2>1, <2>2, <2>3, <2>4, <2>5, <2>6, <2>7, <2>8, <2>9, <2>10, <2>11, <2>12, <2>13
       DEF AuctionNext, RefreshAuctions, BackfillAuctions
<1> QED
  BY <1>1, <1>2, PTL DEF AuctionSpec

(* Nothing is stored for a day whose results nobody published, and each    *)
(* variable keeps its type.                                                *)
THEOREM TypeCorrect == AuctionSpec => []TypeOK
<1>1. AuctionTypes => TypeOK
  BY DEF AuctionTypes, TypeOK, RefreshRecords, BackfillRecords, Days
<1> QED
  BY <1>1, TypesHold, PTL

-----------------------------------------------------------------------------
(* Nothing is left behind the mark.  The invariant says of each of the     *)
(* three who write or move the mark what they have already secured: the    *)
(* mark itself, a refresh under way and a backfill under way.              *)

KeptOrExcused == stored \cup cutOff \cup unfetched

\* Between a day and the first of the service nothing was published.
NoneBetween(day) == \A e \in published : e > day => e >= StartDay

(* The mark and the first day of responsibility come together; what was    *)
(* published before the service started is at most that day itself; and    *)
(* the mark is today only when today's results are stored.                 *)
MarkKept ==
  /\ polledThrough = 0 <=> since = 0
  /\ since # 0 => since >= StartDay \/ (since \in stored /\ NoneBetween(since))
  /\ polledThrough <= today
  /\ polledThrough = today => polledThrough \in stored

(* The newest auction a refresh works towards is stored.                   *)
NewestKept ==
  refresh.at # "rest" =>
    /\ refresh.newest <= today
    /\ refresh.newest # 0 => refresh.newest \in stored /\ NoneBetween(refresh.newest)

(* A catch-up has kept all up to the last day before its first failure.    *)
CatchUpKept ==
  refresh.at = "catchup" =>
    /\ polledThrough # 0 /\ refresh.newest # 0 /\ refresh.done # 0
    /\ \A d \in Responsible : d <= refresh.done => d \in KeptOrExcused
    /\ today..refresh.done \subseteq cutOff
    /\ refresh.failed => refresh.done < refresh.newest
    /\ ~refresh.failed => refresh.done = refresh.day - 1

(* A backfill has kept all it asked for, its last day left out.            *)
BackfillKept ==
  backfill.at = "run" =>
    \A d \in published : StartDay <= d /\ d < backfill.day /\ d < backfill.end => d \in KeptOrExcused

Secured == MarkKept /\ NewestKept /\ CatchUpKept /\ BackfillKept /\ NothingBehindTheMark

LEMMA InitSecured == AuctionInit => Secured
BY AtRest
   DEF AuctionInit, Secured, MarkKept, NewestKept, CatchUpKept, BackfillKept, NothingBehindTheMark,
       Responsible

LEMMA StepSecured ==
  AuctionTypes /\ BackfillWithin /\ Secured /\ AuctionTypes' /\ BackfillWithin' /\ [AuctionNext]_auctionVars => Secured'
<1> SUFFICES ASSUME AuctionTypes, BackfillWithin, Secured, AuctionTypes', BackfillWithin', [AuctionNext]_auctionVars
             PROVE  Secured'
  OBVIOUS
<1> USE DEF Responsible, KeptOrExcused, NoneBetween
<1>1. CASE NextDay
  BY SMTT(30), <1>1
     DEF Secured, NextDay, MarkKept, NewestKept, CatchUpKept, BackfillKept,
         NothingBehindTheMark, AuctionTypes, RefreshRecords
<1>2. CASE PublishResults
  <2>1. MarkKept'
    <3>1. MarkKept /\ UNCHANGED <<polledThrough, since, today, stored>>
      BY <1>2 DEF Secured, PublishResults
    <3>2. published' = published \cup {today} /\ today >= StartDay
      BY <1>2 DEF PublishResults, AuctionTypes
    <3>3. ASSUME NoneBetween(since)
          PROVE  NoneBetween(since)'
      BY <3>1, <3>2, <3>3
    <3> QED
      BY <3>1, <3>3 DEF MarkKept
  <2>2. NewestKept'
    BY <1>2 DEF Secured, PublishResults, NewestKept, AuctionTypes
  <2>3. CatchUpKept'
    BY <1>2 DEF Secured, PublishResults, CatchUpKept, AuctionTypes
  <2>4. BackfillKept'
    BY <1>2 DEF Secured, PublishResults, BackfillKept, AuctionTypes, BackfillWithin
  <2>5. NothingBehindTheMark'
    BY <1>2 DEF Secured, PublishResults, NothingBehindTheMark, MarkKept, AuctionTypes
  <2> QED
    BY <2>1, <2>2, <2>3, <2>4, <2>5 DEF Secured
<1>3. CASE RefreshLatest
  <2>1. MarkKept'
    BY <1>3, RefreshLatestAsks DEF Secured, AskedLatest, MarkKept
  <2>2. NewestKept'
    BY <1>3, RefreshLatestAsks, LatestIsADay DEF AskedLatest, NewestKept, AuctionTypes
  <2>3. CatchUpKept'
    BY <1>3, RefreshLatestAsks DEF AskedLatest, CatchUpKept
  <2>4. BackfillKept'
    BY <1>3, RefreshLatestAsks DEF Secured, AskedLatest, BackfillKept
  <2>5. NothingBehindTheMark'
    BY <1>3, RefreshLatestAsks DEF Secured, AskedLatest, NothingBehindTheMark
  <2> QED
    BY <2>1, <2>2, <2>3, <2>4, <2>5 DEF Secured
<1>4. CASE RefreshDecide
  <2>1. MarkKept'
    BY <1>4, RefreshDecides DEF Secured, NothingNew, FirstMark, StartedCatchUp, MarkKept, NewestKept
  <2>2. NewestKept'
    BY <1>4, RefreshDecides, AtRest DEF Secured, NothingNew, FirstMark, StartedCatchUp, NewestKept
  <2>3. CatchUpKept'
    BY <1>4, RefreshDecides, AtRest
       DEF Secured, NothingNew, FirstMark, StartedCatchUp, CatchUpKept, NewestKept,
           NothingBehindTheMark, AuctionTypes, RefreshRecords
  <2>4. BackfillKept'
    BY <1>4, RefreshDecides DEF Secured, NothingNew, FirstMark, StartedCatchUp, BackfillKept
  <2>5. NothingBehindTheMark'
    BY <1>4, RefreshDecides
       DEF Secured, NothingNew, FirstMark, StartedCatchUp, NothingBehindTheMark, MarkKept,
           NewestKept, AuctionTypes, BackfillRecords
  <2> QED
    BY <2>1, <2>2, <2>3, <2>4, <2>5 DEF Secured
<1>5. CASE RefreshDay
  <2>1. MarkKept'
    BY <1>5, RefreshDayMovesOn DEF Secured, DayTaken, DayFailed, MarkKept
  <2>2. NewestKept'
    BY <1>5, RefreshDayMovesOn DEF Secured, DayTaken, DayFailed, NewestKept
  <2>3. CatchUpKept'
    BY <1>5, RefreshDayMovesOn
       DEF Secured, DayTaken, DayFailed, Answer, CatchUpKept, NewestKept, AuctionTypes,
           RefreshRecords
  <2>4. BackfillKept'
    BY <1>5, RefreshDayMovesOn DEF Secured, DayTaken, DayFailed, BackfillKept
  <2>5. NothingBehindTheMark'
    BY <1>5, RefreshDayMovesOn DEF Secured, DayTaken, DayFailed, NothingBehindTheMark
  <2> QED
    BY <2>1, <2>2, <2>3, <2>4, <2>5 DEF Secured
<1>6. CASE RefreshSavesMark
  <2>1. MarkKept'
    BY <1>6 DEF Secured, RefreshSavesMark, MarkKept, NewestKept, CatchUpKept, AuctionTypes, RefreshRecords
  <2>2. NewestKept'
    BY <1>6, AtRest DEF RefreshSavesMark, NewestKept
  <2>3. CatchUpKept'
    BY <1>6, AtRest DEF RefreshSavesMark, CatchUpKept
  <2>4. BackfillKept'
    BY <1>6 DEF Secured, RefreshSavesMark, BackfillKept
  <2>5. NothingBehindTheMark'
    BY <1>6
       DEF Secured, RefreshSavesMark, NothingBehindTheMark, NewestKept, CatchUpKept, AuctionTypes,
           RefreshRecords
  <2> QED
    BY <2>1, <2>2, <2>3, <2>4, <2>5 DEF Secured
<1>7. CASE RefreshTimeout
  BY <1>7, AtRest
     DEF Secured, RefreshTimeout, MarkKept, NewestKept, CatchUpKept, BackfillKept,
         NothingBehindTheMark
<1>8. CASE BackfillIfThin
  BY <1>8, AtRest, BackfillAssumption
     DEF Secured, BackfillIfThin, Later, MarkKept, NewestKept, CatchUpKept, BackfillKept,
         NothingBehindTheMark, AuctionTypes
<1>9. CASE BackfillDay
  <2>1. MarkKept'
    BY <1>9, BackfillMovesOn DEF Secured, MarkKept
  <2>2. NewestKept'
    BY <1>9, BackfillMovesOn DEF Secured, NewestKept
  <2>3. CatchUpKept'
    BY <1>9, BackfillMovesOn DEF Secured, CatchUpKept
  <2>4. BackfillKept'
    BY <1>9, BackfillMovesOn DEF Secured, Answer, BackfillKept, AuctionTypes, BackfillRecords
  <2>5. NothingBehindTheMark'
    BY <1>9, BackfillMovesOn DEF Secured, NothingBehindTheMark
  <2> QED
    BY <2>1, <2>2, <2>3, <2>4, <2>5 DEF Secured
<1>10. CASE BackfillSavesMark
  <2>1. MarkKept'
    BY <1>10 DEF Secured, BackfillSavesMark, MarkKept, AuctionTypes, BackfillWithin
  <2>2. NewestKept'
    BY <1>10 DEF Secured, BackfillSavesMark, NewestKept
  <2>3. CatchUpKept'
    BY <1>10 DEF Secured, BackfillSavesMark, CatchUpKept, MarkKept, BackfillWithin
  <2>4. BackfillKept'
    BY <1>10, AtRest DEF BackfillSavesMark, BackfillKept
  <2>5. NothingBehindTheMark'
    BY <1>10
       DEF Secured, BackfillSavesMark, NothingBehindTheMark, MarkKept, BackfillKept, AuctionTypes,
           BackfillRecords
  <2> QED
    BY <2>1, <2>2, <2>3, <2>4, <2>5 DEF Secured
<1>11. CASE BackfillTimeout
  BY <1>11, AtRest
     DEF Secured, BackfillTimeout, MarkKept, NewestKept, CatchUpKept, BackfillKept,
         NothingBehindTheMark
<1>12. CASE Restart
  BY <1>12, AtRest
     DEF Secured, Restart, MarkKept, NewestKept, CatchUpKept, BackfillKept,
         NothingBehindTheMark
<1>13. CASE UNCHANGED auctionVars
  BY <1>13 DEF Secured, auctionVars, MarkKept, NewestKept, CatchUpKept, BackfillKept, NothingBehindTheMark
<1> QED
  BY <1>1, <1>2, <1>3, <1>4, <1>5, <1>6, <1>7, <1>8, <1>9, <1>10, <1>11, <1>12, <1>13
     DEF AuctionNext, RefreshAuctions, BackfillAuctions

(* No published auction is left behind the mark.                           *)
THEOREM NothingIsLeftBehind == AuctionSpec => []NothingBehindTheMark
<1>1. Secured => NothingBehindTheMark
  BY DEF Secured
<1> QED
  BY <1>1, TypesHold, InitSecured, StepSecured, PTL DEF AuctionSpec

=============================================================================
