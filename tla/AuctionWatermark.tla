-------------------------- MODULE AuctionWatermark --------------------------
(***************************************************************************)
(* How the results of the Ministry's auctions get into the database:       *)
(* internal/jobs/jobs.go, RefreshAuctions, BackfillAuctions and            *)
(* BackfillAuctionsIfThin, with their mark ovdp_auctions_polled_through.   *)
(*                                                                         *)
(* RefreshAuctions runs inside RefreshAll, one at a time (refreshMu).  It  *)
(* asks for the newest auction and, when the mark is behind it, for every  *)
(* day between.  BackfillAuctions runs at start when history is thin, in a *)
(* goroutine of its own that does not take refreshMu.                      *)
(*                                                                         *)
(* Days are numbers from 1.  A day's results, if there was an auction, are *)
(* published by the National Bank in the course of that day, often after   *)
(* the morning run.                                                        *)
(*                                                                         *)
(* A run of DailyRun is what sets RefreshAuctions off; the names of the    *)
(* two modules do not meet, so that one module of proofs extends both.     *)
(***************************************************************************)
EXTENDS Naturals, FiniteSets, FiniteSetsExt

CONSTANTS
  StartDay,       \* the day the service is first started
  LastDay,        \* the last day of a behaviour
  CatchupCap,     \* auctionCatchupCap
  BackfillDays,   \* how far back BackfillAuctions goes (weeks * 7)
  MinDays,        \* BackfillAuctionsIfThin: enough history already
  MaxFaults,      \* requests that fail
  MaxCuts         \* runs cut short, by their context or by a restart

ASSUME AuctionBounds ==
  /\ {CatchupCap, BackfillDays, MinDays, MaxFaults, MaxCuts} \subseteq Nat
  /\ StartDay \in Nat \ {0, 1}        \* so that its yesterday is no mark of 0
  /\ LastDay \in Nat /\ StartDay <= LastDay

\* A behaviour is shorter than the 52 weeks a backfill looks back.
ASSUME BackfillAssumption == LastDay - StartDay <= BackfillDays

Days == 1..LastDay

VARIABLES
  today,
  published,      \* days whose results the National Bank has published
  stored,         \* days whose results the database has
  polledThrough,  \* the mark, 0 while there is none
  refresh,        \* RefreshAuctions
  backfill,       \* BackfillAuctions
  since,          \* first day the service has taken responsibility for
  cutOff,         \* days left out by auctionCatchupCap
  unfetched,      \* days BackfillAuctions could not get
  failures, cuts

world == <<today, published>>
past == <<since, cutOff, unfetched>>
counts == <<failures, cuts>>
auctionVars == <<world, stored, polledThrough, refresh, backfill, past, counts>>

Resting == [at |-> "rest", since |-> 0, newest |-> 0, day |-> 0, done |-> 0,
            failed |-> FALSE]
NotStarted == [at |-> "new", day |-> 0, end |-> 0]
Finished == [at |-> "over", day |-> 0, end |-> 0]

AuctionInit ==
  /\ today = StartDay
  /\ published \in SUBSET (1..StartDay)
  /\ stored = {}
  /\ polledThrough = 0
  /\ refresh = Resting
  /\ backfill = NotStarted
  /\ since = 0 /\ cutOff = {} /\ unfetched = {}
  /\ failures = 0 /\ cuts = 0

Latest == Max(published \cup {0})
Later(a, b) == IF a > b THEN a ELSE b

Fault == failures < MaxFaults /\ failures' = failures + 1

\* A day without an auction has an empty answer, and SaveAuctions stores nothing.
Answer(d) == published \cap {d}

-----------------------------------------------------------------------------
(* The world.                                                              *)

\* A phase of RefreshAll has ninety seconds (phaseTimeout), the backfill thirty
\* minutes from the start: a night may fall into either, two nights may not.
NextDay ==
  /\ today < LastDay
  /\ backfill.at # "new"
  /\ backfill.at = "run" => backfill.end = today
  /\ refresh.at = "rest" \/ refresh.since = today
  /\ today' = today + 1
  /\ UNCHANGED <<published, stored, polledThrough, refresh, backfill, past, counts>>

PublishResults ==
  /\ today \notin published
  /\ published' = published \cup {today}
  /\ UNCHANGED <<today, stored, polledThrough, refresh, backfill, past, counts>>

-----------------------------------------------------------------------------
(* RefreshAuctions.                                                        *)

\* The request without a date answers with the newest auction.
RefreshLatest ==
  /\ refresh.at = "rest"
  /\ \/ /\ refresh' = [refresh EXCEPT !.at = "decide", !.since = today,
                                      !.newest = Latest]
        /\ stored' = stored \cup (published \cap {Latest})
        /\ UNCHANGED failures
     \/ Fault /\ UNCHANGED <<refresh, stored>>
  /\ UNCHANGED <<world, polledThrough, backfill, past, cuts>>

\* [mutant] The catch-up is spared when it would have one day to ask for.
NothingMuchNew ==
  /\ refresh.newest <= polledThrough + 2
  /\ refresh' = Resting
  /\ UNCHANGED <<polledThrough, since, cutOff>>

\* Nothing newer than the mark has been published.
NothingNew ==
  /\ refresh.newest <= polledThrough
  /\ refresh' = Resting
  /\ UNCHANGED <<polledThrough, since, cutOff>>

\* No mark: history is the backfill's business.
FirstMark ==
  /\ polledThrough = 0 /\ refresh.newest > 0
  /\ polledThrough' = refresh.newest
  /\ since' = IF since = 0 THEN refresh.newest ELSE since
  /\ refresh' = Resting
  /\ UNCHANGED cutOff

\* The first day after which days are asked for one by one.
CatchUpFrom == Later(polledThrough, IF today > CatchupCap THEN today - CatchupCap ELSE 0)

StartCatchUp ==
  /\ polledThrough # 0 /\ refresh.newest > polledThrough
  /\ refresh' = [refresh EXCEPT !.at = "catchup", !.day = CatchUpFrom + 1,
                                !.done = CatchUpFrom, !.failed = FALSE]
  /\ cutOff' = cutOff \cup ((polledThrough + 1)..CatchUpFrom)
  /\ UNCHANGED <<polledThrough, since>>

RefreshDecide ==
  /\ refresh.at = "decide"
  /\ NothingNew \/ FirstMark \/ StartCatchUp
  /\ UNCHANGED <<world, stored, backfill, unfetched, counts>>

\* [mutant] The days after a failed one move the mark too.
RefreshDayForgetsFailure ==
  /\ refresh.at = "catchup" /\ refresh.day < refresh.newest
  /\ \/ /\ stored' = stored \cup Answer(refresh.day)
        /\ refresh' = [refresh EXCEPT !.day = @ + 1, !.done = refresh.day]
        /\ UNCHANGED failures
     \/ /\ Fault
        /\ refresh' = [refresh EXCEPT !.day = @ + 1]
        /\ UNCHANGED stored
  /\ UNCHANGED <<world, polledThrough, backfill, past, cuts>>

\* One day of the catch-up: taken, or failed, and then the mark stops there.
RefreshDay ==
  /\ refresh.at = "catchup" /\ refresh.day < refresh.newest
  /\ \/ /\ stored' = stored \cup Answer(refresh.day)
        /\ refresh' = [refresh EXCEPT
                         !.day = @ + 1,
                         !.done = IF refresh.failed THEN @ ELSE refresh.day]
        /\ UNCHANGED failures
     \/ /\ Fault
        /\ refresh' = [refresh EXCEPT !.day = @ + 1, !.failed = TRUE]
        /\ UNCHANGED stored
  /\ UNCHANGED <<world, polledThrough, backfill, past, cuts>>

\* The context ends, or the database refuses: the mark is not written.
RefreshTimeout ==
  /\ refresh.at = "catchup" /\ refresh.day < refresh.newest
  /\ cuts < MaxCuts
  /\ cuts' = cuts + 1
  /\ refresh' = Resting
  /\ UNCHANGED <<world, stored, polledThrough, backfill, past, failures>>

\* [mutant] The mark is set to today, published or not.
RefreshMarksToday ==
  /\ refresh.at = "catchup" /\ refresh.day >= refresh.newest
  /\ polledThrough' = today
  /\ refresh' = Resting
  /\ UNCHANGED <<world, stored, backfill, past, counts>>

RefreshSavesMark ==
  /\ refresh.at = "catchup" /\ refresh.day >= refresh.newest
  /\ polledThrough' = IF refresh.failed THEN refresh.done ELSE refresh.newest
  /\ refresh' = Resting
  /\ UNCHANGED <<world, stored, backfill, past, counts>>

-----------------------------------------------------------------------------
(* BackfillAuctions.                                                       *)

BackfillIfThin ==
  /\ backfill.at = "new"
  /\ backfill' = IF Cardinality(stored) >= MinDays
                 THEN Finished
                 ELSE [at |-> "run", end |-> today,
                       day |-> Later(1, IF today > BackfillDays
                                        THEN today - BackfillDays ELSE 1)]
  /\ UNCHANGED <<world, stored, polledThrough, refresh, past, counts>>

BackfillDay ==
  /\ backfill.at = "run" /\ backfill.day <= backfill.end
  /\ backfill' = [backfill EXCEPT !.day = @ + 1]
  /\ \/ /\ stored' = stored \cup Answer(backfill.day)
        /\ UNCHANGED <<unfetched, failures>>
     \/ /\ Fault
        /\ unfetched' = unfetched \cup {backfill.day}
        /\ UNCHANGED stored
  /\ UNCHANGED <<world, polledThrough, refresh, since, cutOff, cuts>>

BackfillTimeout ==
  /\ backfill.at = "run" /\ backfill.day <= backfill.end
  /\ cuts < MaxCuts
  /\ cuts' = cuts + 1
  /\ backfill' = Finished
  /\ UNCHANGED <<world, stored, polledThrough, refresh, past, failures>>

\* [mutant] The mark is today although today's auction may come later.
BackfillMarksToday ==
  /\ backfill.at = "run" /\ backfill.day > backfill.end
  /\ polledThrough' = backfill.end
  /\ since' = IF since = 0 THEN backfill.end ELSE since
  /\ backfill' = Finished
  /\ UNCHANGED <<world, stored, refresh, cutOff, unfetched, counts>>

\* Yesterday, as seen at the start, whatever days were missed.
BackfillSavesMark ==
  /\ backfill.at = "run" /\ backfill.day > backfill.end
  /\ polledThrough' = backfill.end - 1
  /\ since' = IF since = 0 THEN backfill.end ELSE since
  /\ backfill' = Finished
  /\ UNCHANGED <<world, stored, refresh, cutOff, unfetched, counts>>

-----------------------------------------------------------------------------
Restart ==
  /\ cuts < MaxCuts
  /\ cuts' = cuts + 1
  /\ refresh' = Resting
  /\ backfill' = NotStarted
  /\ UNCHANGED <<world, stored, polledThrough, past, failures>>

RefreshAuctions == RefreshLatest \/ RefreshDecide \/ RefreshDay \/ RefreshSavesMark
BackfillAuctions == BackfillIfThin \/ BackfillDay \/ BackfillSavesMark

AuctionNext ==
  \/ NextDay \/ PublishResults
  \/ RefreshAuctions \/ RefreshTimeout
  \/ BackfillAuctions \/ BackfillTimeout
  \/ Restart

\* The daily run comes every day and is retried, the backfill runs to its end.
Fairness == WF_auctionVars(RefreshAuctions) /\ WF_auctionVars(BackfillAuctions)

AuctionSpec == AuctionInit /\ [][AuctionNext]_auctionVars
FairSpec == AuctionSpec /\ Fairness

-----------------------------------------------------------------------------
(* Properties.                                                             *)

(* The type invariant; in particular nothing is stored for a day without   *)
(* published results (SaveAuctions).                                       *)
TypeOK ==
  /\ today \in Days /\ published \subseteq Days
  /\ stored \subseteq published
  /\ polledThrough \in 0..LastDay /\ since \in 0..LastDay
  /\ refresh.at \in {"rest", "decide", "catchup"}
  /\ refresh.newest \in 0..LastDay /\ refresh.done \in 0..LastDay
  /\ backfill.at \in {"new", "run", "over"}
  /\ cutOff \subseteq Days /\ unfetched \subseteq Days

Responsible == {d \in published : since # 0 /\ d >= since}

(* No published auction is left behind the mark, for what is behind it is  *)
(* never asked for again: neither a failed day, nor results published      *)
(* after the morning run, nor the backfill working next to the refresh     *)
(* lose one.  Known exceptions: days beyond the cap, and days the backfill *)
(* failed to get.                                                          *)
NothingBehindTheMark ==
  \A d \in Responsible : d <= polledThrough => d \in stored \cup cutOff \cup unfetched

(* Each published auction is stored in the end, whatever requests fail and *)
(* runs time out on the way, as long as they do so only so often.          *)
EveryAuctionArrives ==
  \A d \in Days :
    (d \in Responsible) ~> (d \in stored \cup cutOff \cup unfetched)

(* The comment of auctionWatermark: the mark is "the last PUBLISHED auction *)
(* day up to which all days have been taken without gaps".                 *)
MarkHasNoGaps ==
  \A d \in published : 
    polledThrough # 0 /\ backfill.at = "over" /\ StartDay - BackfillDays <= d /\ d <= polledThrough
      => d \in stored \cup cutOff
=============================================================================
