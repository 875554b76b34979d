------------------------------ MODULE Figures ------------------------------
(***************************************************************************)
(* The algorithms of the program under one roof: a case is drawn from the  *)
(* bounded inputs of a subject, and what must hold of that subject's       *)
(* figures holds of the case.  Each subject is a module of its own; this   *)
(* one has no code to model.                                               *)
(***************************************************************************)
EXTENDS Integers, Sequences, FiniteSets

CONSTANTS Cases,   \* by subject: the set of its cases
          Days     \* days on which the figures are asked for

VARIABLES topic, subject, case,
          answer   \* what the program answers, where several properties ask

Funds == INSTANCE FundMath
Papers == INSTANCE Holdings
Debts == INSTANCE DebtPlan
Savings == INSTANCE DepositMath
Routes == INSTANCE Route
Stock == INSTANCE Capital
Queue == INSTANCE Tasks
Shop == INSTANCE Offers

vars == <<topic, subject, case, answer>>
NoAnswer == <<>>

Init == topic = "none" /\ subject = "none" /\ case = <<>> /\ answer = NoAnswer

Choose ==
  /\ topic = "none"
  /\ topic' \in DOMAIN Cases
  /\ UNCHANGED <<subject, case, answer>>

Draw ==
  /\ topic # "none" /\ subject = "none"
  /\ subject' = topic
  /\ case' \in Cases[topic]
  /\ UNCHANGED <<topic, answer>>

Asked(s) == subject = s /\ answer = NoAnswer
Answer(a) == answer' = a /\ UNCHANGED <<topic, subject, case>>

LayOut ==
  /\ Asked("allocation")
  /\ Answer(Routes!AllocatePlan(case.doc, case.sug, case.amount, case.allow))
PlanMonth ==
  /\ Asked("month of the plan")
  /\ \E day \in Days, m \in 0..3 :
       Answer([day |-> day, m |-> m, parts |-> Routes!planParts(case, day, m),
               plan |-> Routes!buildMonthPlan(case, day, m, 0, Routes!NoDate)])
WalkRoute ==
  /\ Asked("route")
  /\ Answer(Routes!buildRoute(case.doc, case.flows, case.plans, case.debt, <<1, 4>>, "", 20240110))
TakeStock ==
  /\ Asked("books")
  /\ \E from, day \in Days :
       /\ from < day /\ Stock!Past(case, day)
       /\ Answer([from |-> from, day |-> day,
                  on |-> [t \in {from, day} |->
                            Stock!StockOf(IF t = day THEN case ELSE Stock!Before(case, from), t)]])
AskWhatToDo ==
  /\ Asked("queue")
  /\ \E day \in Days : Answer([day |-> day, tasks |-> Queue!buildTasks(case.src, case.doc, day)])

LookRound ==
  /\ Asked("structure")
  /\ Answer(Shop!buildRebalance(case))
AskOffers ==
  /\ Asked("offers")
  /\ \E day \in Days, doc \in {Shop!Rebalanced(case.doc)} :
       Answer([day |-> day, doc |-> doc, rows |-> Shop!OfferedRows(case.market, doc, day),
               sug |-> Shop!ReinvestSuggestions(case.market, doc, day)])

PayOff ==
  /\ Asked("payoff")
  /\ \E day \in Days, ask \in case.asks :
       \E books \in {Debts!Loaded(case.books, day)} :
         \E doc \in {Debts!buildDebtPlan(books, 40, case.plan, day)} :
           Answer([day |-> day, strategy |-> ask.strategy, doc |-> doc,
                   page |-> Debts!handlePayoff(case.books, doc, ask.strategy, ask.extra, day, 40),
                   exit |-> Debts!buildDebtExit(books, case.src, case.spend, day)])

Next ==
  \/ Choose \/ Draw \/ LayOut \/ PlanMonth \/ WalkRoute \/ TakeStock \/ AskWhatToDo
  \/ LookRound \/ AskOffers \/ PayOff
Spec == Init /\ [][Next]_vars

----------------------------------------------------------------------------

(* Certificates of funds (internal/domain/funds.go), bonds (calendar.go,   *)
(* positions.go, accrued.go, sale.go), the loan from the reserve and idle  *)
(* income.  Selling everything ends with one result by both methods,       *)
(* conversions lose no cost, prices lie on their curve, payouts come       *)
(* monthly and make no money; each coupon reaches one holder, accrued      *)
(* coupons stay within the coupon that returns them, a paper is held until *)
(* its redemption arrives; a repaid loan is closed, and idle income is     *)
(* what no purchase could have used.                                       *)
SecuritiesAddUp ==
  /\ subject = "payout of a fund" =>
       /\ \A reinvest \in BOOLEAN :
            Funds!PayoutsAreMonthly(case.p, case.payDay, 1200, 4, case.from, reinvest)
       /\ Funds!ReinvestingMakesNoMoney(case.gross, case.p.price)
  /\ subject = "journal of a fund" =>
       /\ Funds!LiquidationAgrees(case.ops)
       /\ Funds!CostIsConserved(case.ops)
       /\ Funds!UnmeasuredEarnedNothing(case.ops)
       /\ Funds!PriceOnTheCurve(case.ops, case.marks)
  /\ subject = "papers" =>
       /\ Papers!EveryCouponOnce(case.payments, case.lots, case.sales)
       /\ Papers!DeductionWithinCoupon(case.payments, case.lots, case.sales)
       /\ \A day \in Days :
            Papers!HeldUntilRedeemed(case.bonds, case.payments, case.lots, case.sales, day,
                                     case.received)
  /\ subject = "accrued coupon" => Papers!AccruedGrows(case.payments, "a", case.from, case.to)
  /\ subject = "reserve loan" =>
       Papers!RepaymentCloses(case.principal, case.rate, case.taken, case.repays, case.asOf)
  /\ subject = "idle income" => Papers!IdleIsWhatNobodyCouldUse(case.events)

(* Debts (internal/domain/debt.go), deposits and pension accounts          *)
(* (deposit.go, npf.go).  Schedules repay what was borrowed and no more,   *)
(* also after payments ahead of time, fees follow the contract, cycles of  *)
(* a card meet on every day, and a mark with the figures shown changes     *)
(* none of them; payouts only divide the interest, what accrues is paid    *)
(* and taxed once, the ladder returns what was put in, the tax credit      *)
(* keeps within its caps, and a pension pays out all there is.             *)
BalancesAddUp ==
  /\ subject = "marks of a card" =>
       \A day \in Days :
         /\ Debts!ReconcilingChangesNothing(case.debt, case.marks, case.ops, day)
         /\ Debts!StatementExcludesOwnMoney(case.debt, case.marks, case.ops, day)
         /\ Debts!BurnAddsUp(case.debt, case.marks, case.ops, day)
  /\ subject = "instalments" =>
       /\ Debts!ScheduleRepays(case.debt)
       /\ Debts!FeesFollowTheContract(case.debt)
       /\ Debts!AcceptedCanBeReckoned(case.debt, 20240101)
       /\ case.debt.prepaid = 0 =>
            \A day \in Days : Debts!NothingIsPaidTwice(case.debt, case.ops, day)
  /\ subject = "card" =>
       /\ \A day \in Days : Debts!CyclesMeet(case.debt.day, day)
       /\ \A owed \in {1, 50, 333, 1000} :
            Debts!MinimalPaymentsAddUp(case.debt, owed, 20240228, 20260131)
  /\ subject = "deposit" =>
       /\ Savings!PayoutOnlyDivides(case)
       /\ \A s, t \in Days : Savings!AccruedIsPaid(case, s, t)
       /\ \A cut \in Days : Savings!TaxedOnce(case, 20240101, cut, 20260101)
       /\ \A day \in Days : Savings!LadderReturns(<<case, [case EXCEPT !.maturity = 20250101]>>, day)
  /\ subject = "tax credit" =>
       Savings!CreditWithinCaps(case.accounts, case.ops, 2024, case.capMonth, case.pdfoYear)
  /\ subject = "pension" =>
       /\ Savings!PensionPaysAll(case.account, case.net, case.until)
       /\ Savings!NavOnTheCurve(case.account, case.ops, 10)

(* Laying out a sum (internal/engine/allocate.go): all of it and no more   *)
(* is laid out, nobody is given what this money may not go to or more than *)
(* he lacks, and no step is missed that the rest could buy.  What there is *)
(* to buy (quotes_pick.go, reinvest.go, decisions.go): a price is asked    *)
(* today at one's own broker, no bond is hidden that could be bought, the  *)
(* order is that of the rows and not of how they were found, a deposit     *)
(* waits for a bond as long as it must, and the journal of decisions tells *)
(* what the list said.                                                     *)
AllocationsAddUp ==
  /\ subject = "allocation" /\ answer # NoAnswer =>
       /\ Routes!NothingSpentTwice(case.amount, answer)
       /\ Routes!PermissionsKept(case.sug, case.allow, answer)
       /\ Routes!MovementsWorthMaking(case.doc, answer)
       /\ \A spread \in {Routes!BudgetsOf(case.doc, case.amount, case.allow)} :
            /\ Routes!NobodyBeyondHisGap(case.doc, case.sug, answer, spread)
            /\ Routes!NoStepMissed(case.doc, case.sug, case.allow, answer, spread)
  /\ subject = "offers" /\ answer # NoAnswer =>
       /\ Shop!PricesAreOnesOwn(case.market, answer.sug, answer.day)
       /\ Shop!HiddenOnlyWhenAsked(case.market, answer.doc, answer.sug, answer.day)
       /\ Shop!OrderIsOfTheRows(answer.rows, answer.sug, case.doc.rank)
       /\ Shop!DepositsWaitForABond(case.market, answer.doc, answer.sug, answer.day)
       /\ Shop!JournalTellsTheList(answer.sug)
  /\ subject = "decisions" => Shop!SummaryAddsUp(Shop!Told(case.sug, case.bought, case.given))
  /\ subject = "permissions" => Routes!TickedIsAllowed(case)
  /\ subject = "split" => Routes!SplitIsFair(case.total, case.weights)

(* The plan of income and the route (state_plan.go, state_month.go,        *)
(* route.go): a flow pays the same months from whatever day it is seen, a  *)
(* share of the month is asked for once, and along the route money only    *)
(* moves, forbidden money stays forbidden and targets are not overshot.    *)
PlansAddUp ==
  /\ subject = "flow" =>
       \A day, other \in Days, m \in -13..13 :
         /\ Routes!SameFromAnyDay(case, day, other, m)
         /\ case.until = Routes!NoDate =>
              \A from \in {20240229, 20240415, 20240531} :
                Routes!HandoverPaysOnce(case, from, 700, day, m)
  /\ subject = "month of the plan" /\ answer # NoAnswer =>
       /\ Routes!LegsReachTheCeiling(case, answer.day, answer.m, answer.parts, answer.plan)
       /\ Routes!LegsKeepTheirSums(case, answer.day, answer.m)
       /\ Routes!MarkGoesWhereItsLegDoes(case, answer.parts)
  /\ subject = "shares of the month" =>
       /\ Routes!ShareNotAskedTwice(case.set, case.reserve, case.plan, case.part)
       /\ Routes!GoalsShareTheCeiling(case.set, case.goals, case.plan)
  /\ subject = "ladder" =>
       \A months \in 1..6 : Routes!LadderIsWhatLasts(case.liquid, case.deposits, 100, months)
  /\ subject = "broker of a fund" => Routes!FundPaysWhereMostWasBought(case)
  /\ subject = "route" /\ answer # NoAnswer =>
       /\ Routes!MoneyOnlyMoves(case.doc, answer)
       /\ Routes!ForbiddenStaysForbidden(case.doc, answer)
       /\ Routes!GapIsTheGap(case.doc, answer, case.debt)
       /\ Routes!RouteStopsAtTarget(case.doc, answer, case.debt)
       /\ Routes!OneLegADay(case.flows, answer, 20250110)
       /\ Routes!LoansAccrueTogether(case.doc)
       /\ Routes!DebtMelts(case.doc, answer, case.plans, case.debt)

(* The capital and its growth (earmark_pool.go, state_flows.go,            *)
(* state_builder.go, state_delta.go): every coin counts in one place, the  *)
(* pools stay covered and do not rewrite the past, a snapshot is worth its *)
(* capital, and growth without new money is what was earned.  Its          *)
(* structure (state_rebalance.go): the kinds account for all of it, what   *)
(* waits for a bond is less than a bond, a target is out of reach only     *)
(* when nothing leads to it, and the shares make a whole.                  *)
CapitalAddsUp ==
  /\ subject = "structure" /\ answer # NoAnswer =>
       /\ Shop!KindsAccountForAll(case, answer)
       /\ Shop!TransitIsOnItsWay(case, answer)
       /\ Shop!OutOfReachMeansNoWayIn(case, answer)
       /\ Shop!ConcentrationAddsUp(case, answer)
  /\ subject = "books" /\ answer # NoAnswer =>
       LET now == answer.on[answer.day]
           then == answer.on[answer.from]
       IN /\ Stock!EveryCoinSomewhere(case, now, Stock!InterestOf(case, Stock!NoDate, answer.day))
          /\ Stock!PoolsHold(case, now, answer.day)
          /\ Stock!PoolsKeepThePast(case, then, now)
          /\ Stock!SnapshotIsTheCapital(case, then, now, answer.day)
          /\ Stock!InvestedIsNewMoney(case, now, answer.day)
          /\ case.received = {} =>
               Stock!DeltaIsEarned(case, then.snapshot, now,
                 Stock!InterestOf(case, answer.from, answer.day)
                   + Stock!BondGain(case, answer.from, answer.day),
                 Stock!RedeemedEarly(case, answer.day)
                   - Stock!ReturnedEarly(case, answer.from, answer.day))

(* The queue of tasks (state_tasks.go): every payout is asked for once,    *)
(* money of the reserve and of the goals is watched without a gap, and a   *)
(* task that has been done is not asked again and raises no other.         *)
TasksAddUp ==
  subject = "queue" /\ answer # NoAnswer =>
    /\ Queue!EveryPayoutAskedOnce(case.src, answer.day)
    /\ Queue!hasPortfolio(case.doc) => Queue!MoneyIsWatched(case.src, case.doc, answer.tasks, answer.day)
    /\ Queue!DoubtsComeFirst(answer.tasks)
    /\ Queue!DoingItIsEnough(case.src, case.doc, answer.tasks, answer.day)

(* Paying debts off (payoff.go, state_debts.go, domain/debt.go): walking   *)
(* forward loses no money and leaves none idle, more money is never worse, *)
(* a plan paid as it stands is walked as its schedule, all documents speak *)
(* of one debt, and spending within the cap gets out of the cards in time. *)
DebtsArePaid ==
  subject = "payoff" /\ answer # NoAnswer =>
    /\ \A with \in Debts!Strategies :
         Debts!WalkAddsUp(answer.page.queue, answer.page.compare[with],
                          IF with = "minimum" THEN 0 ELSE answer.page.extra)
    /\ Debts!ScheduleFollowsTheWalk(answer.page, answer.page.compare[answer.strategy])
    /\ Debts!MoreNeverHurts(answer.page, answer.page.compare[answer.strategy])
    /\ Debts!MissingMoreCostsMore(answer.page)
    /\ \A d \in Debts!Plans(case.books) : Debts!MinimumIsTheSchedule(d, answer.day, 40)
    /\ Debts!OneDebtEverywhere(case.books, answer.doc, answer.page, answer.day)
    /\ \A devaluation \in {0, 30, 50} :
         Debts!CapFollowsTheQueue(Debts!Loaded(case.books, answer.day), answer.page.queue, devaluation, answer.day)
    /\ Debts!AheadMakesTheWhole(Debts!Loaded(case.books, answer.day), case.src, answer.day, 8)
    /\ Debts!CapIsEnough(answer.exit, answer.day)
=============================================================================
