------------------------------- MODULE DebtPlan -------------------------------
(***************************************************************************)
(* Paying debts off: the queue of debts and what a strategy makes of it    *)
(* (internal/payoff/payoff.go, internal/api/handlers_payoff.go), what the  *)
(* document says of debts in a month and of the way out of the cards       *)
(* (internal/engine/state_debts.go, internal/domain/debt.go).  One         *)
(* currency.                                                               *)
(*                                                                         *)
(* books: [debts, marks, ops]; a debt of DebtMath has besides a limit and  *)
(* the yearly rate that its schedule amounts to (0 when there is none).    *)
(***************************************************************************)
EXTENDS DebtMath

----------------------------------------------------------------------------
(* What is owed on a day. *)

Bearing(st) ==
  IF st.nonGrace <= 0 THEN 0 ELSE IF st.debt > 0 THEN Least(st.nonGrace, st.debt) ELSE st.nonGrace
CardDebt(d, marks, ops, today) ==
  IF IsCard(d) THEN Bearing(CardState(d, marks, ops, <<>>, today)) ELSE 0

(* The debts as the document loads them: with what is paid ahead.          *)
Loaded(books, today) ==
  LET ahead(d) == [d EXCEPT !.prepaid = InstallmentPrepaid(d, books.ops, today)]
  IN [books EXCEPT !.debts = [i \in DOMAIN @ |-> ahead(@[i])]]

Ahead(d, today) == SelectSeq(InstallmentSchedule(d), LAMBDA p : p.date >= today)
Open(books) == {d \in Range(books.debts) : ~Closed(d)}
Plans(books) == {d \in Open(books) : ~IsCard(d)}
Cards(books) == {d \in Open(books) : IsCard(d)}
SumOver(f(_), S) == MapThenSumSet(f, S)

(* What bears a cost (DebtPlan.TotalUAH) and all there is (debtOwedUAH).   *)
BalanceOf(books, d, today) ==
  IF IsCard(d) THEN CardDebt(d, books.marks, books.ops, today) ELSE Bodies(Ahead(d, today))
TotalOwed(books, today) == SumOver(LAMBDA d : BalanceOf(books, d, today), Open(books))
debtOwedUAH(books, today) ==
  SumOver(LAMBDA d : IF IsCard(d) THEN Most(0, CardState(d, books.marks, books.ops, <<>>, today).debt)
                     ELSE Bodies(Ahead(d, today)), Open(books))

(* What the cushion must cover: what will be taken, bodies and fees; as a  *)
(* floor of its target only where paying ahead spares nothing.             *)
debtCoverUAH(books, today, lockedOnly) ==
  SumOver(LAMBDA d : IF IsCard(d) THEN CardDebt(d, books.marks, books.ops, today)
                     ELSE Amounts(Ahead(d, today)),
         {d \in Open(books) : ~(lockedOnly /\ DebtPrepayCancels(d))})

(* A debt dearer than the loss in value of money caps the cushion.         *)
DebtRate(d, balance) == IF IsCard(d) /\ balance <= 0 THEN 0 ELSE d.rate
debtCapsReserve(books, devaluation, today) ==
  \E d \in Open(books) :
    /\ DebtPrepayCancels(d)
    /\ \/ IsCard(d) /\ d.exitBy > today
       \/ DebtRate(d, IF IsCard(d) THEN CardState(d, books.marks, books.ops, <<>>, today).nonGrace ELSE 0)
            > devaluation

----------------------------------------------------------------------------
(* The queue (payoff.BuildDebts): by debt what is left, what its months    *)
(* ask for, and whether paying ahead spares anything.                      *)

QueuedCard(d, owed) ==
  [id |-> d.id, card |-> TRUE, rate |-> DebtRate(d, owed), left |-> owed, perMonth |-> 0, feeMonth |-> 0,
   firstMonth |-> 0, feeFreeTo |-> 0, apr |-> d.apr, minBp |-> d.minBp, floor |-> d.floor,
   prepayable |-> DebtPrepayCancels(d)]

(* rows: the payments to come, not empty.                                  *)
QueuedPlan(d, rows, today) ==
  LET month(i) == MonthsBetween(today, rows[i].date)
      charged == {i \in DOMAIN rows : rows[i].fee > 0}
      free == (DOMAIN rows) \ charged
  IN [id |-> d.id, card |-> FALSE, rate |-> d.rate, left |-> Bodies(rows),
      perMonth |-> rows[1].principal,
      feeMonth |-> IF charged = {} THEN 0
                   ELSE rows[CHOOSE i \in charged : \A j \in charged : i <= j].fee,
      firstMonth |-> Most(month(1), 0), feeFreeTo |-> Latest({0} \cup {month(i) + 1 : i \in free}),
      apr |-> 0, minBp |-> 0, floor |-> 0, prepayable |-> DebtPrepayCancels(d)]

PlanQueued(d, rows, today) == IF rows = <<>> THEN <<>> ELSE <<QueuedPlan(d, rows, today)>>
Queued(books, d, today) ==
  IF Closed(d) THEN <<>>
  ELSE IF IsCard(d) THEN <<QueuedCard(d, CardDebt(d, books.marks, books.ops, today))>>
  ELSE PlanQueued(d, Ahead(d, today), today)
QueueOf(books, today) ==
  FoldLeft(LAMBDA queue, d : queue \o SelectSeq(Queued(books, d, today), LAMBDA q : q.left > 0),
           <<>>, books.debts)
BuildDebts(books, today) == QueueOf(Loaded(books, today), today)

(* Order: those worth paying ahead first, then the dearest, or the least.  *)
Precedes(x, y, strategy) ==
  IF x.prepayable # y.prepayable THEN x.prepayable
  ELSE IF strategy = "snowball" THEN x.left < y.left \/ (x.left = y.left /\ x.id < y.id)
  ELSE x.rate > y.rate \/ (x.rate = y.rate /\ x.id < y.id)
Order(live, strategy) ==
  SortSeq([i \in DOMAIN live |-> i], LAMBDA i, j : Precedes(live[i], live[j], strategy))

----------------------------------------------------------------------------
(* The walk forward (payoff.Simulate).  A step is [month, debt, paid,      *)
(* principal, cost, extra].                                                *)

Step(month, d, paid, principal, cost, extra) ==
  [month |-> month, debt |-> d.id, paid |-> paid, principal |-> principal, cost |-> cost, extra |-> extra]

(* [mutant] the fee is taken in the months that are free of it, too *)
mandatoryWithoutGrace(d, month) ==
  LET body == Least(d.perMonth, d.left)
  IN IF month < d.firstMonth THEN [paid |-> 0, principal |-> 0, cost |-> 0, left |-> d.left]
     ELSE [paid |-> body + d.feeMonth, principal |-> body, cost |-> d.feeMonth, left |-> d.left - body]
mandatory(d, month) ==
  LET interest == roundDiv(d.left * d.apr, 120000)
      pay == Least(Most((d.left * d.minBp) \div 10000, d.floor), d.left + interest)
      body == Least(d.perMonth, d.left)
      fee == IF month < d.feeFreeTo THEN 0 ELSE d.feeMonth
  IN IF d.card THEN [paid |-> pay, principal |-> Most(0, pay - interest), cost |-> interest,
                     left |-> Most(0, d.left + interest - pay)]
     ELSE IF month < d.firstMonth THEN [paid |-> 0, principal |-> 0, cost |-> 0, left |-> d.left]
     ELSE [paid |-> body + fee, principal |-> body, cost |-> fee, left |-> d.left - body]

(* [mutant] a month that asks for nothing costs nothing *)
PayDueOrNothing(run, i, month, pay) ==
  LET d == run.live[i]
  IN IF d.left <= 0 \/ pay.paid = 0 THEN run
     ELSE [run EXCEPT !.live[i].left = pay.left,
                      !.steps = Append(@, Step(month, d, pay.paid, pay.principal, pay.cost, 0)),
                      !.closeAt = IF pay.left <= 0 THEN (d.id :> month) @@ @ ELSE @]

(* run: [live, steps, closeAt, pool].  A month is what everybody is owed,  *)
(* then what is left over, to the head of the queue.  The balance has the  *)
(* interest of a month that asks for nothing; no step tells of it.         *)
PayDue(run, i, month, pay) ==
  LET d == run.live[i]
      charged == [run EXCEPT !.live[i].left = pay.left]
  IN IF d.left <= 0 THEN run
     ELSE IF pay.paid = 0 THEN charged
     ELSE [charged EXCEPT !.steps = Append(@, Step(month, d, pay.paid, pay.principal, pay.cost, 0)),
                          !.closeAt = IF pay.left <= 0 THEN (d.id :> month) @@ @ ELSE @]
Owed(run, i, month) == PayDue(run, i, month, mandatory(run.live[i], month))
Prepay(run, i, month) ==
  LET d == run.live[i]
      take == Least(d.left, run.pool)
  IN IF d.left <= 0 \/ run.pool <= 0 \/ ~d.prepayable THEN run
     ELSE [run EXCEPT !.live[i].left = @ - take, !.pool = @ - take,
                      !.steps = Append(@, Step(month, d, take, take, 0, take)),
                      !.closeAt = IF take = d.left THEN (d.id :> month) @@ @ ELSE @]
PayAhead(run, month, strategy) ==
  FoldLeft(LAMBDA r, i : Prepay(r, i, month), run, Order(run.live, strategy))
Month1(run, month, strategy, extra) ==
  PayAhead(FoldLeft(LAMBDA r, i : Owed(r, i, month),
                    [run EXCEPT !.pool = IF strategy = "minimum" THEN 0 ELSE extra],
                    [i \in DOMAIN run.live |-> i]), month, strategy)

RECURSIVE Walk(_, _, _, _, _)
Walk(run, month, strategy, extra, maxMonths) ==
  IF month = maxMonths THEN [run |-> run, months |-> maxMonths, unfunded |-> TRUE]
  ELSE IF \A i \in DOMAIN run.live : run.live[i].left <= 0
    THEN [run |-> run, months |-> month, unfunded |-> FALSE]
  ELSE Walk(Month1(run, month, strategy, extra), month + 1, strategy, extra, maxMonths)

(* maxMonths is 600 in the code.                                           *)
Outcome(end) ==
  LET sum(f(_)) == Total([k \in DOMAIN end.run.steps |-> f(end.run.steps[k])])
  IN [months |-> end.months, unfunded |-> end.unfunded, steps |-> end.run.steps, live |-> end.run.live,
      closeAt |-> end.run.closeAt, paid |-> sum(LAMBDA s : s.paid), cost |-> sum(LAMBDA s : s.cost)]
Simulate(queue, strategy, extra, maxMonths) ==
  Outcome(Walk([live |-> queue, steps |-> <<>>, closeAt |-> <<>>, pool |-> 0], 0, strategy, extra, maxMonths))

Strategies == {"avalanche", "snowball", "minimum"}
(* Sums over what is due by which the page asks how much they spare; they  *)
(* are 1000 and 5000 hryvnias in the code.                                 *)
Steps == {20, 60}

(* By month what is paid and what is left (payoffSchedule).                *)
payoffSchedule(run, total) ==
  LET last == Latest({0} \cup {run.steps[k].month : k \in DOMAIN run.steps})
      until(m) == Total([k \in DOMAIN run.steps |->
                           IF run.steps[k].month <= m THEN run.steps[k].principal ELSE 0])
  IN [m \in 0..last |-> Most(0, total - until(m))]

(* What a statement that is not paid costs, and its minimum.               *)
GraceCost(d, st) ==
  LET of(base, bp) == roundDiv(base * bp, 120000)
      overdue == IF d.aprOverdue <= 0 THEN d.apr ELSE d.aprOverdue
  IN IF ~IsCard(d) \/ st.due <= 0 THEN [full |-> 0, minimum |-> 0]
     ELSE [full |-> of(st.due, d.apr),
           minimum |-> IF d.aprOverdue <= 0 /\ d.lateFee <= 0 THEN 0
                       ELSE d.lateFee + of(Most(st.debt, st.due), overdue)]

----------------------------------------------------------------------------
(* Debts in the document (buildDebtPlan): what the month may pay ahead.    *)
(* plan: what stays on the card in the month and what debts ask for in it. *)

(* Paid this month over what the month asked for.                          *)
PaidExtra(books, today) ==
  LET month == Year(today) * 100 + Month(today)
      due(d) == Amounts(DebtSchedule(d, 0, month * 100 + 1, month * 100 + 31))
      paid(op) == /\ op.kind = "payment" /\ op.date \div 100 = month
                  /\ \E d \in Plans(books) : d.id = op.debt
  IN Most(0, Amounts(SelectSeq(books.ops, paid)) - SumOver(due, Plans(books)))
DebtPlanOf(total, paidExtra, share, base) ==
  LET month == IF share > 0 /\ base > 0 /\ total > 0 THEN Least(roundDiv(base * share, 100), total) ELSE 0
  IN [total |-> total, paidExtra |-> paidExtra, fillMonth |-> month, fillNow |-> Most(0, month - paidExtra)]
buildDebtPlan(books, share, plan, today) ==
  DebtPlanOf(TotalOwed(books, today), PaidExtra(books, today), share, Most(0, plan.onCard - plan.due))

----------------------------------------------------------------------------
(* The way out of the cards (buildDebtExit): how much may be spent a month *)
(* for the cards to be paid by the dates their owner gave.  src is what    *)
(* PlanMath takes for a plan.                                              *)

Plan == INSTANCE PlanMath

lastMarkDate(d, marks, today) ==
  Latest({NoDate} \cup {marks[i].date : i \in {j \in DOMAIN marks : marks[j].debt = d.id /\ marks[j].date <= today}})
monthStart(today, m) == LET ym == MonthAfter(today, m) IN Ymd(ym[1], ym[2], 1)
monthEnd(today, m) == LET ym == MonthAfter(today, m) IN Ymd(ym[1], ym[2], lastDayOfMonth(ym[1], ym[2]))

(* What comes in after a day of month m, and its part for the portfolio.   *)
ComesIn(income, extra) ==
  [gross |-> Plan!Whole(income) + Plan!Whole(extra), invest |-> Plan!Shares(income) + Plan!Shares(extra)]
Incoming(src, today, m, after) ==
  ComesIn(Plan!OfKind(Plan!InMonth(src, today, m, after), "income"),
          Plan!UnplannedFlows(Plan!Unplanned(src, today, m, after)))

cardInstallmentsInMonth(books, today, m, from) ==
  SumOver(LAMBDA d : Amounts(DebtSchedule(d, 0, Most(from, monthStart(today, m)), monthEnd(today, m))),
         {d \in Plans(books) : d.card # None})

ExitRow(books, src, today, m) ==
  Incoming(src, today, m, NoDate)
    @@ [inst |-> cardInstallmentsInMonth(books, today, m, NoDate),
        planned |-> Plan!plannedInMonth(src.expenses, today, m, NoDate, "card")]
OnCard(row) == row.gross - row.invest - row.inst - row.planned

(* Months of 30.44 days; how many days a debt takes at a pace.             *)
CeilDiv(a, b) == -((-a) \div b)
cardExitETA(debt, surplus, from) ==
  IF surplus <= 0 \/ debt <= 0 THEN NoDate ELSE AddDays(from, CeilDiv(debt * 761, surplus * 25))

(* in: [start, now, from, onCard, invest, spend, months, need, exitBy].    *)
CardExit(in, today) ==
  LET start == Most(0, in.start)
      from == IF in.from = NoDate \/ in.from > today THEN today ELSE in.from
      need == IF in.need > 0 THEN in.need ELSE CeilDiv(start, in.months)
      eta(surplus) ==
        LET d == IF start <= 0 THEN cardExitETA(in.now, surplus, today) ELSE cardExitETA(start, surplus, from)
        IN IF d # NoDate THEN Most(d, today) ELSE NoDate
      cap == in.onCard - need
      headroom == in.months * (cap - in.spend)
  IN [need |-> need, spendCap |-> cap, feasible |-> cap > 0, short |-> Most(0, in.spend - cap),
      eta |-> eta(in.onCard - in.spend), withInvestEta |-> eta(in.onCard + in.invest - in.spend),
      headroom |-> headroom, maxDebt |-> Most(0, in.now + headroom)]

(* The balance month by month; nothing when no month pays anything off.    *)
debtExitWalk(rows, debt, spend) ==
  LET pays == [k \in DOMAIN rows |-> Most(0, OnCard(rows[k]) - spend)]
      left(k) == Most(0, debt - Total([i \in 1..k |-> pays[i]]))
      before(k) == \A j \in 1..(k - 1) : left(j) > 0
  IN IF debt <= 0 \/ Total(pays) <= 0 THEN <<>>
     ELSE [k \in {j \in DOMAIN rows : before(j)} |-> left(k)]

(* The debt at the first of the mark's month.                              *)
StartDebt(debt, full, after, spend, mark) ==
  debt + ((full.gross - full.invest) - (after.gross - after.invest)) - (full.inst - after.inst)
       - roundDiv(spend * DayOf(mark), lastDayOfMonth(Year(mark), Month(mark)))

OwedOn(books, d, today) == CardState(d, books.marks, books.ops, books.debts, today).debt
PerMonth(burn) == roundDiv(burn.spent * 761, burn.days * 25)
SpendOf(books, d, declared, today) ==
  LET burn == CardBurnFrom(d, books.marks, books.ops, today)
      mine == Reported(d, books.marks, today)
  IN IF ~burn.known THEN declared
     ELSE PerMonth([spent |-> burn.spent, days |-> DaysBetween(mine[Len(mine) - 1].date, Last(mine).date)])

(* The months of the way out: from the month of the last mark, if more     *)
(* comes in after it, to that of the last date; 24 at most.                *)
NoExit == [months |-> 0]
ExitFrom(src, today, mark) ==
  LET goesOn == mark # NoDate /\ Incoming(src, today, MonthsBetween(today, mark), mark).gross > 0
  IN [goesOn |-> goesOn,
      startM |-> IF mark = NoDate THEN 0 ELSE MonthsBetween(today, mark) + (IF goesOn THEN 0 ELSE 1)]
ExitMonths(today, exitBy, startM) == Least(MonthsBetween(today, exitBy) - startM + 1, 24)

(* What is owed at the start: no more than the limits when all are known.  *)
ExitStart(books, src, today, targets, now, spend, mark, window, first) ==
  LET limits == Total([i \in DOMAIN targets |-> targets[i].limit])
      after == Incoming(src, today, window.startM, mark)
                 @@ [inst |-> cardInstallmentsInMonth(books, today, window.startM, AddDays(mark, 1))]
      counted == StartDebt(now, first, after, spend, mark)
  IN IF ~window.goesOn THEN now
     ELSE IF \A i \in DOMAIN targets : targets[i].limit > 0 THEN Least(counted, limits) ELSE counted

(* What the cards need a month, each by its own date; main is the one that *)
(* owes the most, and what has changed since the mark is its.              *)
ExitNeed(targets, owed, main, change, startM, today) ==
  LET debt(i) == IF i = main THEN Most(0, owed[i] + change) ELSE owed[i]
      own(i) == Most(1, MonthsBetween(today, targets[i].exitBy) - startM + 1)
  IN Total([i \in DOMAIN targets |-> CeilDiv(debt(i), own(i))])

ExitAnswer(targets, owed, now, main, spend, start, mark, exitBy, window, rows, today) ==
  LET mean(f(_)) == roundDiv(Total([k \in DOMAIN rows |-> f(rows[k])]), Len(rows))
      plan == CardExit([start |-> start, now |-> now, from |-> monthStart(today, window.startM),
                        onCard |-> mean(LAMBDA r : r.gross) - mean(LAMBDA r : r.invest)
                                     - mean(LAMBDA r : r.inst) - mean(LAMBDA r : r.planned),
                        invest |-> mean(LAMBDA r : r.invest), spend |-> spend, months |-> Len(rows),
                        need |-> ExitNeed(targets, owed, main, start - now, window.startM, today),
                        exitBy |-> exitBy], today)
  IN plan @@ [months |-> Len(rows), startM |-> window.startM, exitBy |-> exitBy, debtNow |-> now,
              startDebt |-> start, spend |-> spend, mark |-> IF window.goesOn THEN mark ELSE NoDate,
              rows |-> rows, limitLeft |-> Total([i \in DOMAIN targets |-> Most(0, targets[i].limit - owed[i])]),
              schedule |-> debtExitWalk(rows, start, spend)]

ExitOver(books, src, today, targets, owed, now, main, spend, mark, exitBy, window, rows) ==
  ExitAnswer(targets, owed, now, main, spend,
             ExitStart(books, src, today, targets, now, spend, mark, window, rows[1]),
             mark, exitBy, window, rows, today)
ExitWithin(books, src, today, targets, owed, main, spend, mark, exitBy, window) ==
  LET months == ExitMonths(today, exitBy, window.startM)
  IN IF months < 1 THEN NoExit
     ELSE ExitOver(books, src, today, targets, owed, Total(owed), main, spend, mark, exitBy, window,
                   [k \in 1..months |-> ExitRow(books, src, today, window.startM + k - 1)])
ExitOf(books, src, declared, today, targets, owed, mark) ==
  LET n == DOMAIN targets
      main == CHOOSE i \in n : \A j \in n : owed[j] < owed[i] \/ (owed[j] = owed[i] /\ i <= j)
  IN ExitWithin(books, src, today, targets, owed, main, SpendOf(books, targets[main], declared, today), mark,
                Latest({targets[i].exitBy : i \in n}), ExitFrom(src, today, mark))
ExitOfCards(books, src, declared, today, targets) ==
  IF targets = <<>> THEN NoExit
  ELSE ExitOf(books, src, declared, today, targets,
              [i \in DOMAIN targets |-> OwedOn(books, targets[i], today)],
              Latest({lastMarkDate(targets[i], books.marks, today) : i \in DOMAIN targets}))
buildDebtExit(books, src, declared, today) ==
  LET leaving(d) == IsCard(d) /\ ~Closed(d) /\ d.exitBy > today /\ OwedOn(books, d, today) > 0
  IN ExitOfCards(books, src, declared, today, SelectSeq(books.debts, leaving))

(* What a month asks for outside the cards' own cycle: plans of their own, *)
(* and the minimal payments on what bears interest on a card.              *)
debtDueParts(books, today, m) ==
  LET due(d) == Amounts(DebtSchedule(d, CardDebt(d, books.marks, books.ops, today),
                                     monthStart(today, m), monthEnd(today, m)))
  IN [inst |-> SumOver(due, {d \in Plans(books) : d.card = None}), card |-> SumOver(due, Cards(books))]

(* What the route is told of the debts of the months ahead.                *)
debtAhead(books, src, today, months) ==
  [m \in 0..months |->
     [due |-> SumFunction(debtDueParts(books, today, m)),
      inst |-> cardInstallmentsInMonth(books, today, m, NoDate),
      principal |-> SumOver(LAMBDA d : Bodies(DebtSchedule(d, 0, monthStart(today, m), monthEnd(today, m))),
                            Plans(books)),
      cover |-> debtCoverUAH(books, monthStart(today, m), TRUE),
      planned |-> Plan!plannedInMonth(src.expenses, today, m, NoDate, "card")]]

----------------------------------------------------------------------------
(* The page of debts (handlePayoff): asked is the sum over what is due that *)
(* the user has given, -1 for what the month leaves.                        *)
PayoffPage(books, queue, strategy, extra, compare, today, maxMonths) ==
  LET none == \A i \in DOMAIN queue : ~queue[i].prepayable
      asks == queue # <<>> /\ strategy # "minimum" /\ ~compare[strategy].unfunded /\ ~none
      total == Total([i \in DOMAIN queue |-> queue[i].left])
  IN [queue |-> queue, extra |-> extra, total |-> total, order |-> Order(queue, strategy),
      compare |-> compare, schedule |-> payoffSchedule(compare[strategy], total),
      more |-> [step \in IF asks THEN Steps ELSE {} |-> Simulate(queue, strategy, extra + step, maxMonths)],
      grace |-> [d \in Cards(books) |-> GraceCost(d, CardState(d, books.marks, books.ops, books.debts, today))]]
PayoffOf(books, queue, strategy, extra, today, maxMonths) ==
  PayoffPage(books, queue, strategy, extra,
             [with \in Strategies |-> Simulate(queue, with, extra, maxMonths)], today, maxMonths)
handlePayoff(books, doc, strategy, asked, today, maxMonths) ==
  PayoffOf(books, BuildDebts(books, today), strategy, IF asked >= 0 THEN asked ELSE doc.fillNow,
           today, maxMonths)

----------------------------------------------------------------------------
(* Properties. *)

(* Walking forward, a debt changes every month by what the month costs and *)
(* by what is paid.  A step tells of both, except in a month in which a    *)
(* card asks for nothing: a minimum of no part of the debt, or of less     *)
(* than a unit, and no floor.  Its interest is in the balance only.        *)
Balances(d, run) ==
  LET of(m) == SelectSeq(run.steps, LAMBDA s : s.debt = d.id /\ s.month = m)
      sum(rows, f(_)) == Total([k \in DOMAIN rows |-> f(rows[k])])
      silent(left, m) == (\A k \in DOMAIN of(m) : of(m)[k].extra > 0) /\ left > 0
      interest(left, m) == IF silent(left, m) THEN roundDiv(left * d.apr, 120000) ELSE 0
      after[m \in 0..run.months] ==
        IF m = 0 THEN [left |-> d.left, silent |-> 0]
        ELSE LET was == after[m - 1]
                 grown == interest(was.left, m - 1)
             IN [left |-> was.left + grown + sum(of(m - 1), LAMBDA s : s.cost)
                                           - sum(of(m - 1), LAMBDA s : s.paid),
                 silent |-> was.silent + grown]
  IN after

(* Walking forward loses no money but what Balances says: what a debt was, *)
(* and what it cost, is what was paid and what is left; a debt is closed   *)
(* exactly when nothing is left; money over what is due goes to debts that *)
(* it helps and is not idle while one of them is open.                     *)
WalkAddsUp(queue, run, pool) ==
  LET given(m) == Total([k \in DOMAIN run.steps |-> IF run.steps[k].month = m THEN run.steps[k].extra ELSE 0])
      paidOff(i, m) == queue[i].id \in DOMAIN run.closeAt /\ run.closeAt[queue[i].id] <= m
  IN /\ \A i \in DOMAIN queue : \A balance \in {Balances(queue[i], run)} :
          /\ \A m \in DOMAIN balance : balance[m].left >= 0
          /\ run.live[i].left = balance[run.months].left
          /\ balance[run.months].silent > 0 => queue[i].card /\ queue[i].floor = 0
          /\ run.live[i].left = 0 <=> queue[i].id \in DOMAIN run.closeAt
          /\ ~queue[i].prepayable =>
               \A k \in DOMAIN run.steps : run.steps[k].debt = queue[i].id => run.steps[k].extra = 0
     /\ \A m \in 0..(run.months - 1) :
          /\ given(m) <= pool
          /\ given(m) < pool => \A i \in DOMAIN queue : queue[i].prepayable => paidOff(i, m)

(* What the debts were and what the walk says they cost is what was paid   *)
(* and what is left.  It does not hold: see Balances.                      *)
Untold(queue, run) ==
  Total([i \in DOMAIN queue |-> run.live[i].left - queue[i].left]) + run.paid - run.cost
CostIsTold(queue, run) == Untold(queue, run) = 0

(* The balance shown month by month ends where the walk does, when every   *)
(* payment covers the interest of its month and none is left untold.       *)
ScheduleFollowsTheWalk(page, run) ==
  LET growing == \E k \in DOMAIN run.steps : run.steps[k].cost > run.steps[k].paid
  IN run.steps # <<>> /\ ~growing /\ Untold(page.queue, run) = 0 =>
       page.schedule[Latest(DOMAIN page.schedule)] = Total([i \in DOMAIN run.live |-> run.live[i].left])

(* More money over what is due never makes the way longer, nor dearer when *)
(* one debt takes it.                                                      *)
MoreNeverHurts(page, run) ==
  LET one == Cardinality({i \in DOMAIN page.queue : page.queue[i].prepayable}) <= 1
  IN \A step \in DOMAIN page.more :
       LET b == page.more[step]
       IN ~b.unfunded /\ b.months <= run.months /\ (one => b.cost <= run.cost)

(* The same of the cost whoever takes the money.  It does not hold: money  *)
(* to the debt of the higher rate may delay the end of another's fees.     *)
MoreNeverCosts(page, run) == \A step \in DOMAIN page.more : page.more[step].cost <= run.cost

(* What the comment at the strategies says: the avalanche is the cheapest, *)
(* always.                                                                 *)
AvalancheIsCheapest(page) == page.compare["avalanche"].cost <= page.compare["snowball"].cost

(* A plan that is paid as it stands is walked as its schedule: the same    *)
(* money, month by month, when its payments are equal and none is past.    *)
MinimumIsTheSchedule(d, today, maxMonths) ==
  \A rows \in {Ahead(d, today)},
     run \in {Simulate(BuildDebts([debts |-> <<d>>, marks |-> <<>>, ops |-> <<>>], today), "minimum", 0, maxMonths)} :
     rows # <<>> /\ d.principal % d.n = 0 /\ today <= d.first /\ d.prepaid = 0 =>
       /\ [k \in DOMAIN rows |-> [month |-> MonthsBetween(today, rows[k].date), paid |-> rows[k].amount]]
            = [k \in DOMAIN run.steps |-> [month |-> run.steps[k].month, paid |-> run.steps[k].paid]]

(* The same for any plan.  It does not hold: the body of the first payment *)
(* is taken every month, so that what division leaves takes one month, and *)
(* one fee, more.                                                          *)
MinimumIsTheScheduleAlways(d, today, maxMonths) ==
  \A run \in {Simulate(BuildDebts([debts |-> <<d>>, marks |-> <<>>, ops |-> <<>>], today), "minimum", 0, maxMonths)} :
    today <= d.first /\ d.prepaid = 0 => run.paid = Amounts(Ahead(d, today))

(* The page of debts, the document and the cushion speak of one debt, and  *)
(* a payment over what is due takes off the debt what it was.              *)
OneDebtEverywhere(books, doc, page, today) ==
  \A loaded \in {Loaded(books, today)} :
     /\ page.total = doc.total
     /\ (\A d \in Cards(loaded) : CardDebt(d, loaded.marks, loaded.ops, today) > 0 =>
                                     OwedOn(loaded, d, today) > 0) =>
          doc.total <= debtOwedUAH(loaded, today)
     /\ debtCoverUAH(loaded, today, TRUE) <= debtCoverUAH(loaded, today, FALSE)
     /\ doc.fillNow <= doc.fillMonth /\ doc.fillMonth <= doc.total
     /\ \A i \in DOMAIN loaded.debts :
          ~IsCard(loaded.debts[i]) =>
             Bodies(Ahead(books.debts[i], today)) - Bodies(Ahead(loaded.debts[i], today))
               = Least(loaded.debts[i].prepaid, Bodies(Ahead(books.debts[i], today)))

(* The cushion is cut while somewhere in the queue money has a better use: *)
(* a debt dearer than the loss in value of money that paying ahead makes   *)
(* cheaper, and only then -- but for a card that is being left and a plan  *)
(* that is paid and not closed.                                            *)
CapFollowsTheQueue(books, queue, devaluation, today) ==
  LET dear == \E i \in DOMAIN queue : queue[i].prepayable /\ queue[i].rate > devaluation
      left == \E d \in Cards(books) : d.exitBy > today /\ DebtPrepayCancels(d)
      paid == \E d \in Plans(books) :
                Bodies(Ahead(d, today)) = 0 /\ DebtPrepayCancels(d) /\ d.rate > devaluation
  IN \A caps \in {debtCapsReserve(books, devaluation, today)} :
       /\ dear => caps
       /\ caps /\ ~left /\ ~paid => dear

(* Missing the minimum is never told to be cheaper than missing the        *)
(* statement, where the contract's terms for it are known.                 *)
MissingMoreCostsMore(page) ==
  \A d \in DOMAIN page.grace :
    LET cost == page.grace[d]
    IN cost.minimum > 0 /\ (d.aprOverdue = 0 \/ d.aprOverdue >= d.apr) => cost.minimum >= cost.full

(* What the months ahead ask for comes to what is left: the bodies of the  *)
(* months make up what the plans owe, and what must be covered falls.      *)
AheadMakesTheWhole(books, src, today, months) ==
  LET rows == UNION {Range(Ahead(d, monthStart(today, 0))) : d \in Plans(books)}
  IN \A ahead \in {debtAhead(books, src, today, months)} :
     /\ (\A p \in rows : MonthsBetween(today, p.date) <= months) =>
           Total([m \in 1..(months + 1) |-> ahead[m - 1].principal])
             = SumOver(LAMBDA d : Bodies(Ahead(d, monthStart(today, 0))), Plans(books))
     /\ (\A d \in Cards(books) : \A i \in DOMAIN books.ops : books.ops[i].debt # d.id) =>
           \A m \in 1..months : ahead[m].cover <= ahead[m - 1].cover
                                \/ \E d \in Cards(books), i \in DOMAIN books.marks :
                                     books.marks[i].debt = d.id /\ books.marks[i].date > monthStart(today, m - 1)

(* Spending within the cap is enough: the balance month by month comes to  *)
(* nothing by the last month (up to the rounding of the mean month), and   *)
(* the day it is told by lies no later than a month after.                 *)
CapIsEnough(exit, today) ==
  exit # NoExit /\ exit.short = 0 =>
    LET last == Latest(DOMAIN exit.schedule)
        end == monthEnd(today, exit.startM + exit.months - 1)
    IN /\ exit.startDebt > 0 /\ exit.months < 24 =>
            exit.schedule # <<>> /\ exit.schedule[last] <= 2 * exit.months
       /\ exit.months < 24 => exit.eta # NoDate /\ exit.eta <= AddDays(end, 32)
       /\ exit.maxDebt >= exit.debtNow

(* The other way round: who is short does not see the balance come to      *)
(* nothing.  It does not hold: a month that pays nothing off counts as no  *)
(* change, though it adds to the debt what it lacks.                       *)
ShortIsNeverOut(exit) ==
  exit # NoExit /\ exit.short > 0 /\ exit.schedule # <<>> =>
    exit.schedule[Latest(DOMAIN exit.schedule)] > 0
=============================================================================
