-------------------------------- MODULE Tasks --------------------------------
(***************************************************************************)
(* The queue of tasks (internal/engine/state_tasks.go, the receipts that   *)
(* are waited for in plan_timeline.go): what the owner is asked to do on a *)
(* day.  A task is [id, sev, rank, amount], its id the kind of the task    *)
(* and what it is about; wording, links and the account it opens are left  *)
(* out.                                                                    *)
(*                                                                         *)
(* src: the books of Capital, with debts, their marks and operations,      *)
(* plan flows, receipts and expenses, windows of funds by their last day,  *)
(* pension accounts, and when the service last did its work.  doc: what    *)
(* other parts of the document say of the reserve, the goals, the limits,  *)
(* the shares of currencies and the way out of the cards.                  *)
(***************************************************************************)
EXTENDS Capital

LOCAL Papers == INSTANCE Holdings
LOCAL Funds == INSTANCE FundMath
LOCAL Debts == INSTANCE DebtMath
LOCAL Plans == INSTANCE PlanMath

taskSoonDays == 30
fxStaleDays == 4
backupStaleDays == 2
taskPastDays == 90
nbuStaleDays == 3
cardMarkStaleDays == 14
FundPriceStaleDays == 45

Task(kind, of, sev, rank, amount) ==
  [id |-> <<kind, of>>, sev |-> sev, rank |-> rank, amount |-> amount]
TaskIf(test, kind, of, sev, rank, amount) ==
  IF test THEN {Task(kind, of, sev, rank, amount)} ELSE {}

Age(since, today) == IF since = NoDate THEN 0 ELSE DaysBetween(since, today)

----------------------------------------------------------------------------
(* Payouts: of papers and of deposits, on a day. *)

PayoutsFrom(src, from) ==
  {[isin |-> p.isin, date |-> p.date, type |-> p.type, amount |-> p.amount] :
     p \in Papers!FuturePayments(src.payments, src.lots, src.sales, from)}
  \cup UNION {{[isin |-> d.isin, date |-> cf.date, type |-> cf.type, amount |-> cf.amount] :
                 cf \in Range(DepositSchedule(d, from))} : d \in Range(src.deposits)}
Answered(src, p) == <<p.isin, p.date>> \in src.received

arrivedToday(src, today) ==
  {p \in PayoutsFrom(src, today) : p.date = today /\ ~Answered(src, p)}

(* [mutant] what comes today is reckoned among the past as well *)
unconfirmedToday(src, today) ==
  {p \in PayoutsFrom(src, AddDays(today, -taskPastDays)) : p.date <= today /\ ~Answered(src, p)}
unconfirmed(src, today) ==
  {p \in PayoutsFrom(src, AddDays(today, -taskPastDays)) : p.date < today /\ ~Answered(src, p)}

CountTask(late) == TaskIf(late # {}, "pay-confirm", None, "now", 40, Cardinality(late))
SumTask(come) == TaskIf(come # {}, "route-arrived", None, "now", 45, SumOver(LAMBDA p : p.amount, come))
unconfirmedTask(src, today) == CountTask(unconfirmed(src, today))
arrivedTodayTask(src, today) == SumTask(arrivedToday(src, today))

----------------------------------------------------------------------------
(* The plan: incomes of this month that are due and not entered, expenses  *)
(* that are overdue. *)

ExpectedReceipts(src, today, m) ==
  {[flow |-> f.id, date |-> Plans!receiptDueDate(Plans!MonthKeyAt(today, m), DayOf(f.from)),
    received |-> Plans!Marked(src.receipts, f, today, m)] :
     f \in {g \in Range(src.flows) :
              g.kind = "income" /\ Plans!planFlowAtMonth(Plans!Gross(g), today, m, {}) # 0}}
receiptTask(src, today) ==
  TaskIf(\E e \in ExpectedReceipts(src, today, 0) : e.date <= today /\ ~e.received,
         "receipt", None, "now", 50, 0)

Overdue(e, today) == e.paid = NoDate /\ e.due < today
overduePlannedTask(src, today) ==
  LET late == {i \in DOMAIN src.expenses : Overdue(src.expenses[i], today)}
  IN TaskIf(late # {}, "planned-overdue", None, "now", 51, AmountsOf(src.expenses, late))

----------------------------------------------------------------------------
(* Deposits that are about to end, and money that has come back from those *)
(* of the reserve and of the goals. *)

(* [mutant] the day of the maturity is not asked about *)
EndsSoonBefore(d, today) == Active(d, today) /\ d.maturity \in (today + 1)..AddMonths(today, 1)
EndsSoon(d, today) == Active(d, today) /\ d.maturity <= AddMonths(today, 1)

RungTask(kind, rank, d) == Task(kind, d.isin, "soon", rank, BalanceAt(d, d.maturity))
reserveRungs(src, doc, today) ==
  {RungTask("reserve-rung", 11, d) :
     d \in {x \in Range(src.deposits) : EndsSoon(x, today) /\ doc.reserve /\ x.reserve}}
goalRungs(src, today) ==
  {RungTask("goal-rung", 12, d) :
     d \in {x \in Range(src.deposits) : EndsSoon(x, today) /\ x.goal \in src.goals}}

maturingDepositTask(src, today) ==
  LET days(d) == DaysBetween(today, d.maturity)
  IN TaskIf(\E d \in Range(src.deposits) :
              d.closed = NoDate /\ ~Earmarked(d) /\ days(d) \in 0..taskSoonDays,
            "dep-maturing", None, "soon", 10, 0)

LyingRecently(pools, k, today) ==
  pools.left[k] > 0 /\ DaysBetween(pools.lastIn[k], today) <= taskSoonDays
maturedTasks(pools, today) ==
  {Task("earmark-matured", k, "soon", 30, pools.left[k]) :
     k \in {x \in DOMAIN pools.left : LyingRecently(pools, x, today)}}

----------------------------------------------------------------------------
(* Cards: their state on the day, and the way out of all of them, which is *)
(* asked for with the first. *)

CardKnown(src, card, today) == Debts!Reported(card, src.marks, today) # <<>>
CardMarkAge(src, card, today) == DaysBetween(Last(Debts!Reported(card, src.marks, today)).date, today)
StatusOf(src, card, today) == Debts!CardState(card, src.marks, src.ops, src.debts, today)

(* [mutant] only the minimal payment is asked for *)
CardDueMinimum(st, card, today) ==
  TaskIf(st.due > 0 /\ DaysBetween(today, st.dueDate) <= taskSoonDays, "card-due", card.id,
         IF DaysBetween(today, st.dueDate) <= 7 THEN "now" ELSE "soon", 1, st.minDue)
CardDue(st, card, today) ==
  TaskIf(st.due > 0 /\ DaysBetween(today, st.dueDate) <= taskSoonDays, "card-due", card.id,
         IF DaysBetween(today, st.dueDate) <= 7 THEN "now" ELSE "soon", 1, st.bringByDue)
CardOverspend(st, card) == TaskIf(st.free < 0, "card-overspend", card.id, "now", 2, -st.free)

MoneyOf(st, card, today) == CardDue(st, card, today) \cup CardOverspend(st, card)
cardTasksOf(src, doc, card, today) ==
  IF ~CardKnown(src, card, today) THEN {Task("card-mark", card.id, "now", 1, 0)}
     ELSE MoneyOf(StatusOf(src, card, today), card, today)
          \cup TaskIf(doc.exit.first = card.id /\ doc.exit.short > 0, "card-exit", card.id, "now", 2,
                      doc.exit.short)
          \cup TaskIf(CardMarkAge(src, card, today) > cardMarkStaleDays, "card-mark-stale", card.id,
                      "watch", 20, 0)
cardTasks(src, doc, today) ==
  UNION {cardTasksOf(src, doc, c, today) :
           c \in {d \in Range(src.debts) : Debts!IsCard(d) /\ ~Debts!Closed(d)}}

----------------------------------------------------------------------------
(* Limits and shares; the age of what the program knows. *)

waitingTask(doc) ==
  TaskIf(doc.best > 0 /\ doc.uninvested >= doc.best, "buy-best", None, "now", 20, doc.uninvested)

overLimits(doc) == {c \in doc.limits : c.over > 0}
rebalanceTask(doc) ==
  LET low == {r \in doc.shares : r.unit > 0 /\ r.deficit >= r.unit}
      worst == CHOOSE r \in low : \A q \in low : q.deficit <= r.deficit
  IN IF low = {} THEN {} ELSE {Task("rebalance", worst.currency, "watch", 12, worst.deficit)}

npfTasks(src, today) ==
  {Task("npf-due", a.id, "now", 30, 0) : a \in {x \in src.npf : NPFContribDue(x, src.npfOps, today)}}

(* A fund whose certificates are held at a price entered long ago.         *)
PriceStale(pos, today) ==
  pos.qty > 0 /\ pos.priced # NoDate /\ DaysBetween(pos.priced, today) > FundPriceStaleDays
StalePrices(pos, today) == {f \in DOMAIN pos : PriceStale(pos[f], today)}
staleFunds(src, today) ==
  {Task("fund-price-stale", f, "watch", 25, 0) :
     f \in StalePrices(Funds!FundPositions(src.fundOps, src.fundMarks), today)}
fundWindowTask(src, today) ==
  TaskIf(\E day \in src.windows : DaysBetween(today, day) \in 0..taskSoonDays,
         "fund-window", None, "soon", 20, 0)

serviceTasks(src, today) ==
  TaskIf(Age(src.nbuAt, today) >= nbuStaleDays, "nbu", None, "watch", 20, 0)
  \cup TaskIf(src.nbuSkipped, "nbu-skip", None, "watch", 21, 0)
  \cup TaskIf(Age(src.ratesAt, today) >= fxStaleDays, "fx-stale", None, "watch", 19, 0)
  \cup TaskIf(src.corrupt, "db-integrity", None, "now", 1, 0)
  \cup TaskIf(Age(src.backupAt, today) >= backupStaleDays, "backup-stale", None, "watch", 18, 0)

----------------------------------------------------------------------------
(* The queue. *)

loanTasks(doc) == {Task("reserve-loan", l.id, "now", 10, l.owed) : l \in {x \in doc.loans : x.overdue}}
goalTasks(doc) == {Task("goal-fill", g.id, "now", 12, g.fillNow) : g \in {x \in doc.goals : ~x.done /\ x.fillNow > 0}}
fillTasks(doc) ==
  TaskIf(doc.fillNow > 0, "reserve-fill", None, "now", 10, doc.fillNow) \cup loanTasks(doc) \cup goalTasks(doc)

moneyTasks(src, doc, pools, today) ==
  unconfirmedTask(src, today) \cup arrivedTodayTask(src, today) \cup receiptTask(src, today)
    \cup overduePlannedTask(src, today) \cup reserveRungs(src, doc, today)
    \cup goalRungs(src, today) \cup maturingDepositTask(src, today) \cup maturedTasks(pools, today) \cup npfTasks(src, today)
watchTasks(src, doc, today) ==
  TaskIf(overLimits(doc) # {}, "conc", None, "watch", 10, 0) \cup rebalanceTask(doc)
    \cup staleFunds(src, today) \cup fundWindowTask(src, today) \cup serviceTasks(src, today)

hasPortfolio(doc) ==
  doc.nominal > 0 \/ doc.fundsTotal > 0 \/ doc.deposits > 0 \/ doc.reserveTotal > 0 \/ doc.goalsTotal > 0
  \/ doc.debt

buildTasks(src, doc, today) ==
  IF ~hasPortfolio(doc) THEN {Task("start", None, "now", 0, 0)}
  ELSE cardTasks(src, doc, today) \cup fillTasks(doc) \cup waitingTask(doc)
       \cup moneyTasks(src, doc, buildEarmarkPools(src, today), today) \cup watchTasks(src, doc, today)

Urgency(sev) == CASE sev = "now" -> 0 [] sev = "soon" -> 1 [] OTHER -> 2
(* sortTasks: t stands before u.                                           *)
StandsBefore(t, u) ==
  Urgency(t.sev) < Urgency(u.sev) \/ (t.sev = u.sev /\ t.rank < u.rank)

----------------------------------------------------------------------------
(* Properties. *)

(* Every payout of the last ninety days that nobody has marked is asked    *)
(* for by one of the two tasks and by one only -- that of today on its     *)
(* day, that of the past afterwards -- deposits that have ended since      *)
(* included, and nothing else is asked for.                                *)
EveryPayoutAskedOnce(src, today) ==
  \A come \in {arrivedToday(src, today)}, late \in {unconfirmed(src, today)} :
    /\ come \cup late = {p \in PayoutsFrom(src, NoDate) :
                          p.date \in AddDays(today, -taskPastDays)..today /\ ~Answered(src, p)}
    /\ come \cap late = {}

Asked(tasks, kind, of) == \E t \in tasks : t.id = <<kind, of>>

(* Money put by for the reserve or a goal is watched without a gap: a      *)
(* month ahead of the maturity by the task of its rung, the day of the     *)
(* maturity included, and from the next day on by that of its pool, a      *)
(* month long or until a new deposit has taken all of it.                  *)
MoneyIsWatched(src, doc, tasks, today) ==
  \A d \in {x \in Range(src.deposits) : x.closed = NoDate /\ (x.reserve \/ x.goal \in src.goals)},
     left \in {buildEarmarkPools(src, today).left} :
    LET days == DaysBetween(today, d.maturity)
    IN /\ days \in 0..28 => Asked(tasks, IF d.reserve THEN "reserve-rung" ELSE "goal-rung", d.isin)
       /\ -days \in 1..taskSoonDays /\ left[earmarkKeyOf(d)] > 0 =>
            /\ Asked(tasks, "earmark-matured", earmarkKeyOf(d))
            /\ \A t \in tasks : t.id = <<"earmark-matured", earmarkKeyOf(d)>> => t.amount = left[earmarkKeyOf(d)]

(* No task that names a sum stands before what puts the sums in doubt: a   *)
(* damaged database, and a card whose balance nobody has told.             *)
DoubtsComeFirst(tasks) ==
  \A t \in tasks, u \in tasks :
    t.id[1] \in {"db-integrity", "card-mark"} /\ u.amount > 0 => ~StandsBefore(u, t)

(* What the owner can do about the tasks: the sources as he leaves them,   *)
(* the tasks this answers, and the kinds of those it may raise.            *)
Done(src, tasks, kinds, raises) ==
  [src |-> src, gone |-> {t \in tasks : t.id[1] \in kinds}, raises |-> raises]

Confirm(src, tasks, today) ==
  LET asked == arrivedToday(src, today) \cup unconfirmed(src, today)
  IN Done([src EXCEPT !.received = @ \cup {<<p.isin, p.date>> : p \in asked}], tasks,
          {"pay-confirm", "route-arrived"}, {"earmark-matured"})
Enter(src, tasks, today) ==
  LET due == {e \in ExpectedReceipts(src, today, 0) : e.date <= today /\ ~e.received}
  IN Done([src EXCEPT !.receipts = @ \cup
             {[flow |-> e.flow, month |-> Plans!MonthKeyAt(today, 0), amount |-> 1, invest |-> 100,
               uses |-> {}] : e \in due}], tasks, {"receipt"}, {})
PayExpenses(src, tasks, today) ==
  Done([src EXCEPT !.expenses = [i \in DOMAIN @ |->
          IF Overdue(@[i], today) THEN [@[i] EXCEPT !.paid = today] ELSE @[i]]],
       tasks, {"planned-overdue"}, {})
Contribute(src, tasks, today) ==
  LET op(a) == [id |-> 99, npf |-> a.id, date |-> today, units |-> 1, amount |-> 10]
      due == {a \in src.npf : NPFContribDue(a, src.npfOps, today)}
  IN {Done([src EXCEPT !.npfOps = Append(@, op(a))], {t \in tasks : t.id = <<"npf-due", a.id>>}, {"npf-due"}, {}) :
        a \in due}
(* The deposit asked about is placed anew for a year; an id from the pool. *)
RollOver(src, tasks, today) ==
  LET next(t) == [id |-> 99, isin |-> "new", bank |-> t.id[2][2], reserve |-> t.id[2][1] = None,
                  goal |-> t.id[2][1], principal |-> t.amount, rate |-> 1300, open |-> today,
                  maturity |-> AddMonths(today, 12), payout |-> "end", capitalized |-> FALSE,
                  tax |-> -1, closed |-> NoDate, closedAmount |-> 0, topups |-> <<>>]
  IN {Done([src EXCEPT !.deposits = Append(@, next(t))], {t}, {"earmark-matured"}, {}) :
        t \in {x \in tasks : x.id[1] = "earmark-matured"}}

(* A payment counts after the day of the mark; what a card asks for        *)
(* besides the statement, parts of instalments, goes into the next one.    *)
Payable(src, card, today) ==
  /\ CardKnown(src, card, today) /\ CardMarkAge(src, card, today) > 0
  /\ \A st \in {StatusOf(src, card, today)} :
       st.bringByDue = st.due /\ (st.installmentDue = 0 \/ st.balance + st.due >= 0)
PayCard(src, tasks, card, today) ==
  LET paid(t) == [debt |-> card.id, kind |-> "payment", date |-> today, amount |-> t.amount]
      mine == {t \in tasks : t.id \in {<<"card-due", card.id>>, <<"card-overspend", card.id>>}}
  IN {Done([src EXCEPT !.ops = Append(@, paid(t))], {t}, {"card-due", "card-overspend"}, {}) : t \in mine}
MarkFrom(st, card, today) ==
  [debt |-> card.id, date |-> today, balance |-> st.balance, due |-> st.due, nonGrace |-> st.nonGrace]
Reconcile(src, tasks, card, today) ==
  LET mine == {t \in tasks : t.id \in {<<"card-mark", card.id>>, <<"card-mark-stale", card.id>>}}
  IN Done([src EXCEPT !.marks = Append(@, MarkFrom(StatusOf(src, card, today), card, today))],
          mine, {"card-mark", "card-mark-stale"},
          IF CardKnown(src, card, today) THEN {} ELSE {"card-due", "card-overspend", "card-exit"})

AnswersOf(src, tasks, today) ==
  LET cards == {d \in Range(src.debts) : Debts!IsCard(d) /\ ~Debts!Closed(d)}
  IN {Confirm(src, tasks, today), Enter(src, tasks, today), PayExpenses(src, tasks, today)}
     \cup Contribute(src, tasks, today) \cup RollOver(src, tasks, today)
     \cup UNION {PayCard(src, tasks, c, today) : c \in {x \in cards : Payable(src, x, today)}}
     \cup {Reconcile(src, tasks, c, today) : c \in cards}

(* A task goes when what it asks for is done, in the amount it names, and  *)
(* doing it raises no other -- but that a payout of the reserve's or a     *)
(* goal's deposit, once marked, lies in its pool and is asked about there, *)
(* and that a card's first mark tells what there is to be paid.            *)
DoingItIsEnough(src, doc, tasks, today) ==
  \A a \in AnswersOf(src, tasks, today) :
    \A id \in {t.id : t \in buildTasks(a.src, doc, today)} :
      /\ id \notin {t.id : t \in a.gone}
      /\ (\E t \in tasks : t.id = id) \/ id[1] \in a.raises

(* Violated by a card whose own money covers an open statement, whose task *)
(* asks for nothing and stays (the condition is on the statement, not on   *)
(* what is to be brought), and by one in debt with instalments to pay.     *)
AmountsAreEnough(src, tasks, card, today) ==
  CardKnown(src, card, today) /\ CardMarkAge(src, card, today) > 0 => \A a \in PayCard(src, tasks, card, today) :
    \A t \in a.gone : t.amount > 0 /\ t \notin cardTasks(a.src, [exit |-> [first |-> None]], today)

(* Violated by an account whose day of contribution is the 31st, which the *)
(* store accepts: no month of thirty days asks for it (domain/npf.go:370   *)
(* speaks of the contribution of every month).                             *)
EveryMonthAsked(a, ops, today) ==
  a.contribDay > 0 /\ ops = <<>> /\ today = DateOnDay(Year(today), Month(today), 31) =>
    NPFContribDue(a, ops, today)
=============================================================================
