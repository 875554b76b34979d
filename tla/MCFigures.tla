----------------------------- MODULE MCFigures -----------------------------
EXTENDS Figures, TLC

MCDays == {20240131, 20240229, 20240301, 20240831, 20240901, 20250228}

----------------------------------------------------------------------------
(* Funds: three free operations of one fund; a purchase, a conversion into *)
(* another fund and a sale of both. *)

Jan(n) == 20240100 + n
FundOp(id, date, fund, kind, qty, amount, tax, pair) ==
  [id |-> id, date |-> date, fund |-> fund, kind |-> kind, qty |-> qty, amount |-> amount,
   tax |-> tax, pair |-> pair]
Deals == {<<"buy", 3, 100>>, <<"buy", 7, 160>>, <<"sell", 2, 90>>, <<"sell", 5, 130>>,
          <<"sell", 10, 300>>, <<"sell", 3, 100>>, <<"div", 0, 10>>}
FreeJournals ==
  {[i \in 1..3 |-> FundOp(i, Jan(days[i]), "A", d[i][1], d[i][2], d[i][3],
                          IF d[i][1] = "buy" THEN 0 ELSE 3, 0)] :
     d \in [1..3 -> Deals], days \in {<<1, 2, 3>>, <<1, 1, 1>>}}
Conversions ==
  {<<FundOp(1, Jan(1), "A", "buy", 10, 1003, 0, 0), FundOp(2, Jan(2), "A", "sell", q, a, 0, 3),
     FundOp(3, Jan(d), "B", "buy", r, a, 0, 2), FundOp(4, Jan(5), "B", "sell", r, 700, 7, 0),
     FundOp(5, Jan(6), "A", k, 10 - q, 600, 5, 0)>> :
     q \in {3, 7}, a \in {301, 650}, d \in {1, 2, 3}, r \in {4, 9}, k \in {"sell", "buy"}}
PriceMarks == {{}} \cup {{[fund |-> "A", date |-> Jan(d), price |-> 1234]} : d \in {2, 9}}
Payouts ==
  {[gross |-> g, p |-> [Funds!NoPosition EXCEPT !.qty = 300, !.price = price],
    payDay |-> day, from |-> from] :
     g \in {1, 2, 7, 60}, price \in {99, 101, 333, 1112}, day \in {1, 29, 31},
     from \in {20240131, 20240228, 20241231, 20240831}}

----------------------------------------------------------------------------
(* Bonds: two papers of the directory and one it does not know. *)

Bonds == {[isin |-> "a", nominal |-> 10, maturity |-> 20250301],
          [isin |-> "b", nominal |-> 7, maturity |-> 20241015]}
Coupon(isin, date, per) == [isin |-> isin, date |-> date, type |-> "coupon", per |-> per]
Payments ==
  {Coupon("a", 20240301, 3), Coupon("a", 20240901, 8), Coupon("a", 20250301, 8),
   Coupon("b", 20241015, 5),
   [isin |-> "a", date |-> 20250301, type |-> "redemption", per |-> 10],
   [isin |-> "b", date |-> 20241015, type |-> "redemption", per |-> 7]}
Lot(id, isin, qty, price, fee, buy) ==
  [id |-> id, isin |-> isin, qty |-> qty, price |-> price, fee |-> fee, buy |-> buy]
Lots == {{Lot(1, i, q, 9, f, d), Lot(2, j, 2, 8, 0, 20240301)} :
           i \in {"a", "b", "c"}, q \in {1, 3}, f \in {0, 5},
           d \in {20240110, 20240301, 20240831}, j \in {"a", "c"}}
Sale(id, date, qty) == [id |-> id, lot |-> 1, date |-> date, qty |-> qty, clean |-> 9, accrued |-> 1]
Sales == {{}} \cup {{Sale(1, d, q)} : d \in {20240901, 20241015}, q \in {1, 3}}
              \cup {{Sale(1, 20240901, 1), Sale(2, d, 1)} : d \in {20240902, 20250301}}
PaperCases ==
  {[bonds |-> Bonds, payments |-> Payments, lots |-> l, sales |-> s, received |-> r] :
     l \in Lots, s \in Sales, r \in {{}, {<<"a", 20250301>>}}}
SoundPaperCases ==
  {c \in PaperCases : \A l \in c.lots : Papers!Quantity(Papers!OfLot(c.sales, l)) <= l.qty}
AccruedCases == {[payments |-> Payments, from |-> d, to |-> e] : d, e \in MCDays \cup {20240110}}
Repays == {[date |-> d, amount |-> a] : d \in {20240110, 20240229, 20240601}, a \in {10, 500}}
LoanCases == {[principal |-> p, rate |-> r, taken |-> 20240101, repays |-> <<a, b>>, asOf |-> t] :
                p \in {333, 1000}, r \in {0, 1500}, a, b \in Repays, t \in {20240110, 20240831}}
Flows == {[date |-> d, amount |-> a] : d \in {1, 2, 3}, a \in {-3, -1, 2, 5}}
IdleCases == {[events |-> <<a, b, c>>] : a, b, c \in Flows}

----------------------------------------------------------------------------
(* Debts. *)

Plan(n, principal, first, feeBp, free, onPrepay, prepaid) ==
  [id |-> 1, kind |-> "installment", card |-> 0, day |-> 0, apr |-> 0, minBp |-> 0, floor |-> 0,
   closed |-> 0, exitBy |-> 0, n |-> n, principal |-> principal, first |-> first,
   feeBp |-> feeBp, free |-> free, onPrepay |-> onPrepay, prepaid |-> prepaid]
Plans == {Plan(n, p, first, fee, free, on, ahead) :
            n \in 1..3, p \in {3, 7, 100}, first \in {20240131, 20241230}, fee \in {0, 199, 5000},
            free \in 0..1, on \in {"", "cancel", "keep"}, ahead \in {0, 1, 40, 101}}
Paid == {<<>>, <<[debt |-> 1, kind |-> "payment", date |-> 20240131, amount |-> 3]>>,
         <<[debt |-> 1, kind |-> "payment", date |-> 20240215, amount |-> 50]>>}
PlanCases == {[debt |-> d, ops |-> ops] : d \in Plans, ops \in Paid}
Card(day) == [Plan(0, 0, 0, 0, 0, "", 0) EXCEPT !.kind = "card", !.apr = 4788, !.minBp = 500,
                                               !.floor = 2, !.day = day]
CardMark(date, balance, due) ==
  [debt |-> 1, date |-> date, balance |-> balance, due |-> due, nonGrace |-> 0]
CardOp(date, kind, amount) == [debt |-> 1, date |-> date, kind |-> kind, amount |-> amount]
MarkCases ==
  {[debt |-> Card(31), ops |-> <<CardOp(20240201, k, a), CardOp(20240210, j, b)>>,
    marks |-> <<CardMark(20240130, b1, u), CardMark(d, b2, 0), CardMark(20240225, -30, 30)>>] :
     k, j \in {"payment", "draw", "cash"}, a, b \in {30, 120}, b1, b2 \in {-100, 20},
     u \in {0, 50}, d \in {20240131, 20240210}}

----------------------------------------------------------------------------
(* Deposits and pension accounts. *)

Topups == {<<>>, <<[date |-> 20240315, amount |-> 1500]>>,
           <<[date |-> 20240229, amount |-> 330], [date |-> 20240731, amount |-> 10]>>}
Open ==
  {[principal |-> 1900, rate |-> 1300, open |-> o, maturity |-> m, payout |-> p,
    capitalized |-> c, tax |-> t, closed |-> 0, closedAmount |-> 0, topups |-> u] :
     o \in {20240131, 20240229}, m \in {20240731, 20250228}, p \in {"end", "monthly", "quarterly"},
     c \in BOOLEAN, t \in {-1, 1800}, u \in Topups}
(* Topped up after the day of the opening: see TopupsGrowInterest.         *)
Grown == {d \in Open : \A i \in DOMAIN d.topups : d.topups[i].date > d.open}
Deposits == Grown \cup {[d EXCEPT !.closed = 20240630, !.closedAmount = 3550] : d \in Grown}
Account(id, credit, nav, navDate) ==
  [id |-> id, creditRate |-> credit, nav |-> nav, navDate |-> navDate]
Accounts == {Account(1, 1800, 0, 0), Account(2, 1000, 0, 0), Account(3, 0, 5, 20240601)}
Contribution(npf, date, amount) ==
  [id |-> 1, npf |-> npf, date |-> date, units |-> 7, amount |-> amount]
Contributions == {Contribution(n, d, a) : n \in 1..3, d \in {20240110, 20240601}, a \in {100, 333}}
CreditCases ==
  {[accounts |-> Accounts, ops |-> <<a, b, Contribution(1, 20240120, 100)>>,
    capMonth |-> cap, pdfoYear |-> pdfo] :
     a, b \in Contributions, cap \in {0, 250}, pdfo \in {0, 20, 1000}}
PensionCases ==
  {[account |-> [id |-> 1, access |-> 20240131, payoutYears |-> y, payoutFreq |-> q,
                 nav |-> nav, navDate |-> IF nav = 0 THEN 0 ELSE 20240601],
    net |-> n, until |-> u, ops |-> <<Contribution(1, 20240110, 100), Contribution(1, d, 333)>>] :
     y \in 0..2, q \in {"month", "quarter", "year"}, n \in {1, 7, 1000},
     u \in {20240131, 20250101}, nav \in {0, 5}, d \in {20240110, 20240901}}

----------------------------------------------------------------------------
(* Allocation, the plan and the route. *)

Kinds == {<<[kind |-> "bonds", pct |-> 60, current |-> 100], [kind |-> "npf", pct |-> 10, current |-> 5]>>,
          <<[kind |-> "bonds", pct |-> 33, current |-> 70], [kind |-> "funds", pct |-> 33, current |-> 90],
            [kind |-> "npf", pct |-> 34, current |-> 0]>>, <<>>}
Offered(isin, kind, cost) == [kind |-> kind, isin |-> isin, cost |-> cost]
Suggestions == {<<Offered("a", "bonds", 13), Offered("f", "funds", 7), Offered("b", "bonds", 9),
                  Offered("n", "npf", 1)>>,
                <<Offered("a", "bonds", 0), Offered("f", "funds", 40), Offered("n", "npf", 0)>>}
ReserveRows == {Routes!NoReserve, [fillNow |-> 12, gap |-> 40, fillFrom |-> 30],
                [fillNow |-> 5, gap |-> 5, fillFrom |-> 100], [fillNow |-> 0, gap |-> 60, fillFrom |-> 100]}
GoalRow(id, now, gap, pace, short) ==
  [id |-> id, fillNow |-> now, gap |-> gap, gapPace |-> pace, short |-> short, fillFrom |-> 35]
GoalRows == {<<GoalRow(1, 11, 30, 40, 3), GoalRow(2, 4, 4, 4, 0)>>,
             <<GoalRow(1, 6, 30, 30, 5), GoalRow(2, 14, 50, 60, 9)>>}
Permissions == [reserve : {0, 97}, goals : {17, 97}, uses : {{}, {"invest"}, {"reserve", "goals", "npf"}},
                pick : {"", "b"}, carry : {0, 31}]
AllocationCases ==
  {[doc |-> [capital |-> 300, reserveTotal |-> 30, goalsTotal |-> 20, reserve |-> r, goals |-> gs,
             rows |-> k], sug |-> sug, amount |-> a, allow |-> w] :
     r \in ReserveRows, gs \in GoalRows, k \in Kinds, sug \in Suggestions, a \in {61, 97},
     w \in Permissions}
SplitCases == {[total |-> t, weights |-> <<a, b, c>>] : t \in 0..20, a, b, c \in {0, 1, 3, 7, 33}}

Flow(id, kind, cadence, from, until, invest, growth, uses) ==
  [id |-> id, kind |-> kind, cadence |-> cadence, from |-> from, until |-> until, amount |-> 1000,
   invest |-> invest, growth |-> growth, uses |-> uses]
FlowCases == {Flow(1, "income", c, from, until, 100, g, {}) :
                c \in {"once", "month", "quarter", "year"}, from \in {20230331, 20240115, 20240229},
                until \in {0, 20240228, 20240331, 20240815}, g \in {0, 10}}
January == Routes!MonthKeyAt(20240101, 0)
Receipts == {{}, {[flow |-> 1, month |-> January + 2, amount |-> 940, invest |-> 100, uses |-> {}]},
             {[flow |-> 0, month |-> January, amount |-> 300, invest |-> 50, uses |-> {"reserve"}]}}
Expense(due, amount) == [amount |-> amount, due |-> due, paid |-> 0, from |-> "plan"]
MonthCases ==
  [flows : {<<Flow(1, "income", "month", 20230105, 0, 100, 0, a), Flow(2, "income", "quarter", 20230320, 0, i, 0, b),
              Flow(3, "expense", "month", 20230331, 0, 10, 0, {})>> :
              i \in {50, 100}, a \in {{}, {"invest"}, {"reserve"}}, b \in {{}, {"goals", "npf"}}},
   receipts : Receipts, expenses : {<<>>, <<Expense(20231220, 130), Expense(20240310, 77)>>},
   due : {0, 1500}]

ShareSettings(reserveFrom, goalsFrom) ==
  [expenses |-> 100, months |-> 6, debtMonths |-> 2, reserveShare |-> 30, goalsShare |-> 30,
   goalsWhileDebt |-> "keep", reserveFrom |-> reserveFrom, goalsFrom |-> goalsFrom]
GoalOf(id, due, gap, required, future, pace, moved) ==
  [id |-> id, done |-> FALSE, due |-> due, gap |-> gap, required |-> required, gapFuture |-> future,
   requiredFuture |-> pace, moved |-> moved]
PlainGoals(id) == {GoalOf(id, due, gap, required, 0, 0, moved) :
                     due \in BOOLEAN, gap \in {0, 14, 50}, required \in {0, 10, 25}, moved \in {0, 6}}
DearerGoals(id) == {GoalOf(id, TRUE, gap, 10, 2 * gap + 5, 13, moved) : gap \in {0, 14, 50}, moved \in {0, 6}}
ShareCases ==
  {[set |-> ShareSettings("any", "any"), reserve |-> r, plan |-> p, part |-> t, goals |-> <<a, b>>] :
     r \in {90, 590}, p \in {100, 333}, t \in {3, 40}, a \in PlainGoals(1),
     b \in DearerGoals(2)}
Callable(months, amount, revocable) == [months |-> months, amount |-> amount, revocable |-> revocable]
LadderCases ==
  {[liquid |-> l, deposits |-> <<Callable(m, a, rv), Callable(n, 100, FALSE)>>] :
     l \in {0, 90, 100, 250}, m, n \in 1..4, a \in {50, 100, 150}, rv \in BOOLEAN}

MonthPlans == [m \in 0..12 |-> [planReserve |-> 100 + 10 * (m % 3), planGoals |-> 80]]
DebtAhead == [m \in 0..12 |-> [principal |-> 30, cover |-> IF m < 6 THEN 600 - 100 * m ELSE 0,
                               due |-> IF m < 4 THEN 33 ELSE 20]]
Portfolio == <<[kind |-> "bonds", pct |-> 60, current |-> 300], [kind |-> "funds", pct |-> 30, current |-> 100]>>
Lent == <<[owed |-> 50, rate |-> 24], [owed |-> 20, rate |-> 37]>>
PurchaseCases ==
  {{[id |-> i, broker |-> b[i], amount |-> a[i]] : i \in 1..3} : b \in [1..3 -> 0..2], a \in [1..3 -> {3, 5, 8}]}
Document(set, reserve, loans, interest, cover, goals) ==
  LET share == Routes!reserveMonthShare(set, reserve, MonthPlans[0].planReserve, 0, FALSE, cover, interest)
  IN [set |-> set, reserveTotal |-> reserve, goalsTotal |-> 40, capital |-> 460 + reserve,
      gap |-> Routes!ReserveTarget(set, reserve, FALSE, cover, interest).gap,
      fillNow |-> share.fill, fillFrom |-> share.from, loans |-> loans,
      interest |-> interest, cover |-> cover, debtLeft |-> 250, caps |-> FALSE, kinds |-> Portfolio,
      suggestions |-> <<Offered("a", "bonds", 60), Offered("f", "funds", 25)>>, goals |-> goals,
      fill |-> Routes!GoalsFill(set, goals, MonthPlans[0].planGoals, FALSE)]
Receipt(date, broker, cur, label, amount, principal, basis, uses) ==
  [date |-> date, broker |-> broker, cur |-> cur, label |-> label, amount |-> amount,
   principal |-> principal, kind |-> IF basis = "plan" THEN "" ELSE "bonds", basis |-> basis, uses |-> uses]
ComingIn ==
  {<<Receipt(20240601, 1, 1, 3, 120, 0, "plan", a), Receipt(20240115, b, 1, 1, 61, 0, "owed", {}),
     Receipt(20240120, 1, 1, 2, 90, 0, "plan", a), Receipt(20240220, 1, 1, 2, 100 - p \div 10, 0, "owed", {}),
     Receipt(20240220, 1, 1, 2, p \div 10, p \div 10, "owed", {}),
     Receipt(20240320, 1, 1, 2, 70, 0, "plan", c), Receipt(20240501, 2, 2, 3, 31, 30, "owed", {})>> :
     b \in 1..2, p \in {0, 100}, a \in {{}, {"goals"}}, c \in {{}, {"reserve", "invest"}}}
RouteCases ==
  {[doc |-> Document(ShareSettings(rf, gf), r, w[1], w[2], 0, gs), flows |-> f, plans |-> MonthPlans,
    debt |-> d] :
     rf \in {"any", "plan"}, gf \in {"any", "redeem"}, r \in {200, 560}, w \in {<<<<>>, 0>>, <<Lent, 10>>},
     gs \in {<<>>, <<GoalOf(1, TRUE, 60, 15, 0, 0, 0)>>}, f \in ComingIn, d \in {<<>>, DebtAhead}}

----------------------------------------------------------------------------
(* Books: deposits that return on 2024-02-29 and are rolled over that day, *)
(* the day after, or not; a paper, a fund and an account.                  *)

TermDeposit(id, open, maturity, payout, purpose, bank, closed, topups) ==
  [id |-> id, isin |-> <<"d1", "d2", "d3">>[id], bank |-> bank, reserve |-> purpose = "reserve",
   goal |-> IF purpose = "goal" THEN 1 ELSE 0, principal |-> 1000 * id, rate |-> 1300,
   open |-> open, maturity |-> maturity, payout |-> payout, capitalized |-> FALSE, tax |-> -1,
   closed |-> closed, closedAmount |-> IF closed = 0 THEN 0 ELSE 1100 * id, topups |-> topups]
Purposes == {"reserve", "goal", "plain"}
FirstDeposits ==
  {TermDeposit(1, 20240110, 20240229, "monthly", u, 1, c, t) :
     u \in Purposes, c \in {0}, t \in {<<>>, <<[id |-> 1, date |-> 20240131, amount |-> 500]>>}}
  \cup {TermDeposit(1, 20240110, 20240229, "monthly", u, 1, 20240201, <<>>) : u \in Purposes}
NextDeposits ==
  {TermDeposit(2, o, 20240831, "quarterly", to[1], to[2], 0, <<>>) :
     o \in {20240229, 20240301}, to \in {<<"reserve", 1>>, <<"goal", 1>>, <<"reserve", 2>>}}
LastDeposits ==
  {<<>>, <<TermDeposit(3, 20240229, 20250110, "end", "reserve", 1, 0,
                       <<[id |-> 2, date |-> 20240831, amount |-> 1500]>>)>>}
Journal(id, date, amount) == [id |-> id, date |-> date, amount |-> amount, goal |-> 1]
BookCases ==
  {[deposits |-> <<a, b>> \o c, received |-> r, goals |-> {1},
    reserveOps |-> <<Journal(1, 20240105, 700), Journal(2, 20240420, -100)>>,
    goalOps |-> <<Journal(1, 20240301, 50)>>, bonds |-> Bonds,
    payments |-> Payments \cup {[isin |-> "b", date |-> 20240420, type |-> "early", per |-> 3]},
    lots |-> {Lot(1, "a", 3, 9, 2, 20240110), Lot(2, "b", 2, 8, 0, 20240301)},
    sales |-> {Sale(1, 20240831, 1)}, npf |-> {Account(1, 1800, 0, 0)},
    npfOps |-> <<Contribution(1, 20240110, 100)>>,
    fundOps |-> <<FundOp(1, 20240115, "A", "buy", 10, 1000, 0, 0),
                  FundOp(2, 20240229, "A", "sell", 4, 400, 0, 3),
                  FundOp(3, 20240301, "B", "buy", 5, 410, 0, 2)>>] :
     a \in FirstDeposits, b \in NextDeposits, c \in LastDeposits,
     r \in {{}, {<<"d1", 20240229>>}, {<<"d2", 20240831>>}}}

----------------------------------------------------------------------------
(* The queue of tasks: the books above with cards, plans and a pension     *)
(* account at their side. *)

Instalments(card) ==
  [Plan(3, 100, 20240110, 100, 0, "cancel", 0) EXCEPT !.id = 2, !.card = card]
CardsAtTheirSide ==
  {[debts |-> <<Card(d), Instalments(c)>>, marks |-> m,
    ops |-> <<CardOp(20240120, "payment", 30), CardOp(20240227, "draw", 120)>>] :
     d \in {5, 31}, c \in 0..1,
     m \in {<<>>, <<CardMark(20240110, -100, 80)>>, <<CardMark(20240110, 40, 0)>>,
            <<CardMark(20240226, -30, 30)>>}}
PlansAtTheirSide ==
  {[flows |-> <<Flow(1, "income", "month", from, 0, 100, 0, {}), Flow(2, "income", "quarter", 20231130, 0, 50, 0, {}),
                Flow(3, "expense", "month", 20231101, 0, 10, 0, {})>>,
    receipts |-> r, expenses |-> <<Expense(20240115, 130), Expense(20240301, 77)>>,
    windows |-> {20240320}, nbuAt |-> 20240228, nbuSkipped |-> TRUE, ratesAt |-> 20240226,
    backupAt |-> 20240227, corrupt |-> from = 20240131, fundMarks |-> {}] :
     from \in {20231231, 20240131}, r \in Receipts}
Reminded(books, day) ==
  [books EXCEPT !.npf = {a @@ [contribDay |-> IF a.id = 1 THEN day ELSE 0] : a \in @}]
TasksDoc(holds) ==
  [nominal |-> holds, fundsTotal |-> 0, deposits |-> 0, reserveTotal |-> 0, goalsTotal |-> 0, debt |-> FALSE,
   reserve |-> TRUE, fillNow |-> 12, loans |-> {[id |-> 1, overdue |-> TRUE, owed |-> 70], [id |-> 2, overdue |-> FALSE, owed |-> 5]},
   goals |-> {[id |-> 1, done |-> FALSE, fillNow |-> 8], [id |-> 2, done |-> TRUE, fillNow |-> 8]},
   best |-> 40, uninvested |-> 60, limits |-> {[name |-> "bank", over |-> 9]},
   shares |-> {[currency |-> "usd", unit |-> 10, deficit |-> 30], [currency |-> "eur", unit |-> 50, deficit |-> 40]},
   exit |-> [first |-> 1, short |-> 25]]
QueueCases ==
  LET some == CHOOSE c \in CardsAtTheirSide : c.marks # <<>>
      plan == CHOOSE p \in PlansAtTheirSide : TRUE
      book == CHOOSE b \in BookCases : Len(b.deposits) = 3
  IN {[src |-> Reminded(b, 30) @@ some @@ plan, doc |-> TasksDoc(1)] : b \in BookCases}
     \cup {[src |-> Reminded(book, 1) @@ c @@ plan, doc |-> TasksDoc(h)] :
              c \in CardsAtTheirSide, h \in 0..1}
     \cup {[src |-> Reminded(book, 30) @@ some @@ p, doc |-> TasksDoc(1)] : p \in PlansAtTheirSide}

(* Paying off: a card to get out of by a date, whose contract asks for a   *)
(* minimum or for nothing, perhaps a second one, and two plans, with the   *)
(* income of the months.                                                   *)

Terms == [rate |-> 24, limit |-> 0, aprOverdue |-> 0, lateFee |-> 0]
Leaving(id, by, limit, floor) ==
  [Card(5) EXCEPT !.id = id, !.exitBy = by, !.floor = floor, !.minBp = IF floor = 0 THEN 0 ELSE @] @@ [Terms EXCEPT !.limit = limit, !.rate = 48,
                                                !.aprOverdue = 6000, !.lateFee = id]
PaidPlan(id, n, principal, feeBp, onPrepay, rate, card) ==
  [Plan(n, principal, 20240115 + 200 * (id % 2), feeBp, n % 3, onPrepay, 0) EXCEPT !.id = id, !.card = card]
    @@ [Terms EXCEPT !.rate = rate]
MarkOf(debt, date, balance, due, over) ==
  [debt |-> debt, date |-> date, balance |-> balance, due |-> due, nonGrace |-> over]
Income(from) ==
  [flows |-> (IF from = 0 THEN <<>> ELSE <<Flow(1, "income", "month", from, 0, 10, 0, {})>>)
               \o <<Flow(2, "income", "quarter", 20231130, 0, 50, 0, {})>>,
   receipts |-> {}, expenses |-> <<[amount |-> 130, due |-> 20240310, paid |-> 0, from |-> "card"]>>]
PayoffCases ==
  {[books |-> [debts |-> <<Leaving(1, by, by % 1000, IF from = 0 THEN 0 ELSE 40), PaidPlan(2, 6, 600, 200, "cancel", 30, by % 2),
                           PaidPlan(3, f[4], 300, f[1], f[2], f[3], 0), Leaving(4, 20240601, 0, 40)>>,
               marks |-> <<MarkOf(4, 20240110, -90, 0, 0)>> \o m,
               ops |-> o],
     src |-> Income(from), plan |-> [onCard |-> 900, due |-> 120], spend |-> 600, 
     asks |-> {[strategy |-> "avalanche", extra |-> -1], [strategy |-> "snowball", extra |-> 35]}] :
     by \in {20240831, 20250110},
     f \in {<<300, "cancel", 80, 4>>, <<100, "keep", 60, 7>>, <<300, "cancel", 80, 7>>}, from \in {0, 20240125},
     m \in {<<>>, <<MarkOf(1, 20240120, -500, 90, 0), MarkOf(1, 20240220, -700, 300, 150)>>},
     o \in {<<>>, <<[debt |-> 2, kind |-> "payment", date |-> 20240120, amount |-> 250],
                    [debt |-> 1, kind |-> "payment", date |-> 20240220, amount |-> 400],
                    [debt |-> 3, kind |-> "payment", date |-> 20240229, amount |-> 40]>>}}

----------------------------------------------------------------------------
(* The structure of the capital, and what there is to buy: three bonds of  *)
(* three terms, two funds, deposits to add to and to open, a pension       *)
(* account and a debt. *)

Held ==
  {h \in [bonds : {200, 450}, funds : {0, 150}, deposits : {100, 350}, npf : {0, 50}, reserve : {0, 100}, goals : {100}] :
     (h.bonds + h.funds + h.deposits + h.npf) % 100 = 0}
Targets == {<<60, 20, 10, 10>>, <<33, 33, 0, 34>>, <<0, 50, 0, 0>>, <<80, 0, 20, 0>>}
Structure(h, t, usd, eur, bond, deposit, b, u, limit) ==
  LET total == Shop!TotalUAH([held |-> h])
  IN [held |-> h, exposure |-> [USD |-> usd, EUR |-> 35], currencyTarget |-> [USD |-> 30, EUR |-> eur],
      rate |-> [USD |-> 4, EUR |-> IF eur = 7 THEN 0 ELSE 5], bond |-> [USD |-> bond, EUR |-> b],
      deposit |-> [USD |-> deposit, EUR |-> 3],
      kindTarget |-> [bonds |-> t[1], funds |-> t[2], deposits |-> t[3], npf |-> t[4]],
      unit |-> [bonds |-> 90, funds |-> 40, deposits |-> u, npf |-> 0],
      limit |-> [broker |-> limit, isin |-> limit \div 2, year |-> limit],
      issuers |-> <<[key |-> 1, amount |-> 120], [key |-> 11, amount |-> h.funds]>>,
      institutions |-> <<[key |-> 3, amount |-> total \div 4], [key |-> 2, amount |-> total \div 2]>>,
      years |-> <<[key |-> 2024, amount |-> 70], [key |-> 2025, amount |-> 33]>>,
      cash |-> total - total \div 4 - total \div 2]
StructureCases ==
  {Structure(h, t, usd, eur, bond, deposit, 11, u, limit) :
     h \in Held, t \in Targets, usd \in {0, 250}, eur \in {7, 20}, bond \in {0, 13, 200}, deposit \in {0, 60},
     u \in {30, 500}, limit \in {0, 33}}

Quote(isin, source, date, price) == [isin |-> isin, source |-> source, date |-> date, price |-> price, cur |-> "UAH"]
Listed(isin, cur, nominal, maturity, rate) ==
  [isin |-> isin, cur |-> cur, nominal |-> nominal, maturity |-> maturity,
   ytm |-> [market |-> rate, nominal |-> rate - 90]]
Directory == <<Listed(1, "UAH", 100, 20240415, 1630), Listed(2, "USD", 13, 20250301, 410),
               Listed(3, "UAH", 100, 20261001, 1631)>>
Coming == {Coupon(i, d, 7) : i \in {1, 3}, d \in {20231001, 20240415}} \cup {Coupon(3, 20261001, 7)}
            \cup {[isin |-> 2, date |-> 20250301, type |-> "redemption", per |-> 13]}
QuoteSets ==
  {{}, {Quote(1, 1, 20240227, 101), Quote(1, 2, 20240120, 90), Quote(3, 2, 20240228, 97)},
   {Quote(1, 1, 20240301, 40), Quote(1, 2, 20240229, 104), Quote(3, 2, 20240226, 99), Quote(3, 2, 20240229, 102),
    Quote(3, 3, 20240229, 80), [Quote(2, 1, 20240229, 14) EXCEPT !.cur = "USD"]}}
Lying(bank, cur, balance, rate, earmarked, closed) ==
  [bank |-> bank, cur |-> cur, principal |-> 10, balance |-> balance, rate |-> rate, maturity |-> 20240901,
   closed |-> closed, earmarked |-> earmarked, replenishable |-> TRUE]
FundOffered(key, expected, dividends, until) ==
  [key |-> key, cur |-> "UAH", price |-> 40, expected |-> expected, expectedCur |-> "USD", dividends |-> dividends,
   tax |-> 23, until |-> until]
Market(quotes, mine, swept, auctions, usd, debt, eur) ==
  [bonds |-> Directory, payments |-> Coming, quotes |-> quotes, mine |-> mine, sweptAt |-> swept,
   auctions |-> auctions, devaluation |-> 700,
   deposits |-> <<Lying(1, "USD", usd, 300, FALSE, FALSE), Lying(1, "USD", 90, 350, TRUE, FALSE),
                  Lying(4, "UAH", 500, 1630, FALSE, usd = 2)>>,
   funds |-> <<FundOffered(11, 800, 0, Shop!NoDate), FundOffered(12, 0, 1632, 20240229)>>,
   npf |-> <<[key |-> 21, access |-> 20240831, nominal |-> 2500, real |-> 1700],
             [key |-> 22, access |-> Shop!NoDate, nominal |-> 900, real |-> 100]>>,
   debt |-> [total |-> debt, rate |-> 4800, top |-> 31],
   depositRate |-> [USD |-> 350, EUR |-> eur, UAH |-> 1500], depositMin |-> [USD |-> 60, EUR |-> 3, UAH |-> 1000]]
Markets ==
  {Market(q, mine, swept, a, usd, debt, eur) :
     q \in QuoteSets, mine \in {{1, 2}, {2, 3}}, swept \in {Shop!NoDate, 20240228},
     a \in {{}, {[isin |-> 1, date |-> 20221201], [isin |-> 2, date |-> 20240110]}}, usd \in {2, 30},
     debt \in {0, 90}, eur \in {0, 200}}
OffersDoc(t, limit, usd, rank, policy) ==
  Structure([bonds |-> 450, funds |-> 150, deposits |-> 350, npf |-> 50, reserve |-> 100, goals |-> 100],
            t, usd, 20, 13, 60, 11, 30, limit)
    @@ [policy |-> policy, rank |-> rank,
        ladder |-> [y \in 2024..2026 |-> [USD |-> 50 * (y % 2), EUR |-> 0, UAH |-> 70 * (y - 2024)]]]
OfferDocs ==
  {OffersDoc(t, limit, usd, rank, usd = 0) :
     t \in {<<60, 20, 10, 10>>, <<0, 50, 0, 0>>}, limit \in {0, 12, 33}, usd \in {0, 250},
     rank \in {"rate", "short", "ladder", "plan"}}
OfferCases ==
  LET market == Market(CHOOSE q \in QuoteSets : Cardinality(q) = 3, {1, 2}, 20240228, {}, 30, 90, 200)
      doc == OffersDoc(<<60, 20, 10, 10>>, 12, 250, "plan", TRUE)
  IN {[market |-> m, doc |-> doc] : m \in Markets} \cup {[market |-> market, doc |-> d] : d \in OfferDocs}

Choice(kind, label) == [kind |-> kind, label |-> label, mode |-> "plan", lot |-> 1]
Choices == {Choice("bond", 1), Choice("bond", 3), Choice("deposit", 4), Choice("reserve", 0), Choice("goal", 0),
            [Choice("bond", 2) EXCEPT !.mode = "rate", !.lot = 2]}
(* A list as it is shown, of which the journal takes what it needs.        *)
Suggested(kind, label, real) == [kind |-> kind, label |-> label, real |-> real]
ListShown ==
  <<Suggested("bond", 3, 870), Suggested("bond", 1, 869), Suggested("deposit", 4, 540),
    Suggested("fund", 11, 616), Suggested("bond", 2, 410), Suggested("deposit", 0, 300)>>
DecisionCases ==
  {[sug |-> ListShown, bought |-> <<a, b, c, d>>, given |-> given] :
     a, b, c \in Choices, d \in {Choice("fund", 11), Choice("bond", 9)},
     given \in {<<>>, <<900>>, <<900, 2000>>}}

MCCases ==
  [s \in {"journal of a fund", "payout of a fund", "papers", "accrued coupon", "reserve loan",
          "idle income", "instalments", "card", "marks of a card", "deposit", "tax credit",
          "pension", "allocation", "permissions", "broker of a fund", "split", "flow", "month of the plan", "shares of the month",
          "ladder", "route", "books", "structure", "offers", "decisions", "queue", "payoff"} |->
     CASE s = "journal of a fund" ->
            {[ops |-> o, marks |-> m] : o \in FreeJournals \cup Conversions, m \in PriceMarks}
       [] s = "payout of a fund" -> Payouts
       [] s = "papers" -> SoundPaperCases
       [] s = "accrued coupon" -> AccruedCases
       [] s = "reserve loan" -> LoanCases
       [] s = "idle income" -> IdleCases
       [] s = "instalments" -> PlanCases
       [] s = "card" -> {[debt |-> Card(day)] : day \in {1, 28, 29, 30, 31}}
       [] s = "marks of a card" -> MarkCases
       [] s = "deposit" -> Deposits
       [] s = "tax credit" -> CreditCases
       [] s = "pension" -> PensionCases
       [] s = "allocation" -> AllocationCases
       [] s = "permissions" -> SUBSET Routes!Buckets
       [] s = "broker of a fund" -> PurchaseCases
       [] s = "split" -> SplitCases
       [] s = "flow" -> FlowCases
       [] s = "month of the plan" -> MonthCases
       [] s = "shares of the month" -> ShareCases
       [] s = "ladder" -> LadderCases
       [] s = "route" -> RouteCases
       [] s = "books" -> BookCases
       [] s = "structure" -> StructureCases
       [] s = "offers" -> OfferCases
       [] s = "decisions" -> DecisionCases
       [] s = "queue" -> QueueCases
       [] s = "payoff" -> PayoffCases]
=============================================================================
