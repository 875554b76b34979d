------------------------------ MODULE FundMath ------------------------------
(***************************************************************************)
(* Certificates of funds (internal/domain/funds.go): positions at average  *)
(* cost, sales by FIFO for the tax, conversions that carry the cost from   *)
(* fund to fund, prices from operations and marks, and monthly payouts.    *)
(*                                                                         *)
(* An operation is [id, date, fund, kind, qty, amount, tax, pair]; prices  *)
(* are in hundredths of the minor unit.  One currency.                     *)
(***************************************************************************)
EXTENDS Money

(* pairSellsFirst: the journal by date, on each day the selling legs of    *)
(* conversions first.                                                      *)
pairSellsFirst(ops) ==
  LET rank(i) == IF ops[i].pair # None /\ ops[i].kind = "sell" THEN 0 ELSE 1
      before(i, j) ==
        \/ ops[i].date < ops[j].date
        \/ ops[i].date = ops[j].date /\ rank(i) < rank(j)
        \/ ops[i].date = ops[j].date /\ rank(i) = rank(j) /\ i < j
      order == SortSeq([i \in DOMAIN ops |-> i], before)
  IN [k \in DOMAIN order |-> ops[order[k]]]

(* [mutant] a purchase always weighs what was paid *)
CarriedCostForgotten(carry, op) == op.amount

(* The cost a purchase adds: that of its selling leg, or what was paid.    *)
CarriedCost(carry, op) ==
  IF op.pair # None /\ op.pair \in DOMAIN carry THEN carry[op.pair] ELSE op.amount
Carry(carry, op, cost) ==
  IF op.pair = None THEN carry
  ELSE [k \in DOMAIN carry \cup {op.id} |-> IF k = op.id THEN cost ELSE carry[k]]

OpPrice(op) == Quo(op.amount * 100, op.qty)
NoPosition == [qty |-> 0, cost |-> 0, price |-> 0, priced |-> NoDate, marked |-> FALSE,
               gross |-> 0, tax |-> 0, realized |-> 0, short |-> 0]
Priced(p, op) == IF op.qty > 0 THEN [p EXCEPT !.price = OpPrice(op), !.priced = op.date] ELSE p

stepPosition(p, op, cost, sold) ==
  CASE op.kind = "buy" -> [Priced(p, op) EXCEPT !.qty = @ + op.qty, !.cost = @ + cost]
    [] op.kind = "sell" ->
         [Priced(p, op) EXCEPT !.qty = Most(0, @ - op.qty), !.cost = Most(0, @ - sold),
            !.short = @ + Most(0, op.qty - p.qty),
            !.realized = IF op.pair = None THEN @ + op.amount - sold - op.tax ELSE @]
    [] OTHER -> [p EXCEPT !.gross = @ + op.amount, !.tax = @ + op.tax]

(* The latest mark of a price, unless an operation is younger.             *)
WithMark(p, marks) ==
  LET newest == CHOOSE m \in marks : \A n \in marks : n.date <= m.date
  IN IF marks = {} \/ newest.date < p.priced THEN p
     ELSE [p EXCEPT !.marked = newest.date > p.priced, !.price = newest.price,
                    !.priced = newest.date]

CostSold(p, op) == IF op.kind = "sell" /\ p.qty > 0 THEN Quo(p.cost * op.qty, p.qty) ELSE 0
WithOperation(st, op, sold) ==
  [pos |-> [st.pos EXCEPT ![op.fund] = stepPosition(@, op, CarriedCost(st.carry, op), sold)],
   carry |-> IF op.kind = "sell" THEN Carry(st.carry, op, sold) ELSE st.carry]
WithMarks(pos, marks) ==
  [f \in DOMAIN pos |-> WithMark(pos[f], {m \in marks : m.fund = f /\ m.price > 0})]
FundPositions(ops, marks) ==
  LET funds == {ops[i].fund : i \in DOMAIN ops}
      step(st, op) == WithOperation(st, op, CostSold(st.pos[op.fund], op))
  IN WithMarks(FoldLeft(step, [pos |-> [f \in funds |-> NoPosition], carry |-> <<>>],
                        pairSellsFirst(ops)).pos, marks)

MarketValue(p) == Quo(p.qty * p.price, 100)
ReturnMeasurable(p) == MarketValue(p) # p.cost \/ p.gross > 0 \/ p.realized # 0

----------------------------------------------------------------------------
(* Sales by FIFO. *)

Quantities(parcels) == Total([i \in DOMAIN parcels |-> parcels[i].qty])

Taken(parcels, n) ==
  [i \in DOMAIN parcels |->
     Least(parcels[i].qty, Most(0, n - Quantities(SubSeq(parcels, 1, i - 1))))]

FundSales(ops) ==
  LET funds == {ops[i].fund : i \in DOMAIN ops}
      sell(st, op) ==
        LET q == st.queue[op.fund]
            taken == Taken(q, op.qty)
            part == [i \in DOMAIN q |-> IF taken[i] = q[i].qty THEN q[i].cost
                                        ELSE Quo(q[i].cost * taken[i], q[i].qty)]
            rest == [i \in DOMAIN q |-> [qty |-> q[i].qty - taken[i], cost |-> q[i].cost - part[i]]]
        IN [queue |-> [st.queue EXCEPT ![op.fund] = SelectSeq(rest, LAMBDA x : x.qty > 0)],
            carry |-> Carry(st.carry, op, Total(part)),
            out |-> IF op.pair # None THEN st.out
                    ELSE Append(st.out, [date |-> op.date, fund |-> op.fund, id |-> op.id,
                                         gain |-> op.amount - Total(part), tax |-> op.tax])]
      step(st, op) ==
        CASE op.kind = "buy" /\ op.qty > 0 ->
               [st EXCEPT !.queue[op.fund] =
                  Append(@, [qty |-> op.qty, cost |-> CarriedCost(st.carry, op)])]
          [] op.kind = "sell" -> sell(st, op)
          [] OTHER -> st
  IN FoldLeft(step, [queue |-> [f \in funds |-> <<>>], carry |-> <<>>, out |-> <<>>],
              pairSellsFirst(ops)).out

(* How much of a purchase is new money.                                    *)
FundBuyNew(op, ops) ==
  LET legs == {i \in DOMAIN ops : ops[i].id = op.pair /\ ops[i].kind = "sell"}
      leg == ops[CHOOSE i \in legs : TRUE]
  IN IF op.kind # "buy" THEN 0
     ELSE IF op.pair = None \/ legs = {} THEN op.amount
     ELSE Most(0, op.amount - (leg.amount - leg.tax))

(* The curve of prices: operations, and marks over them.                   *)
FundPricePoints(marks, ops, fund) ==
  LET trades == {i \in DOMAIN ops : ops[i].fund = fund /\ ops[i].qty > 0
                                      /\ ops[i].kind \in {"buy", "sell"}}
      own == {m \in marks : m.fund = fund /\ m.price > 0}
      last(d) == CHOOSE i \in trades : ops[i].date = d
                   /\ \A j \in trades : ops[j].date = d => j <= i
  IN [d \in {m.date : m \in own} \cup {ops[i].date : i \in trades} |->
        IF \E m \in own : m.date = d THEN (CHOOSE m \in own : m.date = d).price
                                     ELSE OpPrice(ops[last(d)])]

----------------------------------------------------------------------------
(* Payouts. *)

(* [mutant] what was spent is cut off, not rounded *)
SplitFundDividendCut(gross, price) ==
  LET units == Quo(gross * 100, price)
  IN [units |-> units, spent |-> units * (price \div 100),
      cash |-> gross - units * (price \div 100)]
SplitFundDividend(gross, price) ==
  LET units == IF gross <= 0 \/ price <= 0 THEN 0 ELSE Quo(gross * 100, price)
      spent == (units * price + 50) \div 100
  IN IF units <= 0 THEN [units |-> 0, spent |-> 0, cash |-> gross]
     ELSE [units |-> units, spent |-> spent, cash |-> gross - spent]

(* A Saturday is 6, a Sunday 0.                                            *)
Weekday(d) == (Ordinal(d) - 2) % 7
shiftOffWeekend(d) ==
  AddDays(d, CASE Weekday(d) = 6 -> 2 [] Weekday(d) = 0 -> 1 [] OTHER -> 0)

(* The payout of the month n months after that of from; a day the month    *)
(* lacks runs over into the next one.                                      *)
PayoutOf(payDay, from, n) ==
  LET ym == MonthAfter(from, n) IN shiftOffWeekend(AddDays(Ymd(ym[1], ym[2], 1), payDay - 1))
NextPayoutDate(payDay, from) ==
  IF payDay \notin 1..31 THEN NoDate
  ELSE Earliest({x \in {PayoutOf(payDay, from, n) : n \in 0..1} : x >= from})

(* FundDividendFlows: monthly payouts at a yield in basis points a year.   *)
FundDividendFlows(p, payDay, yieldBp, months, from, reinvest) ==
  LET step(st, i) ==
        LET per == roundDiv(Quo(st.qty * p.price, 100) * yieldBp, 120000)
            next == NextPayoutDate(payDay, st.from)
            split == IF reinvest THEN SplitFundDividend(per, p.price)
                     ELSE [units |-> 0, spent |-> 0, cash |-> per]
        IN IF st.ended \/ per <= 0 \/ next = NoDate THEN [st EXCEPT !.ended = TRUE]
           ELSE [st EXCEPT !.qty = @ + split.units, !.from = AddDays(next, 1),
                   !.rows = Append(@, [date |-> next, gross |-> per, split |-> split])]
  IN IF payDay <= 0 \/ yieldBp <= 0 \/ MarketValue(p) <= 0 THEN <<>>
     ELSE FoldLeft(step, [qty |-> p.qty, from |-> from, rows |-> <<>>, ended |-> FALSE],
                   [i \in 1..months |-> i]).rows

----------------------------------------------------------------------------
(* Properties. *)

Positions(ops) == FundPositions(ops, {})
SumOf(f) == SumFunction(f)
Kind(ops, kind) == {i \in DOMAIN ops : ops[i].kind = kind}

(* A journal in which nothing is sold before it is bought, and the selling *)
(* leg of a conversion is not dated after the buying one.                  *)
Sound(ops, pos) ==
  /\ \A f \in DOMAIN pos : pos[f].short = 0
  /\ \A i \in Kind(ops, "buy") : ops[i].pair # None =>
       \E j \in Kind(ops, "sell") : ops[j].id = ops[i].pair /\ ops[j].date <= ops[i].date

(* The comment at FundSales: once everything is sold, average cost and     *)
(* FIFO have found the same result, to the coin and whatever was rounded   *)
(* on the way, also when certificates went through conversions.            *)
LiquidationAgrees(ops) ==
  \A pos \in {Positions(ops)}, sales \in {FundSales(ops)} :
    Sound(ops, pos) /\ (\A f \in DOMAIN pos : pos[f].qty = 0) =>
      /\ SumOf([f \in DOMAIN pos |-> pos[f].realized])
           = Total([i \in DOMAIN sales |-> sales[i].gain - sales[i].tax])
      /\ \A f \in DOMAIN pos : pos[f].cost = 0

(* No money is lost or made up between funds: what was paid for            *)
(* certificates is in the cost of what is left or in the results of what   *)
(* was sold; a conversion moves the cost and leaves the sum alone.         *)
CostIsConserved(ops) ==
  LET paid == AmountsOf(ops, {i \in Kind(ops, "buy") : ops[i].pair = None})
      got == MapThenSumSet(LAMBDA i : ops[i].amount - ops[i].tax,
                           {i \in Kind(ops, "sell") : ops[i].pair = None})
  IN \A pos \in {Positions(ops)} :
       Sound(ops, pos) =>
         SumOf([f \in DOMAIN pos |-> pos[f].cost - pos[f].realized]) = paid - got

(* Where there is nothing to measure the return of, the position is worth  *)
(* what has been put into it and not taken out: no result is hidden.       *)
UnmeasuredEarnedNothing(ops) ==
  \A pos \in {Positions(ops)} : \A f \in DOMAIN pos :
    LET traded(kind) == {i \in Kind(ops, kind) : ops[i].fund = f}
        back == MapThenSumSet(LAMBDA i : ops[i].amount - ops[i].tax, traded("sell"))
    IN Sound(ops, pos) /\ ~ReturnMeasurable(pos[f]) /\ (\A i \in traded("buy") \cup traded("sell") : ops[i].pair = None)
         => MarketValue(pos[f]) = AmountsOf(ops, traded("buy")) - back

(* The same without asking for the order of the legs: violated when the    *)
(* buying leg is dated first, as it then weighs what it cost, and the cost *)
(* of the selling leg is carried nowhere.                                  *)
ConversionKeepsCost(ops) ==
  \A pos \in {Positions(ops)} :
    (\A i \in Kind(ops, "sell") : ops[i].pair # None)
      /\ (\A f \in DOMAIN pos : pos[f].short = 0) =>
    SumOf([f \in DOMAIN pos |-> pos[f].cost])
      = AmountsOf(ops, {i \in Kind(ops, "buy") : ops[i].pair = None})

(* The position and the curve of prices tell the same price, when a fund   *)
(* was traded once a day at most.                                          *)
PriceOnTheCurve(ops, marks) ==
  (\A i, j \in Kind(ops, "buy") \cup Kind(ops, "sell") :
     ops[i].fund = ops[j].fund /\ ops[i].date = ops[j].date => i = j) =>
  \A pos \in {FundPositions(ops, marks)} : \A f \in DOMAIN pos :
    \A curve \in {FundPricePoints(marks, ops, f)} :
      IF DOMAIN curve = {} THEN pos[f].priced = NoDate
      ELSE /\ pos[f].priced = CHOOSE d \in DOMAIN curve : \A e \in DOMAIN curve : e <= d
           /\ pos[f].price = curve[pos[f].priced]

(* A fund that reinvests makes no money: certificates and cash are worth   *)
(* the payout, to half a coin, and the cash would not buy one more.        *)
ReinvestingMakesNoMoney(gross, price) ==
  LET s == SplitFundDividend(gross, price)
  IN gross > 0 /\ price > 0 =>
       /\ s.spent + s.cash = gross /\ s.cash >= 0
       /\ s.units * price <= gross * 100 /\ (s.units + 1) * price > gross * 100
       /\ Abs(s.spent * 100 - s.units * price) <= 50

(* Payouts that are foreseen come one a month, never on a day off.         *)
PayoutsAreMonthly(p, payDay, yieldBp, months, from, reinvest) ==
  \A rows \in {FundDividendFlows(p, payDay, yieldBp, months, from, reinvest)} :
    \A i \in DOMAIN rows :
      /\ rows[i].date >= from /\ Weekday(rows[i].date) \in 1..5
      /\ i > 1 => /\ DaysBetween(rows[i - 1].date, rows[i].date) \in 26..36
                  /\ rows[i].gross >= rows[i - 1].gross

(* NextPayoutDate says when the fund pays next: no payout of a month lies  *)
(* between.  Violated when a payout was put off over the end of a month    *)
(* and the question is asked on the first days of the next one.            *)
NextPayoutIsNext(payDay, from) ==
  \A n \in {-1, 0, 1} :
    PayoutOf(payDay, from, n) >= from => NextPayoutDate(payDay, from) <= PayoutOf(payDay, from, n)
=============================================================================
