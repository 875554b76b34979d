------------------------------ MODULE Holdings ------------------------------
(***************************************************************************)
(* Bonds in hand (internal/domain: calendar.go, positions.go, holdings.go, *)
(* cost.go, sale.go, accrued.go, payment_status.go), the loan taken from   *)
(* one's own reserve (reserve_loan.go) and income that has not been put to *)
(* work (idle.go).                                                         *)
(*                                                                         *)
(* A bond is [isin, nominal, maturity], a payment [isin, date, type, per], *)
(* a lot [id, isin, qty, price, fee, buy], a sale [id, lot, date, qty,     *)
(* clean, accrued].  One currency: the program keeps currencies apart.     *)
(***************************************************************************)
EXTENDS Money

OfLot(sales, lot) == {s \in sales : s.lot = lot.id}
Quantity(S) == MapThenSumSet(LAMBDA s : s.qty, S)
OfPaper(S, isin) == {x \in S : x.isin = isin}

----------------------------------------------------------------------------
(* Who owns what, and when. *)

(* [mutant] a sale on the day of a payment takes the payment along *)
HolderQtyBySettlement(lot, sales, on) ==
  IF on <= lot.buy THEN 0
  ELSE Most(0, lot.qty - Quantity({s \in OfLot(sales, lot) : s.date <= on}))

(* A payment dated on the day of the purchase belongs to the seller, and   *)
(* so does one on the day of the sale.                                     *)
HolderQty(lot, sales, on) ==
  IF on <= lot.buy THEN 0
  ELSE Most(0, lot.qty - Quantity({s \in OfLot(sales, lot) : s.date < on}))

RemainingQtyNow(lot, sales) == Most(0, lot.qty - Quantity(OfLot(sales, lot)))

(* A payment has arrived when its day is past, or when it is marked so.    *)
Arrived(received, today, isin, d) == d < today \/ <<isin, d>> \in received

NominalOn(bond, payments, asOf) ==
  Most(0, bond.nominal - MapThenSumSet(LAMBDA p : p.per,
    {p \in OfPaper(payments, bond.isin) : p.type = "early" /\ p.date <= asOf}))

FuturePayments(payments, lots, sales, from) ==
  LET qty(p) == MapThenSumSet(LAMBDA l : HolderQty(l, sales, p.date), OfPaper(lots, p.isin))
  IN {[date |-> p.date, isin |-> p.isin, type |-> p.type, amount |-> p.per * qty(p)] :
        p \in {x \in payments : x.date >= from /\ qty(x) # 0}}

LotCost(l, qty) == l.price * qty + Apportion(l.fee, qty, l.qty)

(* [mutant] a paper that has been redeemed is still a position *)
GoneNever(b, asOf, received) == FALSE
Gone(b, asOf, received) ==
  b.maturity # NoDate /\ (b.maturity < asOf \/ Arrived(received, asOf, b.isin, b.maturity))

(* Positions: what is left of the lots of a paper, by paper.               *)
Positions(bonds, payments, lots, sales, asOf, received) ==
  LET held == {l \in lots : RemainingQtyNow(l, sales) > 0}
      qty(isin) == MapThenSumSet(LAMBDA l : RemainingQtyNow(l, sales), OfPaper(held, isin))
      invested(isin) ==
        MapThenSumSet(LAMBDA l : LotCost(l, RemainingQtyNow(l, sales)), OfPaper(held, isin))
      coming(isin) == {p \in OfPaper(payments, isin) : p.date >= asOf}
      next(isin) == CHOOSE p \in coming(isin) : \A q \in coming(isin) : p.date <= q.date
      row(isin) == [isin |-> isin, qty |-> qty(isin), invested |-> invested(isin),
                    nominal |-> 0, next |-> NoDate, nextAmt |-> 0, unknown |-> TRUE]
      known(b) == [row(b.isin) EXCEPT
        !.unknown = FALSE, !.nominal = b.nominal * qty(b.isin),
        !.next = IF coming(b.isin) = {} THEN NoDate ELSE next(b.isin).date,
        !.nextAmt = IF coming(b.isin) = {} THEN 0 ELSE next(b.isin).per * qty(b.isin)]
      papers == {l.isin : l \in held}
  IN {row(i) : i \in papers \ {b.isin : b \in bonds}}
       \cup {known(b) : b \in {x \in bonds : x.isin \in papers /\ ~Gone(x, asOf, received)}}

(* NewHoldings, the lots: LotHolding with what Held() says of it.          *)
NewHoldings(bonds, lots, sales, asOf, received) ==
  {[lot |-> l, remaining |-> RemainingQtyNow(l, sales),
    known |-> \E b \in bonds : b.isin = l.isin,
    matured |-> \E b \in bonds : b.isin = l.isin /\ (b.maturity < asOf
                                    \/ Arrived(received, asOf, b.isin, b.maturity))] : l \in lots}
Held(h) == h.remaining > 0 /\ h.known /\ ~h.matured

(* Ladder: nominal by the year of maturity.                                *)
Ladder(bonds, lots, sales, asOf) ==
  LET live == {b \in bonds : b.maturity >= asOf}
      qty(b) == MapThenSumSet(LAMBDA l : RemainingQtyNow(l, sales), OfPaper(lots, b.isin))
      years == {Year(b.maturity) : b \in {x \in live : qty(x) > 0}}
  IN [y \in years |-> MapThenSumSet(LAMBDA b : b.nominal * qty(b),
                                    {b \in live : Year(b.maturity) = y})]

----------------------------------------------------------------------------
(* Sales and the coupon that has accrued. *)

SaleProceeds(s) == s.clean * s.qty + s.accrued

Between(payments, lot, to) ==
  {p \in OfPaper(payments, lot.isin) : p.type = "coupon" /\ p.date > lot.buy /\ p.date <= to}
RealizedResult(lot, s, payments) ==
  SaleProceeds(s) - LotCost(lot, s.qty)
    + MapThenSumSet(LAMBDA p : p.per * s.qty, Between(payments, lot, s.date))

(* The beginning of the period that ends with next: a shorter first        *)
(* coupon means a shorter first period.                                    *)
couponStart(next, after) ==
  LET grid == DaysBetween(next.date, after.date)
      days == IF next.per < after.per THEN RatToInt64HalfEven(grid * next.per, after.per)
              ELSE grid
  IN IF grid <= 0 \/ after.per <= 0 \/ next.per <= 0 \/ days <= 0 THEN NoDate
     ELSE AddDays(next.date, -days)

EstimateAccrued(payments, isin, on) ==
  LET coupons == {p \in OfPaper(payments, isin) : p.type = "coupon"}
      past == {p.date : p \in {x \in coupons : x.date <= on}}
      ahead == {p.date : p \in {x \in coupons : x.date > on}}
      on1(d) == CHOOSE p \in coupons : p.date = d
      next == on1(Earliest(ahead))
      later == ahead \ {next.date}
      start == IF past # {} THEN Latest(past)
               ELSE IF later = {} THEN NoDate ELSE couponStart(next, on1(Earliest(later)))
      elapsed == DaysBetween(start, on)
  IN IF ahead = {} \/ start = NoDate \/ elapsed <= 0 THEN 0
     ELSE RatToInt64HalfEven(next.per * elapsed, DaysBetween(start, next.date))

(* What was paid for accrued coupons, by the coupon that returns it.       *)
AccruedPaid(payments, lots, sales) ==
  LET dates(l) == {p.date : p \in {x \in OfPaper(payments, l.isin) :
                     x.type = "coupon" /\ HolderQty(l, sales, x.date) > 0}}
      row(l) == [date |-> Earliest(dates(l)), isin |-> l.isin, lot |-> l.id,
                 amount |-> EstimateAccrued(payments, l.isin, l.buy)
                              * HolderQty(l, sales, Earliest(dates(l)))]
      rows == {row(l) : l \in {x \in lots : dates(x) # {}}}
      all(k) == MapThenSumSet(LAMBDA r : r.amount, {r \in rows : <<r.date, r.isin>> = k})
      keys == {<<r.date, r.isin>> : r \in {x \in rows : x.amount # 0}}
  IN {[date |-> k[1], isin |-> k[2], amount |-> all(k)] : k \in keys}

----------------------------------------------------------------------------
(* The loan from the reserve, and income that lies idle. *)

(* [mutant] a repayment counts from the next day on *)
ReserveLoanBalanceLate(principal, rate, taken, repays, asOf) ==
  Most(0, principal + roundDiv(principal * rate * DaysBetween(taken, asOf), 3650000)
            - Amounts(SelectSeq(repays, LAMBDA r : r.date < asOf)))

(* Interest by ACT/365 joins the debt at each repayment; what is paid over *)
(* the debt does not make it negative.                                     *)
ReserveLoanBalance(principal, rate, taken, repays, asOf) ==
  LET counts(r) == r.amount > 0 /\ r.date >= taken /\ r.date <= asOf
      events == SortSeq(SelectSeq(repays, counts), LAMBDA a, b : a.date < b.date)
      grown(st, to) ==
        [owed |-> st.owed + IF st.owed > 0 /\ to > st.at /\ rate > 0
                              THEN roundDiv(st.owed * rate * DaysBetween(st.at, to), 3650000)
                              ELSE 0,
         at |-> to]
      repaid(st, r) == LET g == grown(st, r.date) IN [g EXCEPT !.owed = Most(0, @ - r.amount)]
  IN IF principal <= 0 \/ asOf < taken THEN 0
     ELSE grown(FoldLeft(repaid, [owed |-> principal, at |-> taken], events), asOf).owed

(* Every outflow eats the oldest inflow dated no later than itself.        *)
RemainingInflows(events) ==
  LET by(a, b) == a.date < b.date
      inc == SortSeq(SelectSeq(events, LAMBDA e : e.amount > 0), by)
      out == SortSeq(SelectSeq(events, LAMBDA e : e.amount < 0), by)
      eat(left, b) ==
        LET open == {i \in DOMAIN inc : inc[i].date <= b.date}
            before(i) == SumFunctionOnSet(left, {j \in open : j < i})
        IN [i \in DOMAIN inc |->
              IF i \in open THEN left[i] - Least(left[i], Most(0, -b.amount - before(i)))
                            ELSE left[i]]
      left == FoldLeft(eat, [i \in DOMAIN inc |-> inc[i].amount], out)
  IN SelectSeq([i \in DOMAIN inc |-> [date |-> inc[i].date, amount |-> left[i]]],
               LAMBDA e : e.amount > 0)
IdleIncome(income, purchases) ==
  Amounts(RemainingInflows(income \o
            [i \in DOMAIN purchases |-> [purchases[i] EXCEPT !.amount = -@]]))

----------------------------------------------------------------------------
(* Properties. *)

(* Each coupon of a lot is received once, by the one who held the paper    *)
(* the day before: what the calendar of payments pays is what the results  *)
(* of the sales claim and what the rest of the lot brings.                 *)
EveryCouponOnce(payments, lots, sales) ==
  LET paid == {p \in FuturePayments(payments, lots, sales, NoDate) : p.type = "coupon"}
      sold(s) == LET l == CHOOSE x \in lots : x.id = s.lot
                 IN RealizedResult(l, s, payments) - SaleProceeds(s) + LotCost(l, s.qty)
      kept(l) == MapThenSumSet(LAMBDA p : p.per * RemainingQtyNow(l, sales),
                               Between(payments, l, 99991231))
  IN MapThenSumSet(LAMBDA p : p.amount, paid)
       = MapThenSumSet(sold, sales) + MapThenSumSet(kept, lots)

(* The comment at AccruedPaid: what was paid for accrued coupons never     *)
(* exceeds the coupon it is taken off.                                     *)
DeductionWithinCoupon(payments, lots, sales) ==
  LET coupons == {p \in FuturePayments(payments, lots, sales, NoDate) : p.type = "coupon"}
  IN \A a \in AccruedPaid(payments, lots, sales) :
       \E c \in coupons : c.date = a.date /\ c.isin = a.isin /\ a.amount <= c.amount

(* The accrued coupon grows from day to day and falls only when a coupon   *)
(* is paid.                                                                *)
AccruedGrows(payments, isin, d, e) ==
  d <= e /\ (\A p \in payments : p.isin # isin \/ p.date <= d \/ p.date > e) =>
    EstimateAccrued(payments, isin, d) <= EstimateAccrued(payments, isin, e)

(* The same money is never in the capital twice and never missing: a paper *)
(* of the directory is a position exactly while its redemption has not     *)
(* arrived, in the list of positions and in the holdings alike, and both   *)
(* hold what the ladder of nominals holds -- which keeps, until the day of *)
(* maturity is past, a paper whose redemption is marked as received.       *)
HeldUntilRedeemed(bonds, payments, lots, sales, asOf, received) ==
  LET pos == Positions(bonds, payments, lots, sales, asOf, received)
      held == {h \in NewHoldings(bonds, lots, sales, asOf, received) : Held(h)}
      ladder == Ladder(bonds, lots, sales, asOf)
      early == {b \in bonds : b.maturity >= asOf /\ <<b.isin, b.maturity>> \in received}
      left(S, isin) == MapThenSumSet(LAMBDA l : RemainingQtyNow(l, sales), OfPaper(S, isin))
  IN /\ \A b \in bonds :
          (\E p \in pos : p.isin = b.isin)
            <=> ~Arrived(received, asOf, b.isin, b.maturity) /\ left(lots, b.isin) > 0
     /\ \A p \in {x \in pos : ~x.unknown} :
          p.qty = MapThenSumSet(LAMBDA h : h.remaining, {h \in held : h.lot.isin = p.isin})
     /\ SumFunction(ladder)
          = MapThenSumSet(LAMBDA p : p.nominal, pos)
              + MapThenSumSet(LAMBDA b : b.nominal * left(lots, b.isin), early)

(* A loan repaid with what is owed is closed and stays closed, one coin    *)
(* less leaves that coin, a larger repayment never leaves more, and the    *)
(* order in which repayments were entered does not matter.                 *)
RepaymentCloses(principal, rate, taken, repays, asOf) ==
  LET balance(rs, d) == ReserveLoanBalance(principal, rate, taken, rs, d)
      owed == balance(repays, asOf)
      with(a) == Append(repays, [date |-> asOf, amount |-> a])
  IN /\ owed >= 0
     /\ balance(with(owed), asOf) = 0
     /\ owed > 1 => balance(with(owed - 1), asOf) = 1
     /\ (\A i \in DOMAIN repays : repays[i].date <= asOf) =>
          balance(with(owed), AddDays(asOf, 90)) = 0
     /\ \A i \in DOMAIN repays :
          balance([repays EXCEPT ![i].amount = @ + 7], asOf) <= owed
     /\ balance(Reverse(repays), asOf) = owed

(* Idle is what no outflow could have used, however outflows were matched  *)
(* with earlier inflows: the largest surplus of the inflows of the last    *)
(* days over the outflows of the same days.                                *)
IdleIsWhatNobodyCouldUse(events) ==
  LET since(d) == Amounts(SelectSeq(events, LAMBDA e : e.date >= d))
      days == {events[i].date : i \in DOMAIN events}
      spent == SelectSeq(events, LAMBDA e : e.amount < 0)
      idle == IdleIncome(SelectSeq(events, LAMBDA e : e.amount > 0),
                         [i \in DOMAIN spent |-> [spent[i] EXCEPT !.amount = -@]])
  IN /\ \A d \in days : since(d) <= idle
     /\ idle = 0 \/ \E d \in days : since(d) = idle
=============================================================================
