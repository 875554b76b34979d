----------------------------- MODULE DepositMath -----------------------------
(***************************************************************************)
(* Term deposits (internal/domain/deposit.go) and private pension accounts *)
(* (internal/domain/npf.go): interest by segments between top-ups, dates   *)
(* and taxes of payouts, early closing; units and prices of an account,    *)
(* the tax credit of a year and the schedule of the pension.               *)
(*                                                                         *)
(* A deposit is [principal, rate, open, maturity, payout, capitalized,     *)
(* tax, closed, closedAmount, topups]; rates and taxes in basis points.    *)
(***************************************************************************)
EXTENDS Money

DepositTaxBPOn(on) == IF on < 20241201 THEN 1950 ELSE 2300
taxBPOn(d, on) == IF d.tax >= 0 THEN d.tax ELSE DepositTaxBPOn(on)

topupsBetween(d, from, to) ==
  AmountsOf(d.topups, {i \in DOMAIN d.topups : from < d.topups[i].date /\ d.topups[i].date <= to})
BalanceAt(d, on) == d.principal + topupsBetween(d, NoDate, on)

simpleInterest(base, rate, days) ==
  IF days <= 0 \/ base <= 0 THEN 0 ELSE Quo(base * rate * days, 3650000)

(* [mutant] a top-up bears interest from the beginning of the period *)
accruedInterestOnAll(d, from, to) ==
  simpleInterest(BalanceAt(d, to), d.rate, DaysBetween(from, to))

(* Interest of a period, cut at the top-ups within it.                     *)
accruedInterest(d, from, to) ==
  LET cuts == {t \in {d.topups[i].date : i \in DOMAIN d.topups} : from < t /\ t < to}
      ends == Ascending(cuts \cup {from, to})
      segment(k) == simpleInterest(BalanceAt(d, ends[k]), d.rate,
                                   DaysBetween(ends[k], ends[k + 1]))
  IN Total([k \in 1..(Len(ends) - 1) |-> segment(k)])

(* Month by month from the opening, each time on the balance with the      *)
(* interest so far.                                                        *)
compoundInterestTo(d, end) ==
  LET whole == {k \in 1..(MonthsBetween(d.open, end) + 1) : AddMonthsClamp(d.open, k) < end}
      n == Cardinality(whole)
      upTo(k) == IF k > n THEN end ELSE AddMonthsClamp(d.open, k)
      step(st, k) ==
        [base |-> st.base + simpleInterest(st.base, d.rate, DaysBetween(st.prev, upTo(k)))
                    + topupsBetween(d, st.prev, upTo(k)),
         prev |-> upTo(k)]
      st == FoldLeft(step, [base |-> d.principal, prev |-> d.open], [k \in 1..(n + 1) |-> k])
  IN st.base - BalanceAt(d, end)

Active(d, asOf) == d.closed = NoDate /\ d.maturity >= asOf

(* From the day of the opening, so that a short month shortens only its    *)
(* own period; the last payout is at maturity.                             *)
interestDates(d) ==
  LET step == CASE d.payout = "monthly" -> 1 [] d.payout = "quarterly" -> 3 [] OTHER -> 0
      months == MonthsBetween(d.open, d.maturity)
      inner == {AddMonthsClamp(d.open, k * step) : k \in 1..(months + 1)}
  IN IF step = 0 THEN <<d.maturity>>
     ELSE Append(Ascending({x \in inner : x < d.maturity}), d.maturity)

Taxed(d, date, gross) == [date |-> date, gross |-> gross,
                          tax |-> Quo(gross * taxBPOn(d, date), 10000)]
Net(p) == p.gross - p.tax

interestPayments(d) ==
  LET dates == interestDates(d)
      prev(k) == IF k = 1 THEN d.open ELSE dates[k - 1]
      gross(k) == IF d.payout = "end" /\ d.capitalized THEN compoundInterestTo(d, d.maturity)
                  ELSE accruedInterest(d, prev(k), dates[k])
  IN SelectSeq([k \in DOMAIN dates |-> Taxed(d, dates[k], gross(k))], LAMBDA p : Net(p) > 0)

Coupons(pays) ==
  [k \in DOMAIN pays |-> [date |-> pays[k].date, type |-> "coupon", amount |-> Net(pays[k])]]
DepositSchedule(d, asOf) ==
  IF ~Active(d, asOf) THEN <<>>
  ELSE Append(SelectSeq(Coupons(interestPayments(d)), LAMBDA r : r.date >= asOf),
              [date |-> d.maturity, type |-> "redemption", amount |-> BalanceAt(d, d.maturity)])

PaidBeforeClose(d) ==
  IF d.closed = NoDate THEN <<>>
  ELSE SelectSeq(interestPayments(d), LAMBDA p : p.date < d.closed)

(* [mutant] the day of the closing is asked for its payout, too *)
DepositInterestEventsAll(d, from, to) ==
  SelectSeq(interestPayments(d), LAMBDA p : p.date >= from /\ p.date <= to)

(* Interest as events of the tax: payouts before the closing, and what was *)
(* returned over the balance, grossed up.                                  *)
DepositInterestEvents(d, from, to) ==
  LET in(on) == on >= from /\ on <= to
      paid == SelectSeq(interestPayments(d),
                LAMBDA p : in(p.date) /\ (d.closed = NoDate \/ p.date < d.closed))
      net == d.closedAmount - BalanceAt(d, d.closed)
      rate == taxBPOn(d, d.closed)
      gross == IF rate > 0 /\ rate < 10000
                 THEN (net * 10000 + 10000 - rate - 1) \div (10000 - rate) ELSE net
  IN IF d.closed = NoDate \/ ~in(d.closed) \/ net <= 0 THEN paid
     ELSE Append(paid, [date |-> d.closed, gross |-> gross, tax |-> gross - net])

(* DepositLadder and LadderEntry: balances by the year of maturity.        *)
DepositLadder(deposits, asOf) ==
  LET live == {i \in DOMAIN deposits : Active(deposits[i], asOf)}
      year(i) == Year(deposits[i].maturity)
  IN [y \in {year(i) : i \in live} |->
        MapThenSumSet(LAMBDA i : BalanceAt(deposits[i], deposits[i].maturity),
                      {i \in live : year(i) = y})]

(* The interest that has grown since the last payout, after its tax.       *)
AccruedNet(d, asOf) ==
  LET dates == Range(interestDates(d))
      prev == Latest({x \in dates : x <= asOf} \cup {d.open})
      next == Earliest({x \in dates : x > asOf} \cup {d.maturity})
      gross == IF d.payout = "end" /\ d.capitalized THEN compoundInterestTo(d, asOf)
               ELSE accruedInterest(d, prev, asOf)
  IN IF ~Active(d, asOf) \/ asOf <= d.open \/ asOf <= prev THEN 0
     ELSE gross - Quo(gross * taxBPOn(d, next), 10000)

----------------------------------------------------------------------------
(* Pension accounts: operations [id, npf, date, units, amount], units and  *)
(* prices in millionths.                                                   *)

NavE6(op, scale) == IF op.units <= 0 THEN 0 ELSE Quo(op.amount * scale, op.units)

(* The price of an account is that of its latest operation, or the one     *)
(* entered by hand if that is younger.                                     *)
NPFPosition(a, ops, scale) ==
  LET mine == SortSeq(SelectSeq(ops, LAMBDA o : o.npf = a.id), LAMBDA x, y : x.date < y.date)
      priced(p, nav, on) == IF nav > 0 /\ on >= p.navDate THEN [p EXCEPT !.nav = nav, !.navDate = on]
                                                          ELSE p
      step(p, o) == priced([p EXCEPT !.units = @ + o.units, !.cost = @ + o.amount, !.last = o.date],
                           NavE6(o, scale), o.date)
  IN FoldLeft(step, [units |-> 0, cost |-> 0, last |-> NoDate, nav |-> a.nav,
                     navDate |-> a.navDate], mine)
NPFValue(p, scale) == IF p.units <= 0 \/ p.nav <= 0 THEN 0 ELSE Quo(p.units * p.nav, scale)

NPFNavPoints(manual, ops, npf, scale) ==
  LET own == {m \in manual : m.npf = npf /\ m.nav > 0}
      priced == {i \in DOMAIN ops : ops[i].npf = npf /\ NavE6(ops[i], scale) > 0}
      last(d) == CHOOSE i \in priced : ops[i].date = d
                   /\ \A j \in priced : ops[j].date = d => j <= i
  IN [d \in {m.date : m \in own} \cup {ops[i].date : i \in priced} |->
        IF \E m \in own : m.date = d THEN (CHOOSE m \in own : m.date = d).nav
                                     ELSE NavE6(ops[last(d)], scale)]

NPFContribDue(a, ops, today) ==
  /\ a.contribDay > 0 /\ DayOf(today) >= a.contribDay
  /\ \A i \in DOMAIN ops : ops[i].npf = a.id =>
       <<Year(ops[i].date), Month(ops[i].date)>> # <<Year(today), Month(today)>>

(* [mutant] the cap of a month is applied to each account of its own *)
CappedEach(contrib, capMonth) ==
  [k \in DOMAIN contrib |-> IF capMonth > 0 THEN Least(contrib[k], capMonth) ELSE contrib[k]]
Capped(contrib, capMonth) ==
  LET sum == SumFunction(contrib)
  IN splitProportional(IF capMonth > 0 THEN Least(sum, capMonth) ELSE sum, contrib)

(* The credit of a year by account: each month up to a cap in common, all  *)
(* together up to the tax that was paid.                                   *)
NPFCreditByAccount(accounts, ops, year, capMonth, pdfoYear) ==
  LET with == {a \in accounts : a.creditRate > 0}
      of(m) == {i \in DOMAIN ops : Year(ops[i].date) = year /\ Month(ops[i].date) = m
                                     /\ \E a \in with : a.id = ops[i].npf}
      contrib(m) == [k \in {ops[i].npf : i \in of(m)} |->
                       AmountsOf(ops, {i \in of(m) : ops[i].npf = k})]
      months == {m \in 1..12 : of(m) # {}}
      ofMonth(a, m) == IF a.id \in DOMAIN contrib(m)
                         THEN Quo(Capped(contrib(m), capMonth)[a.id] * a.creditRate, 10000) ELSE 0
      credit == [id \in {a.id : a \in with} |->
                   MapThenSumSet(LAMBDA m : ofMonth(CHOOSE a \in with : a.id = id, m), months)]
      sum == SumFunction(credit)
  IN IF pdfoYear > 0 /\ sum > pdfoYear THEN splitProportional(pdfoYear, credit) ELSE credit

NPFPayoutMonths(a) ==
  [months |-> a.payoutYears * 12,
   step |-> CASE a.payoutFreq = "quarter" -> 3 [] a.payoutFreq = "year" -> 12 [] OTHER -> 1]

(* The last payout takes what the division leaves.                         *)
PayoutRows(a, net, n, step) ==
  [i \in 1..n |-> [date |-> AddMonthsClamp(a.access, (i - 1) * step),
                   amount |-> IF i = n THEN net - (net \div n) * (n - 1) ELSE net \div n]]
NPFPayoutSchedule(a, net, until) ==
  LET in == NPFPayoutMonths(a)
  IN IF a.access = NoDate \/ net <= 0 THEN <<>>
     ELSE SelectSeq(IF in.months < in.step THEN <<[date |-> a.access, amount |-> net]>>
                    ELSE PayoutRows(a, net, in.months \div in.step, in.step),
                    LAMBDA r : r.date <= until)

----------------------------------------------------------------------------
(* Properties. *)

Sum(rows, f(_)) == Total([i \in DOMAIN rows |-> f(rows[i])])

(* How often interest is paid does not change how much there is: only the  *)
(* rounding of each segment, a coin at most, tells monthly, quarterly and  *)
(* final payouts apart, whatever the ends of months and the top-ups.       *)
PayoutOnlyDivides(d) ==
  LET gross(p) == Sum(interestPayments([d EXCEPT !.payout = p, !.capitalized = FALSE]),
                      LAMBDA x : x.gross)
      segments == Len(interestDates([d EXCEPT !.payout = "monthly"])) + Len(d.topups)
  IN \A p, q \in {"end", "monthly", "quarterly"} : Abs(gross(p) - gross(q)) <= segments

(* The test of that name (deposit_test.go): topping a deposit up does not  *)
(* make its interest less.  Violated by a top-up dated on the day of the   *)
(* opening when interest is capitalised: it is taken off as money put in   *)
(* and was never in the balance that grew.                                 *)
TopupsGrowInterest(d) ==
  Sum(interestPayments(d), Net) >= Sum(interestPayments([d EXCEPT !.topups = <<>>]), Net)

(* What has accrued by a day grows towards the next payout and is never    *)
(* more than it: no interest is in the capital that the payout will not    *)
(* bring.                                                                  *)
AccruedIsPaid(d, s, t) ==
  Active(d, t) /\ s <= t /\ (\A x \in ToSet(interestDates(d)) : x <= s \/ x > t) =>
    \A grown \in {[day \in {s, t} |-> AccruedNet(d, day)]},
       due \in {{p \in ToSet(interestPayments(d)) : p.date > t}} :
      /\ grown[s] <= grown[t]
      /\ grown[t] > 0 =>
           \E next \in due : grown[t] <= Net(next) /\ \A q \in due : next.date <= q.date

(* Each payout belongs to one period of the tax, also when the deposit was *)
(* closed early: cutting the years anywhere changes no sum, and nothing is *)
(* taxed after the closing.                                                *)
TaxedOnce(d, from, cut, to) ==
  \A events \in {[part \in {<<from, to>>, <<from, cut>>, <<AddDays(cut, 1), to>>} |->
                    DepositInterestEvents(d, part[1], part[2])]} :
    from <= cut /\ cut < to =>
      /\ events[<<from, to>>] = events[<<from, cut>>] \o events[<<AddDays(cut, 1), to>>]
      /\ d.closed # NoDate /\ from <= d.open /\ d.closed <= to =>
           Sum(events[<<from, to>>], Net) = Sum(PaidBeforeClose(d), Net)
                                              + Most(0, d.closedAmount - BalanceAt(d, d.closed))

(* The ladder holds what the schedules return.                             *)
LadderReturns(deposits, asOf) ==
  LET ladder == DepositLadder(deposits, asOf)
      back(d) == Amounts(SelectSeq(DepositSchedule(d, asOf), LAMBDA r : r.type = "redemption"))
  IN SumFunction(ladder)
       = Total([i \in DOMAIN deposits |-> back(deposits[i])])

(* The credit of a year exceeds neither what each account earned by its    *)
(* own contributions, nor the cap of the months, nor the tax of the year;  *)
(* and when the tax is what limits it, all of the tax is returned.         *)
CreditWithinCaps(accounts, ops, year, capMonth, pdfoYear) ==
  LET own(a) == Amounts(SelectSeq(ops, LAMBDA o : o.npf = a.id /\ Year(o.date) = year))
      months == {Month(ops[i].date) : i \in DOMAIN ops}
      topRate == CHOOSE r \in {a.creditRate : a \in accounts} :
                   \A a \in accounts : a.creditRate <= r
  IN \A credit \in {[cap \in {0, pdfoYear} |->
                        NPFCreditByAccount(accounts, ops, year, capMonth, cap)]} :
       \A mine \in {credit[pdfoYear]} : \A sum \in {SumFunction(mine)} :
         /\ \A a \in accounts : a.creditRate > 0 =>
              0 <= mine[a.id] /\ mine[a.id] <= Quo(own(a) * a.creditRate, 10000)
         /\ capMonth > 0 => sum * 10000 <= Cardinality(months) * capMonth * topRate
         /\ pdfoYear > 0 => sum = Least(pdfoYear, SumFunction(credit[0]))

(* A pension pays out all there is, in equal parts but for the last, and   *)
(* never before the account may be used.                                   *)
PensionPaysAll(a, net, until) ==
  \A rows \in {NPFPayoutSchedule(a, net, until)}, last \in {NPFPayoutSchedule(a, net, 99991231)} :
    a.access # NoDate /\ net > 0 =>
      /\ Amounts(last) = net
      /\ rows = SubSeq(last, 1, Len(rows))
      /\ \A i \in DOMAIN last : last[i].date >= a.access /\ last[i].amount >= 0
      /\ \A i \in DOMAIN last : i > 1 => last[i - 1].date < last[i].date

(* The price of an account is the last point of its curve, when no two     *)
(* contributions share a day and prices are entered after them.            *)
NavOnTheCurve(a, ops, scale) ==
  LET manual == IF a.navDate = NoDate THEN {} ELSE {[npf |-> a.id, date |-> a.navDate, nav |-> a.nav]}
  IN \A curve \in {NPFNavPoints(manual, ops, a.id, scale)} :
       (\A i, j \in DOMAIN ops : ops[i].date = ops[j].date => i = j)
         /\ (\A i \in DOMAIN ops : ops[i].date # a.navDate) /\ DOMAIN curve # {} =>
       NPFPosition(a, ops, scale).nav
         = curve[CHOOSE d \in DOMAIN curve : \A e \in DOMAIN curve : e <= d]
=============================================================================
