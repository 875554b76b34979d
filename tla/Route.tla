-------------------------------- MODULE Route --------------------------------
(***************************************************************************)
(* The route of money (internal/engine/route.go): the receipts of the next *)
(* twelve months, each laid out with what the ones before have left, month *)
(* by month with its own ceilings, while the debt melts and the loan from  *)
(* the reserve accrues.                                                    *)
(*                                                                         *)
(* A receipt is [date, broker, cur, label, amount, principal, kind, basis, *)
(* uses]; brokers, currencies and labels are numbers in their order, and   *)
(* rates gives hryvnias for a unit of a currency.  A document adds to that *)
(* of Allocation [set, gap, loans, interest, cover, debtLeft, caps, kinds, *)
(* suggestions] and keeps its goals as PlanMath has them; kinds are *)
(* rows [kind, pct, current].  plans gives [planReserve, planGoals] by     *)
(* month, debt [principal, cover, due] or nothing.                         *)
(***************************************************************************)
EXTENDS PlanMath

routeHorizonMonths == 12

(* fundBroker: where most of the fund was bought; a tie is nobody's (0).   *)
fundBroker(buys) ==
  LET at(x) == MapThenSumSet(LAMBDA b : b.amount, {b \in buys : b.broker = x})
      step(best, x) ==
        IF at(x) > best.amount THEN [broker |-> x, amount |-> at(x), tie |-> FALSE]
        ELSE [best EXCEPT !.tie = @ \/ (at(x) = best.amount /\ best.amount > 0)]
      best == FoldLeft(step, [broker |-> None, amount |-> 0, tie |-> FALSE],
                       Ascending({b.broker : b \in buys}))
  IN IF best.tie THEN None ELSE best.broker

At(f) == <<f.broker, f.cur>>
sortFlows(flows) ==
  SortSeq(flows, LAMBDA f, g : KeyBefore(At(f) \o <<f.date, f.label>>, At(g) \o <<g.date, g.label>>))

(* What one label brings to a pot on one day is one receipt.               *)
SameEvent(f, g) == At(f) = At(g) /\ f.date = g.date /\ f.label = g.label
coalesceSameDay(flows) ==
  LET join(out, f) ==
        IF out # <<>> /\ SameEvent(Last(out), f)
        THEN [out EXCEPT ![Len(out)].amount = @ + f.amount,
                         ![Len(out)].principal = @ + f.principal]
        ELSE Append(out, f)
  IN FoldLeft(join, <<>>, flows)

(* Receipts of the portfolio, and the planned ones, each flow on its own.  *)
routeIncome(flows) ==
  coalesceSameDay(sortFlows(SelectSeq(flows, LAMBDA f : f.basis # "plan")))
    \o SelectSeq(flows, LAMBDA f : f.basis = "plan")

flattenIncome(flows, horizon) ==
  SortSeq(SelectSeq(flows, LAMBDA f : f.date <= horizon),
          LAMBDA f, g : KeyBefore(<<f.date>> \o At(f) \o <<f.label>>, <<g.date>> \o At(g) \o <<g.label>>))

mergeBasis(pot, ev) == IF pot = "" \/ pot = ev THEN ev ELSE "mixed"

----------------------------------------------------------------------------
(* The rate of several loans, weighed by what is owed: a fraction.         *)
routeLoanRate(loans) ==
  [sum |-> Total([i \in DOMAIN loans |-> loans[i].owed * loans[i].rate]),
   owed |-> Total([i \in DOMAIN loans |-> loans[i].owed])]

(* What the next receipt must know of those before it.                     *)
newRouteCarry(doc) ==
  [capital |-> doc.capital, reserve |-> doc.reserveTotal, goalsTotal |-> doc.goalsTotal,
   gap |-> doc.gap, fillNow |-> doc.fillNow, fillFrom |-> doc.fillFrom,
   owed |-> routeLoanRate(doc.loans).owed, interest |-> doc.interest, cover |-> doc.cover,
   debtLeft |-> doc.debtLeft, debtLeftAt |-> <<>>, month |-> 0,
   goals |-> doc.goals, fill |-> doc.fill, kinds |-> doc.kinds]

MonthlyInterest(c, rate) ==
  IF c.owed <= 0 \/ rate.sum <= 0 THEN 0 ELSE roundDiv(c.owed * rate.sum, 1200 * rate.owed)

(* [mutant] interest raises what is owed and not the gap *)
accrueLoanQuietly(c, rate) ==
  LET i == MonthlyInterest(c, rate)
  IN [c EXCEPT !.owed = @ + i, !.interest = @ + i]

accrueLoan(c, rate) ==
  LET i == MonthlyInterest(c, rate)
  IN [c EXCEPT !.owed = @ + i, !.interest = @ + i, !.gap = @ + i]

(* Every month up to m pays off the debt; the ceilings are those of m.     *)
enterMonth(c, m, doc, plans, debt) ==
  LET pass(x, k) ==
        LET melted == IF k \in DOMAIN debt THEN Most(0, x.debtLeft - debt[k].principal)
                      ELSE x.debtLeft
            y == [x EXCEPT !.month = k, !.debtLeft = melted,
                           !.cover = IF k \in DOMAIN debt THEN debt[k].cover ELSE @,
                           !.debtLeftAt = Append(@, melted)]
        IN accrueLoan(y, routeLoanRate(doc.loans))
      e == FoldLeft(pass, c, [i \in 1..(m - c.month) |-> c.month + i])
      share == reserveMonthShare(doc.set, e.reserve, plans[m].planReserve, 0, doc.caps,
                                 e.cover, e.interest)
      fresh == [i \in DOMAIN e.goals |-> [e.goals[i] EXCEPT !.moved = 0]]
  IN IF m <= c.month THEN c
     ELSE [e EXCEPT !.fillNow = share.fill, !.fillFrom = share.from, !.goals = fresh,
                    !.fill = GoalsFill(doc.set, fresh, plans[m].planGoals, doc.caps)]

redeem(c, principal, kind) ==
  [c EXCEPT !.kinds = [i \in DOMAIN @ |->
     IF principal > 0 /\ @[i].kind = kind THEN [@[i] EXCEPT !.current = @ - principal] ELSE @[i]]]

(* The document as this step of the route sees it: money that already lies *)
(* in the capital and is laid out once more is taken out of it.            *)
docOf(c, carryIn) ==
  [capital |-> c.capital - carryIn, reserveTotal |-> c.reserve, goalsTotal |-> c.goalsTotal,
   reserve |-> [fillNow |-> c.fillNow, gap |-> c.gap, fillFrom |-> c.fillFrom],
   goals |-> [i \in DOMAIN c.fill |-> [c.fill[i] EXCEPT !.gapPace = GapPace(c.goals[i])]],
   rows |-> c.kinds]

(* apply: a repaid loan takes the interest off the target again.           *)
apply(c, p, sug) ==
  LET owed == Most(0, c.owed - p.reserve)
      closed == p.reserve > 0 /\ owed = 0
      given(id) == IF id \in DOMAIN p.goals THEN p.goals[id] ELSE 0
      bought(kind) == SumFunctionOnSet(p.lines, {i \in DOMAIN sug : sug[i].kind = kind})
      gap == Most(0, c.gap - p.reserve)
  IN [c EXCEPT
        !.reserve = @ + p.reserve,
        !.gap = IF closed THEN Most(0, gap - c.interest) ELSE gap,
        !.fillNow = Most(0, @ - p.reserve),
        !.owed = owed,
        !.interest = IF closed THEN 0 ELSE @,
        !.goalsTotal = @ + SumFunction(p.goals),
        !.goals = [i \in DOMAIN @ |-> [@[i] EXCEPT !.gap = Most(0, @ - given(c.goals[i].id))]],
        !.fill = [i \in DOMAIN @ |-> [@[i] EXCEPT !.gap = Most(0, @ - given(c.fill[i].id)),
                                                  !.fillNow = Most(0, @ - given(c.fill[i].id))]],
        !.kinds = [i \in DOMAIN @ |-> [@[i] EXCEPT !.current = @ + bought(c.kinds[i].kind)]]]

earn(c, income) == [c EXCEPT !.capital = @ + income]

----------------------------------------------------------------------------
(* A pot is the money of a broker in a currency that waits for a whole     *)
(* step, and how much of it the reserve and the goals may have.            *)
NoPot == [minor |-> 0, eligible |-> 0, goalsEligible |-> 0, basis |-> "", pending |-> 0]

spend(p, uah, rate) ==
  IF uah <= 0 \/ rate <= 0 THEN p
  ELSE [p EXCEPT !.eligible = Most(0, @ - roundDiv(uah, rate)),
                 !.goalsEligible = Most(0, @ - roundDiv(uah, rate))]

clamp(p) == [p EXCEPT !.eligible = Least(@, p.minor), !.goalsEligible = Least(@, p.minor)]

(* A receipt falls into its pot, with the permission of its source.        *)
Received(p, ev, set, rate) ==
  LET src == IF ev.basis = "plan" THEN "plan" ELSE "portfolio"
      may(level, bucket) ==
        roundDiv(Eligible(level, src, ev.amount * rate, ev.principal * rate,
                          SourceCap(ev.uses, bucket, ev.amount * rate)), rate)
  IN clamp([minor |-> p.minor + ev.amount,
            eligible |-> p.eligible + may(set.reserveFrom, "reserve"),
            goalsEligible |-> p.goalsEligible + may(set.goalsFrom, "goals"),
            basis |-> mergeBasis(p.basis, ev.basis), pending |-> p.pending + 1])

(* [mutant] only one of the permissions is cut down to what is left *)
LeftInPotUnclamped(p, plan, rate) ==
  LET spent == plan.reserve + SumFunction(plan.goals) + SumFunction(plan.lines)
      after == spend(spend(p, plan.reserve, rate), SumFunction(plan.goals), rate)
      rest == roundDiv(plan.rest, rate)
  IN [after EXCEPT !.minor = rest, !.eligible = Least(@, rest),
                   !.basis = IF rest <= 0 THEN "" ELSE @,
                   !.pending = IF spent > 0 THEN 0 ELSE @]

(* What remains of the pot; what lies outside the shares leaves it, and    *)
(* receipts that have been put to use lose their names.                    *)
LeftInPot(p, plan, rate) ==
  LET spent == plan.reserve + SumFunction(plan.goals) + SumFunction(plan.lines)
      after == spend(spend(p, plan.reserve, rate), SumFunction(plan.goals), rate)
      rest == roundDiv(plan.rest, rate)
  IN clamp([after EXCEPT !.minor = rest,
                         !.basis = IF rest <= 0 THEN "" ELSE @,
                         !.pending = IF spent > 0 THEN 0 ELSE @])

(* One leg: [carry, pots, legs]; c is the document of its month, pot the   *)
(* old one with the receipt in it.                                         *)
Landed(st, ev, c, old, pot, plan, rate, sug) ==
  [carry |-> earn(apply(c, plan, sug), (ev.amount - ev.principal) * rate),
   pots |-> (<<ev.broker, ev.cur>> :> LeftInPot(pot, plan, rate)) @@ st.pots,
   legs |-> Append(st.legs,
              [ev |-> ev, at |-> <<ev.broker, ev.cur>>, rate |-> rate, carryIn |-> old.minor,
               plan |-> plan, basis |-> pot.basis, via |-> pot.pending, before |-> c])]
LaidOut(st, ev, c, old, pot, rate, sug, pick) ==
  Landed(st, ev, c, old, pot,
         AllocatePlan(docOf(c, old.minor * rate), sug, pot.minor * rate,
           [reserve |-> pot.eligible * rate, goals |-> pot.goalsEligible * rate,
            uses |-> ev.uses, pick |-> pick, carry |-> old.minor * rate]),
         rate, sug)
PotOf(pots, at) == IF at \in DOMAIN pots THEN pots[at] ELSE NoPot
Leg(st, ev, doc, plans, debt, rates, pick, today) ==
  LET rate == rates[ev.cur]
      old == PotOf(st.pots, <<ev.broker, ev.cur>>)
      month == enterMonth(st.carry, MonthOffsetRaw(today, ev.date), doc, plans, debt)
  IN LaidOut(st, ev, redeem(month, ev.principal * rate, ev.kind), old,
             Received(old, ev, doc.set, rate), rate, doc.suggestions, pick)

buildRoute(doc, flows, plans, debt, rates, pick, today) ==
  FoldLeft(LAMBDA st, ev : Leg(st, ev, doc, plans, debt, rates, pick, today),
           [carry |-> newRouteCarry(doc), pots |-> <<>>, legs |-> <<>>],
           flattenIncome(routeIncome(flows), AddMonths(today, routeHorizonMonths)))

(* The table of the debt: what is left at the end of each month and by how *)
(* much the payment falls.                                                 *)
debtMonths(route, doc, plans, debt) ==
  LET c == enterMonth(route.carry, routeHorizonMonths, doc, plans, debt)
      due(m) == IF m \in DOMAIN debt THEN debt[m].due ELSE 0
  IN [k \in 1..(routeHorizonMonths + 1) |->
        [left |-> IF k = 1 THEN doc.debtLeft ELSE c.debtLeftAt[k - 1],
         drop |-> IF k > 1 /\ due(k - 2) > due(k - 1) THEN due(k - 2) - due(k - 1) ELSE 0]]

----------------------------------------------------------------------------
LegsOf(route, at) == {i \in DOMAIN route.legs : route.legs[i].at = at}
TakenByGoals(route, S) == MapThenSumSet(LAMBDA i : SumFunction(route.legs[i].plan.goals), S)

(* What has come in lies in the reserve, the goals, the instruments, a pot *)
(* or outside the shares, and the capital of the carried document is what  *)
(* there is: no kopiyka is counted twice, whichever way it went.           *)
MoneyOnlyMoves(doc, route) ==
  LET kinds(rows) == Total([i \in DOMAIN rows |-> rows[i].current])
      places == kinds(route.carry.kinds) + route.carry.reserve + route.carry.goalsTotal
      before == kinds(doc.kinds) + doc.reserveTotal + doc.goalsTotal
      free == Total([i \in DOMAIN route.legs |-> route.legs[i].plan.free])
      slack == Total([i \in DOMAIN route.legs |-> route.legs[i].rate \div 2])
      rateOf(at) == route.legs[CHOOSE i \in LegsOf(route, at) : TRUE].rate
      waiting == MapThenSumSet(LAMBDA at : route.pots[at].minor * rateOf(at), DOMAIN route.pots)
  IN Abs((route.carry.capital - doc.capital) - (places + free + waiting - before)) <= slack

(* A fund pays to the broker where more of it was bought than at any other,*)
(* and to none when there is no such one, in whatever order they come.     *)
FundPaysWhereMostWasBought(buys) ==
  LET at(x) == MapThenSumSet(LAMBDA b : b.amount, {b \in buys : b.broker = x})
      most(x) == \A b \in buys : b.broker # x => at(b.broker) < at(x)
  IN \A x \in {b.broker : b \in buys} \ {None} : fundBroker(buys) = x <=> at(x) > 0 /\ most(x)

(* A coupon and a redemption that come together are one leg, and joining   *)
(* them neither makes nor loses income or principal of their pot.          *)
OneLegADay(flows, route, horizon) ==
  LET sum(rows, at, f(_)) == Total([i \in DOMAIN rows |-> IF At(rows[i]) = at THEN f(rows[i]) ELSE 0])
      legs == [i \in DOMAIN route.legs |-> route.legs[i].ev]
      due == SelectSeq(flows, LAMBDA f : f.date <= horizon)
  IN /\ \A i, j \in DOMAIN legs :
          legs[i].basis # "plan" /\ legs[j].basis # "plan" /\ SameEvent(legs[i], legs[j]) => i = j
     /\ \A at \in {At(due[i]) : i \in DOMAIN due} :
          /\ sum(legs, at, LAMBDA f : f.amount) = sum(due, at, LAMBDA f : f.amount)
          /\ sum(legs, at, LAMBDA f : f.principal) = sum(due, at, LAMBDA f : f.principal)

(* Loans carried as one accrue in a month what they accrue apart, to half  *)
(* a coin each.                                                            *)
LoansAccrueTogether(doc) ==
  \A much \in {1, 10} :
    LET loans == [i \in DOMAIN doc.loans |-> [doc.loans[i] EXCEPT !.owed = much * @]]
        apart == Total([i \in DOMAIN loans |-> roundDiv(loans[i].owed * loans[i].rate, 1200)])
        c == newRouteCarry([doc EXCEPT !.loans = loans])
    IN Abs(2 * (accrueLoan(c, routeLoanRate(loans)).owed - c.owed - apart)) <= Len(loans) + 1

(* Money whose source may not fill the goals does not fill them, however   *)
(* long it waited and with whatever it was mixed: the goals take of a pot  *)
(* no more than what was theirs to take since, and what lay there before.  *)
ForbiddenStaysForbidden(doc, route) ==
  \A at \in {route.legs[i].at : i \in DOMAIN route.legs} :
    \A j, k \in LegsOf(route, at) :
      LET between == {i \in LegsOf(route, at) : j <= i /\ i <= k}
          theirs(i) ==
            LET ev == route.legs[i].ev
            IN Eligible(doc.set.goalsFrom, IF ev.basis = "plan" THEN "plan" ELSE "portfolio",
                        ev.amount, ev.principal, SourceCap(ev.uses, "goals", ev.amount))
          rate == route.legs[j].rate
      IN j <= k =>
           TakenByGoals(route, between) <=
             (route.legs[j].carryIn + MapThenSumSet(theirs, between)) * rate
             + Cardinality(between) * (rate \div 2)

(* The gap carried along is the gap of the reserve carried along, with the *)
(* interest of its loan; a repaid loan leaves no interest behind.          *)
GapIsTheGap(doc, route, debt) ==
  LET c == route.carry
  IN DOMAIN debt = {} =>
       /\ c.gap = ReserveTarget(doc.set, c.reserve, doc.caps, c.cover, c.interest).gap
       /\ c.owed = 0 => c.interest = 0

(* The reserve is not filled past its target of the day (while the cover   *)
(* of the debt stays), nor a goal priced in money of today past its gap.   *)
RouteStopsAtTarget(doc, route, debt) ==
  /\ DOMAIN debt = {} =>
       \A i \in DOMAIN route.legs :
         LET leg == route.legs[i]
         IN leg.plan.reserve > 0 =>
              leg.plan.reserve <= ReserveTarget(doc.set, leg.before.reserve, doc.caps,
                                                leg.before.cover, leg.before.interest).gap
  /\ \A g \in Range(doc.goals) :
       g.requiredFuture = 0 =>
         Total([i \in DOMAIN route.legs |->
                  LET cuts == route.legs[i].plan.goals
                  IN IF g.id \in DOMAIN cuts THEN cuts[g.id] ELSE 0]) <= g.gap

(* Whatever legs there are, the debt melts month by month as its schedule  *)
(* says, and what the payments fall by in all is what they have fallen.    *)
DebtMelts(doc, route, plans, debt) ==
  LET rows == debtMonths(route, doc, plans, debt)
      paid(m) == MapThenSumSet(LAMBDA k : debt[k].principal, {k \in DOMAIN debt : 0 < k /\ k <= m})
  IN \A k \in DOMAIN rows : rows[k].left = Most(0, doc.debtLeft - paid(k - 1))

(* Violated (README): a goal priced in money of its due year is given its  *)
(* pace past its gap, for the gap of that price is never lowered.          *)
GoalNeverOverfilled(doc, route) ==
  \A g \in Range(doc.goals) :
    Total([i \in DOMAIN route.legs |->
             LET cuts == route.legs[i].plan.goals
             IN IF g.id \in DOMAIN cuts THEN cuts[g.id] ELSE 0]) <= GapPace(g)

(* Violated (README): when the cover of the debt falls along the route, the*)
(* target falls and the carried gap does not.                              *)
ReserveNeverOverfilled(doc, route) ==
  \A i \in DOMAIN route.legs :
    LET leg == route.legs[i]
    IN leg.plan.reserve > 0 =>
         leg.plan.reserve <= ReserveTarget(doc.set, leg.before.reserve, doc.caps,
                                           leg.before.cover, leg.before.interest).gap
=============================================================================
