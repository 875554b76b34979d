------------------------------ MODULE PlanMath ------------------------------
(***************************************************************************)
(* The plan of income (internal/engine/state_plan.go, plan_timeline.go),   *)
(* the plan of a month (state_month.go) and what a month gives the reserve *)
(* and the goals (state_month.go, internal/state/derive.go).               *)
(*                                                                         *)
(* A flow is [id, kind, cadence, from, until, amount, invest, growth,      *)
(* uses], shares and growth in per cent; a receipt [flow, month, amount,   *)
(* invest, uses] marks a flow as received in a month, or is unplanned when *)
(* flow = None; an expense is [amount, due, paid, from].  A month is its   *)
(* number from the beginning of the calendar.  All sums are in hryvnias.   *)
(***************************************************************************)
EXTENDS Allocation

MonthOffsetRaw(today, d) == (Year(d) - Year(today)) * 12 + Month(d) - Month(today)
MonthKeyAt(today, m) == Year(today) * 12 + Month(today) - 1 + m
receiptDueDate(key, day) == DateOnDay(key \div 12, (key % 12) + 1, day)

(* NewPlanMarks, at: a month of a flow has one mark.                       *)
Marked(marks, f, today, m) == \E r \in marks : r.flow = f.id /\ r.month = MonthKeyAt(today, m)
MarkOf(marks, f, today, m) == CHOOSE r \in marks : r.flow = f.id /\ r.month = MonthKeyAt(today, m)

StepOf(cadence) == CASE cadence = "month" -> 1 [] cadence = "quarter" -> 3 [] OTHER -> 12

(* [mutant] the month of the closing always pays *)
planFlowAmountToTheMonth(f, today, start, m, marks) ==
  IF m < start \/ (f.until # NoDate /\ m > MonthOffsetRaw(today, f.until))
       \/ (IF f.cadence = "once" THEN m # start ELSE (m - start) % StepOf(f.cadence) # 0)
  THEN 0 ELSE f.amount

(* What a flow gives in month m, counted from its start: the mark of the   *)
(* month says what came, otherwise the amount grows by whole years.        *)
planFlowAmount(f, today, start, m, marks) ==
  LET endM == MonthOffsetRaw(today, f.until)
      over == f.until # NoDate /\ (m > endM \/ (m = endM /\ DayOf(f.from) > DayOf(f.until)))
      onStep == IF f.cadence = "once" THEN m = start ELSE (m - start) % StepOf(f.cadence) = 0
      years == (m - start) \div 12
      amount == IF Marked(marks, f, today, m) THEN MarkOf(marks, f, today, m).amount
                ELSE IF f.growth = 0 \/ f.cadence = "once" THEN f.amount
                ELSE (f.amount * (100 + f.growth) ^ years) \div 100 ^ years
      sign == IF f.kind = "expense" THEN -1 ELSE 1
  IN IF m < start \/ over \/ ~onStep THEN 0 ELSE sign * roundDiv(amount * f.invest, 100)

(* From the next month on, a single event of this month that is still to   *)
(* come falls into month 1, for the projection has no month 0, and one     *)
(* that is past into none.                                                 *)
planFlowAtMonth(f, today, m, marks) ==
  LET raw == MonthOffsetRaw(today, f.from)
      ahead == m >= 1 /\ f.cadence = "once"
      gone == raw < 0 \/ (raw = 0 /\ (Marked(marks, f, today, 0) \/ f.from < today))
  IN IF ahead /\ gone THEN 0
     ELSE planFlowAmount(f, today, IF ahead THEN Most(raw, 1) ELSE raw, m, marks)
Gross(f) == [f EXCEPT !.invest = 100]

(* A single expense presses on its month, an overdue one on this.          *)
PressDate(e, today) == Most(e.due, today)
PressMonth(e, today) == IF e.paid # NoDate THEN -1 ELSE Most(0, MonthsBetween(today, e.due))
plannedInMonth(expenses, today, m, after, from) ==
  AmountsOf(expenses, {i \in DOMAIN expenses :
       LET e == expenses[i]
       IN /\ e.from = from /\ PressMonth(e, today) = m
          /\ (after = NoDate \/ (e.paid = NoDate /\ e.due < today) \/ PressDate(e, today) > after)})

----------------------------------------------------------------------------
(* The plan of month m: src is [flows, receipts, expenses, due], due what  *)
(* debts ask for in the month.  A mark does not remove the flow's month.   *)
(* By flow that pays in the month: its whole amount and its share.         *)
InMonth(src, today, m, after) ==
  LET date(f) == receiptDueDate(MonthKeyAt(today, m), DayOf(f.from))
      pays == {i \in DOMAIN src.flows :
                 /\ planFlowAtMonth(Gross(src.flows[i]), today, m, {}) # 0
                 /\ after = NoDate \/ date(src.flows[i]) > after}
  IN [i \in pays |->
        [kind |-> src.flows[i].kind, uses |-> src.flows[i].uses, date |-> date(src.flows[i]),
         gross |-> planFlowAtMonth(Gross(src.flows[i]), today, m, src.receipts),
         share |-> planFlowAtMonth(src.flows[i], today, m, src.receipts),
         skip |-> date(src.flows[i]) < today
                  \/ (m = 0 /\ Marked(src.receipts, src.flows[i], today, 0))]]

(* Receipts nobody planned, as flows of the month.                         *)
Unplanned(src, today, m, after) ==
  {r \in src.receipts : after = NoDate /\ r.flow = None /\ r.month = MonthKeyAt(today, m)}
UnplannedFlows(extras) ==
  [r \in extras |-> [uses |-> r.uses, gross |-> r.amount, share |-> roundDiv(r.amount * r.invest, 100)]]

SharesTo(flows, bucket) ==
  SumFunction([i \in {j \in DOMAIN flows : PlanUseAllowed(flows[j].uses, bucket)} |-> flows[i].share])
Whole(flows) == SumFunction([i \in DOMAIN flows |-> flows[i].gross])
Shares(flows) == SumFunction([i \in DOMAIN flows |-> flows[i].share])
OfKind(flows, kind) == Restrict(flows, {i \in DOMAIN flows : flows[i].kind = kind})

(* Debts are paid from what stays on the card first, the rest of them and  *)
(* the expenses from the plan.                                             *)
NetPlan(income, extra, due, spending, deposited) ==
  LET onCard == Most(0, Whole(income) + Whole(extra) - Shares(income) - Shares(extra))
      fromPlan == Most(0, due - onCard)
      left(bucket) == SharesTo(income, bucket) + SharesTo(extra, bucket) - spending - fromPlan
      plan == Shares(income) + Shares(extra) - spending - fromPlan
  IN [plan |-> plan, extra |-> Shares(extra), onCard |-> onCard, debtFromPlan |-> fromPlan,
      planReserve |-> Most(0, left("reserve")), planGoals |-> Most(0, left("goals")),
      left |-> Most(0, plan - deposited)]

MonthOf(src, today, m, deposited, after, flows) ==
  NetPlan(OfKind(flows, "income"), UnplannedFlows(Unplanned(src, today, m, after)), src.due,
          plannedInMonth(src.expenses, today, m, after, "plan") - Shares(OfKind(flows, "expense")),
          deposited)
buildMonthPlan(src, today, m, deposited, after) ==
  MonthOf(src, today, m, deposited, after, InMonth(src, today, m, after))

(* The legs of a month: the net plan divided among its incomes by weight;  *)
(* [date, amount, uses, skip] by index of the flow.                        *)
Legs(flows, plan) ==
  LET part == {i \in DOMAIN flows : flows[i].kind = "income" /\ flows[i].share > 0}
      last == IF part = {} THEN 0 ELSE CHOOSE i \in part : \A j \in part : j <= i
      cut == splitByWeights(plan.plan - plan.extra,
                            [i \in 1..last |-> IF i \in part THEN flows[i].share ELSE 0])
  IN [i \in part |-> [date |-> flows[i].date, amount |-> cut[i], uses |-> flows[i].uses,
                      skip |-> flows[i].skip]]
planParts(src, today, m) ==
  Legs(InMonth(src, today, m, NoDate), buildMonthPlan(src, today, m, 0, NoDate))

(* What is still to come of the legs of a month.                           *)
planAhead(src, today, m) ==
  LET parts == planParts(src, today, m)
  IN Restrict(parts, {i \in DOMAIN parts : parts[i].amount > 0 /\ ~parts[i].skip})

----------------------------------------------------------------------------
(* The reserve's target and gap: months of expenses, fewer under pressure  *)
(* of debt, never below what the coming debt needs, and the interest owed  *)
(* to the reserve on top; 0 stands for a setting that is not there.        *)
ReserveTarget(set, reserve, debtCaps, cover, owedInterest) ==
  LET capped == debtCaps /\ set.debtMonths > 0 /\ set.debtMonths < set.months
      months == IF capped THEN set.debtMonths ELSE set.months
      target == Most(set.expenses * months, cover) + Most(0, owedInterest)
  IN IF set.expenses <= 0 \/ months <= 0 THEN [target |-> 0, gap |-> 0]
     ELSE [target |-> target, gap |-> Most(0, target - reserve)]

(* [mutant] what was moved this month is not added back to the gap *)
reserveMonthShareEatsItself(set, reserve, planReserve, moved, debtCaps, cover, owedInterest) ==
  LET room == ReserveTarget(set, reserve, debtCaps, cover, owedInterest).gap
      month == Least(roundDiv(planReserve * set.reserveShare, 100), room)
  IN IF set.reserveShare <= 0 \/ planReserve <= 0 \/ room <= 0
     THEN [month |-> 0, fill |-> 0, from |-> 0]
     ELSE [month |-> month, fill |-> Most(0, month - moved), from |-> planReserve]

(* The month's share for the reserve and what is left of it to move now.   *)
reserveMonthShare(set, reserve, planReserve, moved, debtCaps, cover, owedInterest) ==
  LET room == ReserveTarget(set, reserve, debtCaps, cover, owedInterest).gap + moved
      month == Least(roundDiv(planReserve * set.reserveShare, 100), room)
  IN IF set.reserveShare <= 0 \/ planReserve <= 0 \/ room <= 0
     THEN [month |-> 0, fill |-> 0, from |-> 0]
     ELSE [month |-> month, fill |-> Most(0, month - moved), from |-> planReserve]

(* A goal is [id, done, due, gap, required, gapFuture, requiredFuture,     *)
(* moved]: with a price of the due year known, pace and gap are in money   *)
(* of that year.                                                           *)
RequiredPace(g) == IF g.requiredFuture > 0 THEN g.requiredFuture ELSE g.required
GapPace(g) == IF g.requiredFuture > 0 /\ g.gapFuture > 0 THEN g.gapFuture ELSE g.gap

(* The month's ceiling over the goals, taken in their order; a goal without*)
(* a date asks for all it lacks.                                           *)
GoalsFill(set, goals, plan, debtPressure) ==
  LET open == {i \in DOMAIN goals : ~goals[i].done}
      moved == MapThenSumSet(LAMBDA i : goals[i].moved, open)
      room == MapThenSumSet(LAMBDA i : GapPace(goals[i]), open) + moved
      ceiling == Least(roundDiv(plan * set.goalsShare, 100), room)
      silent == plan <= 0 \/ (debtPressure /\ set.goalsWhileDebt = "pause")
                \/ set.goalsShare <= 0 \/ room <= 0
      need(g) == LET pace == IF ~g.due \/ RequiredPace(g) <= 0 THEN GapPace(g) ELSE RequiredPace(g)
                 IN Least(pace, GapPace(g))
      asks(g) == ~silent /\ ~g.done /\ GapPace(g) > 0
      row(g, take, want) ==
        [id |-> g.id, fillNow |-> take, fillMonth |-> IF asks(g) THEN g.moved + take ELSE 0,
         gap |-> g.gap, gapPace |-> GapPace(g), fillFrom |-> IF asks(g) THEN plan ELSE 0,
         short |-> IF g.due THEN want - take ELSE 0]
      step(st, g) ==
        LET want == IF asks(g) THEN Most(0, need(g) - g.moved) ELSE 0
            take == Least(want, st.left)
        IN [left |-> st.left - take, rows |-> Append(st.rows, row(g, take, want))]
  IN FoldLeft(step, [left |-> Most(0, ceiling - moved), rows |-> <<>>], goals).rows

(* How long the reserve lasts: months in which what is at hand, and what   *)
(* can be called back, covers the expenses so far; and the rung to lay.    *)
deriveReserveLadder(liquid, deposits, expenses, targetMonths, liquidMonths, maxTerm) ==
  LET months == 1..targetMonths
      sumOf(S) == AmountsOf(deposits, S)
      avail(h) == liquid + sumOf({i \in DOMAIN deposits : deposits[i].months <= h})
      reachable(h) == liquid + sumOf({i \in DOMAIN deposits :
                                       deposits[i].months <= h \/ deposits[i].revocable})
      run(A(_)) == Cardinality({h \in months : \A k \in 1..h : A(k) >= k * expenses})
      bare == {h \in months : avail(h) < h * expenses}
      gaps == {h \in months : reachable(h) < h * expenses}
  IN [covers |-> run(avail), reach |-> run(reachable),
      gapMonth |-> IF gaps = {} THEN 0 ELSE CHOOSE h \in gaps : \A k \in gaps : h <= k,
      next |-> IF maxTerm > 0 /\ liquid >= liquidMonths * expenses /\ bare # {}
               THEN Least(CHOOSE h \in bare : \A k \in bare : k <= h, maxTerm) ELSE 0]

----------------------------------------------------------------------------
(* A regular flow pays in the same months whatever day it is asked on, and *)
(* never after the day it ends (state_plan.go: the phase and the years of  *)
(* growth are counted from its own date).                                  *)
SameFromAnyDay(f, day, other, m) ==
  LET there == m + MonthOffsetRaw(other, day)
      due == receiptDueDate(MonthKeyAt(day, m), DayOf(f.from))
  IN /\ f.cadence # "once" =>
          planFlowAtMonth(f, day, m, {}) = planFlowAtMonth(f, other, there, {})
     /\ planFlowAtMonth(f, day, m, {}) # 0 /\ f.until # NoDate => due <= f.until

(* A flow closed the day before its amount changes pays every month once,  *)
(* the old amount or the new (state_plan.go:183).                          *)
HandoverPaysOnce(f, from, newAmount, day, m) ==
  LET old == [f EXCEPT !.until = AddDays(from, -1)]
      new == [f EXCEPT !.from = from, !.amount = newAmount, !.id = f.id + 1]
      paid == {x \in {old, new} : planFlowAtMonth(x, day, m, {}) # 0}
  IN (f.cadence = "month" /\ DayOf(from) = DayOf(f.from) /\ from > f.from
        /\ m >= MonthOffsetRaw(day, f.from)) => Cardinality(paid) = 1

(* Legs of a month that may fill the reserve (the goals) together reach    *)
(* what the month allows it: route_income.go says so of the reserve.       *)
LegsReachTheCeiling(src, today, m, parts, plan) ==
  LET legs(b) == SumFunction([i \in {j \in DOMAIN parts : PlanUseAllowed(parts[j].uses, b)} |->
                          parts[i].amount])
  IN (plan.plan > 0 /\ Unplanned(src, today, m, NoDate) = {}) =>
       /\ legs("reserve") + Cardinality(DOMAIN parts) > plan.planReserve
       /\ legs("goals") + Cardinality(DOMAIN parts) > plan.planGoals
       /\ SumFunction([i \in DOMAIN parts |-> parts[i].amount]) = plan.plan

(* A leg keeps its sum while the month goes on: those that have come take  *)
(* nothing from those that are still to come and leave them nothing.       *)
LegsKeepTheirSums(src, today, m) ==
  \A other \in {DateOnDay(Year(today), Month(today), n) : n \in {8, 21, 31}} :
    other >= today =>
      \A now \in {planAhead(src, today, m)}, then \in {planAhead(src, other, m)} :
        /\ \A i \in DOMAIN then : i \in DOMAIN now /\ then[i] = now[i]
        /\ \A i \in DOMAIN now \ DOMAIN then : now[i].date < other

(* Money marked as received may go where the leg of its flow might go,     *)
(* whatever is written at the mark itself.                                 *)
MarkGoesWhereItsLegDoes(src, parts) ==
  \A r \in src.receipts :
    r.flow \in DOMAIN parts =>
      UsesForRef([kind |-> "receipt", id |-> r], src.flows, [x \in src.receipts |-> x])
        = parts[r.flow].uses

(* Having moved what it was told to, the reserve asks for nothing more     *)
(* this month, and in one step or two it is given the same.                *)
ShareNotAskedTwice(set, reserve, plan, part) ==
  LET share(r, moved) == reserveMonthShare(set, r, plan, moved, FALSE, 0, 0)
  IN \A first \in {share(reserve, 0).fill} : \A now \in {Least(part, first)} :
       share(reserve + now, now).fill = first - now

(* Goals keep within the month's ceiling, an earlier goal is served before *)
(* a later one, none is given more than it lacks; and goals that did what  *)
(* they were told ask for nothing more.                                    *)
GoalsShareTheCeiling(set, goals, plan) ==
  LET moved == MapThenSumSet(LAMBDA i : IF goals[i].done THEN 0 ELSE goals[i].moved, DOMAIN goals)
      obeyed(rows) == [i \in DOMAIN goals |->
                         [goals[i] EXCEPT !.moved = @ + rows[i].fillNow,
                                          !.gap = Most(0, @ - rows[i].fillNow),
                                          !.gapFuture = Most(0, @ - rows[i].fillNow)]]
  IN \A rows \in {GoalsFill(set, goals, plan, FALSE)} :
       /\ \A now \in {Total([i \in DOMAIN rows |-> rows[i].fillNow])} :
            now > 0 => moved + now <= roundDiv(plan * set.goalsShare, 100)
       /\ \A i \in DOMAIN rows : rows[i].fillNow <= rows[i].gapPace
       /\ \A i, j \in DOMAIN rows : i < j /\ rows[i].short > 0 => rows[j].fillNow = 0
       /\ \A again \in {GoalsFill(set, obeyed(rows), plan, FALSE)} :
            \A i \in DOMAIN again : again[i].fillNow = 0

(* Spent month by month, the reserve lasts as long as the ladder says.     *)
LadderIsWhatLasts(liquid, deposits, expenses, months) ==
  LET ladder == deriveReserveLadder(liquid, deposits, expenses, months, 1, 3)
      matured(h) == AmountsOf(deposits, {i \in DOMAIN deposits :
                         deposits[i].months <= h /\ (h > 1 => deposits[i].months > h - 1)})
      spend(st, h) == IF st.cash + matured(h) < expenses THEN [st EXCEPT !.dry = TRUE]
                      ELSE [cash |-> st.cash + matured(h) - expenses, dry |-> st.dry,
                            lasted |-> IF st.dry THEN st.lasted ELSE h]
      end == FoldLeft(spend, [cash |-> liquid, dry |-> FALSE, lasted |-> 0],
                      [h \in 1..months |-> h])
  IN ladder.covers = end.lasted /\ ladder.covers <= ladder.reach

(* Violated (README): a single event still to come this month falls into   *)
(* this month's plan and into the next one's.                              *)
OneTimeOnce(f, today, from, to) ==
  f.cadence = "once" =>
    Cardinality({m \in from..to : planFlowAtMonth(f, today, m, {}) # 0}) <= 1

(* Violated (README): what a goal was given this month is taken off its    *)
(* gap and then off its need again.                                        *)
GoalNotAskedLessForAPart(set, g, plan, part) ==
  \A first \in {GoalsFill(set, <<g>>, plan, FALSE)[1].fillNow} : \A now \in {Least(part, first)} :
    ~g.due /\ g.moved = 0 =>
      GoalsFill(set, <<[g EXCEPT !.moved = now, !.gap = @ - now]>>, plan, FALSE)[1].fillNow
        = first - now
=============================================================================
