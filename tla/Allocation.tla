----------------------------- MODULE Allocation -----------------------------
(***************************************************************************)
(* Laying out a sum (internal/engine/allocate.go): the reserve and the     *)
(* goals take their share of the month, the rest is spread over the kinds  *)
(* of instruments by need (spreadMonth), kinds buy whole steps, and what   *)
(* remains tops up whoever is short.                                       *)
(*                                                                         *)
(* Sums are small whole numbers of minor units; the floor under which no   *)
(* separate movement is made (ten hryvnias) is ten of them.  A document is *)
(* [capital, reserveTotal, goalsTotal, reserve, goals, rows]: reserve is   *)
(* [fillNow, gap, fillFrom] or NoReserve, goals a sequence of [id, fillNow,*)
(* gap, gapPace, short, fillFrom], rows a sequence of [kind, pct, current].*)
(* A suggestion is [kind, isin, cost]: what a step costs, 0 for a price    *)
(* that is not known or a pension account that is not.                     *)
(***************************************************************************)
EXTENDS Money

allocMinCut == 10
NoReserve == [fillNow |-> 0, gap |-> 0, fillFrom |-> 0]
Buckets == {"reserve", "goals", "invest", "npf"}

(* What is ticked is kept; all of it is kept as nothing, which allows      *)
(* everything, what will be added later too.                               *)
ParsePlanUses(tokens) == IF tokens = Buckets THEN {} ELSE tokens
PlanUsesList(uses) == IF uses = {} THEN Buckets ELSE uses
PlanUseAllowed(uses, bucket) == uses = {} \/ bucket \in uses
allocKindForbidden(uses, kind) ==
  ~PlanUseAllowed(uses, IF kind = "npf" THEN "npf" ELSE "invest")

(* What part of a sum may fill the reserve (the goals), by the policy ...  *)
eligibleUAH(level, src, amount, principal) ==
  CASE level = "plan" -> IF src = "plan" THEN amount ELSE 0
    [] level = "redeem" -> IF src = "plan" THEN amount ELSE Least(amount, Most(0, principal))
    [] OTHER -> amount

(* ... and by what its source may be used for.                             *)
SourceCap(uses, bucket, amount) == IF PlanUseAllowed(uses, bucket) THEN amount ELSE 0
Eligible(level, src, amount, principal, sourceCap) ==
  Least(eligibleUAH(level, src, amount, principal), Most(0, sourceCap))

(* The permission of a receipt is that of its flow, when it has one.       *)
UsesForRef(ref, flows, receipts) ==
  CASE ref.kind = "" -> {}
    [] ref.kind = "flow" -> flows[ref.id].uses
    [] OTHER -> IF receipts[ref.id].flow = None THEN receipts[ref.id].uses
                ELSE flows[receipts[ref.id].flow].uses

----------------------------------------------------------------------------
(* Whole parts of a total in proportion to the weights, by the largest     *)
(* remainder, of equals the first; nothing is lost to rounding.            *)
splitByWeights(total, w) ==
  LET pos == {i \in DOMAIN w : w[i] > 0}
      sum == SumFunctionOnSet(w, pos)
      whole == [i \in DOMAIN w |-> IF i \in pos THEN (total * w[i]) \div sum ELSE 0]
      rem == [i \in pos |-> (total * w[i]) % sum]
      before(i) == Cardinality({j \in pos : rem[j] > rem[i] \/ (rem[j] = rem[i] /\ j < i)})
      left == total - SumFunctionOnSet(whole, pos)
  IN IF total <= 0 \/ pos = {} THEN [i \in DOMAIN w |-> 0]
     ELSE [i \in DOMAIN w |-> IF i \in pos /\ before(i) < left THEN whole[i] + 1 ELSE whole[i]]

(* Needs by row, in hundredths: what the share of the row lacks of the     *)
(* capital there will be.                                                  *)
Needs(rows, avail, kindTotal) ==
  [i \in DOMAIN rows |->
     IF rows[i].pct <= 0 THEN 0
     ELSE Most(0, (kindTotal + avail) * rows[i].pct - 100 * rows[i].current)]

(* [mutant] the shares need not add up to the whole *)
spreadMonthBeyond(rows, avail, kindTotal) ==
  LET need == Needs(rows, avail, kindTotal)
      rest == Most(0, 100 * avail - Total(need))
  IN IF avail <= 0 \/ kindTotal <= 0 \/ \A i \in DOMAIN rows : rows[i].pct <= 0
     THEN [need |-> [i \in DOMAIN rows |-> 0], balance |-> [i \in DOMAIN rows |-> 0]]
     ELSE [need |-> need,
           balance |-> [i \in DOMAIN rows |-> roundDiv(100 * need[i] + rest * rows[i].pct, 10000) + 1]]

(* [need, balance] by row: by need while it exceeds the sum; a sum that    *)
(* covers every need is spread further by share.                           *)
spreadMonth(rows, avail, kindTotal) ==
  LET need == Needs(rows, avail, kindTotal)
      rest == Most(0, 100 * avail - Total(need))
      covers == Total(need) <= 100 * avail
      w == [i \in DOMAIN rows |->
              IF rows[i].pct <= 0 THEN 0
              ELSE 100 * need[i] + (IF covers THEN rest * rows[i].pct ELSE 0)]
      total == IF covers THEN Least(avail, roundDiv(Total(w), 10000)) ELSE avail
      nothing == [i \in DOMAIN rows |-> 0]
  IN IF avail <= 0 \/ kindTotal <= 0 THEN [need |-> nothing, balance |-> nothing]
     ELSE [need |-> need, balance |-> splitByWeights(total, w)]

----------------------------------------------------------------------------
(* A plan is [reserve, goals, lines, ...]: goals by id and lines by index  *)
(* of the suggestion, with nothing where nothing is laid out.              *)

(* A movement below the floor is made only when it closes the gap.         *)
WorthMoving(sum, gap) == sum > 0 /\ (sum >= allocMinCut \/ (gap > 0 /\ sum >= gap))

ReserveCut(r, amount, allow) ==
  LET cut == Least(Least(amount, r.fillNow), Most(0, allow.reserve))
  IN IF r.fillNow > 0 /\ WorthMoving(cut, r.gap) THEN cut ELSE 0

(* The goals in their order: [avail, elig, cuts].                          *)
GoalCuts(goals, avail, allowed) ==
  LET cutOf(st, g) == Least(Least(st.avail, g.fillNow), st.elig)
      step(st, g) ==
        IF g.fillNow <= 0 \/ ~WorthMoving(cutOf(st, g), g.gap) THEN st
        ELSE [avail |-> st.avail - cutOf(st, g), elig |-> st.elig - cutOf(st, g),
              cuts |-> [st.cuts EXCEPT ![g.id] = cutOf(st, g)]]
  IN FoldLeft(step,
              [avail |-> avail, elig |-> Least(avail, Most(0, allowed)),
               cuts |-> [id \in {goals[i].id : i \in DOMAIN goals} |-> 0]], goals)

Step(sg) == IF sg.kind = "npf" /\ sg.cost > 0 THEN allocMinCut ELSE sg.cost

(* allocOne: an account takes all that is left, other kinds whole steps.   *)
allocOne(sg, left) ==
  CASE Step(sg) <= 0 \/ left < Step(sg) -> 0
    [] sg.kind = "npf" -> left
    [] OTHER -> (left \div sg.cost) * sg.cost

(* [mutant] the choice of a paper is not asked *)
MayBuyAny(sg, kind, allow) == sg.kind = kind

(* Suggestions of a kind; a chosen paper is the only one of the bonds.     *)
MayBuy(sg, kind, allow) ==
  sg.kind = kind /\ (kind = "bonds" /\ allow.pick # "" => sg.isin = allow.pick)

(* Buying for one kind, in the order of the suggestions: [left, lines].    *)
BuyKind(sug, kind, sum, lines, allow) ==
  LET step(st, i) ==
        LET spent == IF st.done \/ ~MayBuy(sug[i], kind, allow) THEN 0
                     ELSE allocOne(sug[i], st.left)
        IN [left |-> st.left - spent, lines |-> [st.lines EXCEPT ![i] = @ + spent],
            done |-> st.done \/ (spent > 0 /\ kind = "npf")]
  IN FoldLeft(step, [left |-> sum, lines |-> lines, done |-> FALSE], [i \in DOMAIN sug |-> i])

(* The first pass over the kinds, the largest budget first: each buys for  *)
(* its budget, and remembers what it still lacks of its need.              *)
BuyKinds(sug, rows, spread, allow) ==
  LET funded == {i \in DOMAIN rows : rows[i].pct > 0 /\ spread.balance[i] > 0}
      order == SetToSortSeq(funded, LAMBDA i, j :
                 spread.balance[i] > spread.balance[j] \/ (spread.balance[i] = spread.balance[j] /\ i < j))
      step(st, i) ==
        LET bought == BuyKind(sug, rows[i].kind, spread.balance[i], st.lines, allow)
        IN [rest |-> st.rest + bought.left, lines |-> bought.lines,
            room |-> [st.room EXCEPT ![i] =
                        Most(0, Quo(spread.need[i], 100) - (spread.balance[i] - bought.left))]]
  IN FoldLeft(step, [rest |-> 0, lines |-> [i \in DOMAIN sug |-> 0],
                     room |-> [i \in DOMAIN rows |-> 0]], order)

(* What the rest is offered to, in three tiers: goals that will be late,   *)
(* kinds that are short, the reserve.                                      *)
GoalSpots(goals, cuts) ==
  LET late == {i \in DOMAIN goals :
                 goals[i].short > 0 /\ goals[i].gapPace > cuts[goals[i].id]}
      order == SetToSortSeq(late, LAMBDA i, j :
                 goals[i].short > goals[j].short \/ (goals[i].short = goals[j].short /\ i < j))
  IN [k \in DOMAIN order |->
        [tier |-> "goal", at |-> goals[order[k]].id, allow |-> goals[order[k]].fillFrom,
         room |-> goals[order[k]].gapPace - cuts[goals[order[k]].id]]]

KindSpots(rows, room, uses) ==
  LET short == {i \in DOMAIN rows :
                  rows[i].pct > 0 /\ room[i] > 0 /\ ~allocKindForbidden(uses, rows[i].kind)}
      order == SetToSortSeq(short, LAMBDA i, j :
                 room[i] > room[j] \/ (room[i] = room[j] /\ i < j))
  IN [k \in DOMAIN order |->
        [tier |-> "kind", at |-> order[k], allow |-> 0, room |-> room[order[k]]]]

ReserveSpots(r, taken, allow) ==
  IF r.gap <= taken THEN <<>>
  ELSE <<[tier |-> "reserve", at |-> 0, allow |-> Least(allow.reserve, r.fillFrom),
          room |-> r.gap - taken]>>

(* [mutant] the second pass forgets what the first has taken *)
TopUpTakeTwice(p, s, elig, firstGoals) ==
  LET take == Least(Least(p.rest, s.room), Most(0, s.allow))
  IN IF take > 0 /\ (take >= allocMinCut \/ take >= s.room) THEN take ELSE 0

(* What a goal or the reserve takes of the rest: within its own gap, the   *)
(* permission of the sum (elig) and that of the month (allow).             *)
TopUpTake(p, s, elig, firstGoals) ==
  LET left == IF s.tier = "goal"
              THEN Least(elig - (SumFunction(p.goals) - firstGoals), s.allow - SumFunction(p.goals))
              ELSE s.allow - p.reserve
      take == Least(Least(p.rest, s.room), Most(0, left))
  IN IF take > 0 /\ (take >= allocMinCut \/ take >= s.room) THEN take ELSE 0

(* allocTopUp: one pass over the spots while the rest is worth moving.     *)
allocTopUp(p, sug, rows, spots, allow, elig) ==
  LET firstGoals == SumFunction(p.goals)
      step(q, s) ==
        CASE q.rest < allocMinCut -> q
          [] s.tier = "kind" ->
               LET left == Least(q.rest, s.room)
                   bought == BuyKind(sug, rows[s.at].kind, left, q.lines, allow)
               IN [q EXCEPT !.lines = bought.lines, !.rest = @ - (left - bought.left)]
          [] s.tier = "goal" ->
               LET take == TopUpTake(q, s, elig, firstGoals)
               IN [q EXCEPT !.goals[s.at] = @ + take, !.rest = @ - take]
          [] OTHER ->
               LET take == TopUpTake(q, s, elig, firstGoals)
               IN [q EXCEPT !.reserve = @ + take, !.rest = @ - take]
  IN FoldLeft(step, p, spots)

(* allocSettle: the rest is what the sum lacks of its parts, and what no   *)
(* share asks for gives way when the parts already take it all.            *)
allocSettle(p, amount, free) ==
  LET used == p.reserve + SumFunction(p.goals) + SumFunction(p.lines)
      rest == amount - used - free
  IN [reserve |-> p.reserve, goals |-> p.goals, lines |-> p.lines, atHand |-> p.rest,
      rest |-> Most(0, rest), free |-> IF rest < 0 THEN Most(0, free + rest) ELSE free]

(* Money no share asks for; what the last leg left over is not told twice. *)
FreeOf(avail, budgeted, carry) ==
  LET free == Most(0, avail - budgeted)
      carried == Least(carry, avail)
  IN IF carry > 0 /\ free > 0 THEN free - Least(free, roundDiv(free * carried, avail)) ELSE free

(* Rows of kinds the sum may not go to ask for nothing.                    *)
Permitted(rows, uses) ==
  [i \in DOMAIN rows |->
     IF allocKindForbidden(uses, rows[i].kind) THEN [rows[i] EXCEPT !.pct = 0] ELSE rows[i]]

Budgets(doc, avail, allow) ==
  spreadMonth(Permitted(doc.rows, allow.uses), avail,
              doc.capital - doc.reserveTotal - doc.goalsTotal)

(* The allocation of an amount: allow is [reserve, goals, uses, pick,      *)
(* carry].  The reserve and the goals are cut off, the kinds buy for their *)
(* budgets, and what is left tops up.                                      *)
ToppedUp(doc, sug, amount, allow, reserve, goals, rows, budgeted, bought) ==
  LET first == [reserve |-> reserve, goals |-> goals.cuts, lines |-> bought.lines,
                rest |-> IF budgeted = 0 THEN goals.avail ELSE bought.rest]
      spots == GoalSpots(doc.goals, goals.cuts) \o KindSpots(rows, bought.room, allow.uses)
               \o ReserveSpots(doc.reserve, reserve, allow)
      free == IF budgeted = 0 THEN 0 ELSE FreeOf(goals.avail, budgeted, allow.carry)
  IN allocSettle(allocTopUp(first, sug, rows, spots, allow, goals.elig), amount, free)
Bought(doc, sug, amount, allow, reserve, goals, rows, spread) ==
  ToppedUp(doc, sug, amount, allow, reserve, goals, rows, Total(spread.balance),
           BuyKinds(sug, rows, spread, allow))
Funded(doc, sug, amount, allow, reserve, goals) ==
  IF goals.avail <= 0
  THEN [reserve |-> reserve, goals |-> goals.cuts, lines |-> [i \in DOMAIN sug |-> 0],
        rest |-> 0, free |-> 0, atHand |-> 0]
  ELSE Bought(doc, sug, amount, allow, reserve, goals, Permitted(doc.rows, allow.uses),
              Budgets(doc, goals.avail, allow))
Reserved(doc, sug, amount, allow, reserve) ==
  Funded(doc, sug, amount, allow, reserve, GoalCuts(doc.goals, amount - reserve, allow.goals))
AllocatePlan(doc, sug, amount, allow) ==
  Reserved(doc, sug, amount, allow, ReserveCut(doc.reserve, amount, allow))

----------------------------------------------------------------------------
(* Money may go where it was ticked to go, everywhere when nothing was, and *)
(* a form that shows a permission and sends it back does not change it.    *)
TickedIsAllowed(tokens) ==
  LET uses == ParsePlanUses(tokens)
  IN /\ \A b \in Buckets : PlanUseAllowed(uses, b) <=> (tokens = {} \/ b \in tokens)
     /\ ParsePlanUses(PlanUsesList(uses)) = uses
     /\ \A b \in Buckets : Eligible("any", "plan", 90, 0, SourceCap(uses, b, 90)) = 90 <=> b \in PlanUsesList(uses)

(* Shares of a total differ from the proportion by less than a unit and    *)
(* add up to the total.                                                    *)
SplitIsFair(total, w) ==
  \A parts \in {splitByWeights(total, w)}, sum \in {Total(w)} :
    sum > 0 =>
      /\ Total(parts) = total
      /\ \A i \in DOMAIN w : Abs(parts[i] * sum - total * w[i]) < sum

(* All of the amount is laid out, left over or free: no movement spends    *)
(* money the amount does not have, whatever was rounded.                   *)
NothingSpentTwice(amount, p) ==
  /\ p.reserve + SumFunction(p.goals) + SumFunction(p.lines) + p.rest + p.free = amount
  /\ p.rest >= 0 /\ p.free >= 0

(* Neither pass gives the reserve, the goals or a kind what this money may *)
(* not go to.                                                              *)
PermissionsKept(sug, allow, p) ==
  /\ p.reserve <= Most(0, allow.reserve)
  /\ SumFunction(p.goals) <= Most(0, allow.goals)
  /\ \A i \in DOMAIN sug :
       p.lines[i] > 0 =>
         /\ ~allocKindForbidden(allow.uses, sug[i].kind)
         /\ sug[i].kind = "bonds" /\ allow.pick # "" => sug[i].isin = allow.pick

(* Topping up shortens gaps and pushes nobody beyond his own.              *)
BudgetsOf(doc, amount, allow) ==
  Budgets(doc, GoalCuts(doc.goals, amount - ReserveCut(doc.reserve, amount, allow),
                        allow.goals).avail, allow)
SpentOn(sug, p, kind) == SumFunctionOnSet(p.lines, {i \in DOMAIN sug : sug[i].kind = kind})
NobodyBeyondHisGap(doc, sug, p, spread) ==
  /\ p.reserve <= Most(doc.reserve.gap, doc.reserve.fillNow)
  /\ \A i \in DOMAIN doc.goals :
       p.goals[doc.goals[i].id] <= Most(doc.goals[i].gapPace, doc.goals[i].fillNow)
  /\ \A i \in DOMAIN doc.rows :
       SpentOn(sug, p, doc.rows[i].kind) <= Most(spread.balance[i], Quo(spread.need[i], 100))

(* No movement is smaller than the floor unless it closes a gap.           *)
MovementsWorthMaking(doc, p) ==
  /\ p.reserve > 0 => p.reserve >= allocMinCut \/ p.reserve >= doc.reserve.gap
  /\ \A g \in Range(doc.goals) :
       p.goals[g.id] > 0 =>
         p.goals[g.id] >= allocMinCut \/ p.goals[g.id] >= Least(g.gap, g.gapPace)

(* Money that could still buy a step somebody is short of does not lie     *)
(* idle, down to the floor.                                                *)
NoStepMissed(doc, sug, allow, p, spread) ==
  \A i \in DOMAIN sug, r \in DOMAIN doc.rows :
    (MayBuy(sug[i], doc.rows[r].kind, allow) /\ Step(sug[i]) > 0 /\ spread.balance[r] > 0) =>
      \/ p.atHand < Most(allocMinCut, Step(sug[i]))
      \/ Quo(spread.need[r], 100) - SpentOn(sug, p, doc.rows[r].kind) < Step(sug[i])
=============================================================================
