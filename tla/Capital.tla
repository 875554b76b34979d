------------------------------- MODULE Capital -------------------------------
(***************************************************************************)
(* Where each coin of the books counts (internal/engine: earmark_pool.go,  *)
(* state_flows.go, state_money.go, state_builder.go, state_goals.go,       *)
(* state_month.go, state_delta.go): the money of matured deposits of the   *)
(* reserve and of goals, the movements at the border of the instruments,   *)
(* the parts of the capital, and what of its growth was earned.            *)
(*                                                                         *)
(* The books: [deposits, reserveOps, goals, goalOps, payments, bonds,      *)
(* lots, sales, fundOps, npf, npfOps, received].  A deposit of DepositMath *)
(* has besides an id, an isin, a bank, and reserve or goal when its money  *)
(* is put by for one of these; top-ups have ids.  One currency.            *)
(***************************************************************************)
EXTENDS DepositMath

LOCAL Papers == INSTANCE Holdings
LOCAL Funds == INSTANCE FundMath

SumOver(f(_), S) == MapThenSumSet(f, S)

----------------------------------------------------------------------------
(* The pools: what deposits put by for the reserve (goal 0) or for a goal  *)
(* have returned, by purpose and bank. *)

Earmarked(d) == d.reserve \/ d.goal # None
earmarkKeyOf(d) == <<d.goal, d.bank>>

HasArrived(books, isin, date, today) == Papers!Arrived(books.received, today, isin, date)
ArrivalDate(scheduled, today) == Least(scheduled, today)

(* All that a deposit pays by its contract, or paid before it was closed.  *)
PaysOut(d) ==
  IF d.closed = NoDate THEN DepositSchedule(d, NoDate)
  ELSE Coupons(PaidBeforeClose(d))
PaidOut(books, d, today) ==
  SelectSeq(PaysOut(d), LAMBDA cf : HasArrived(books, d.isin, cf.date, today))
ClosedBy(d, today) == d.closed # NoDate /\ d.closed <= today

(* What was placed with the bank: its money and its top-ups.               *)
Placed(d, today) ==
  SelectSeq(<<[draw |-> <<d.id, 0>>, date |-> d.open, amount |-> d.principal]>>
              \o [i \in DOMAIN d.topups |->
                    [draw |-> <<d.id, d.topups[i].id>>, date |-> d.topups[i].date,
                     amount |-> d.topups[i].amount]],
            LAMBDA p : p.date <= today)

PoolEvent(d, date, amount, draw) ==
  [on |-> date, key |-> earmarkKeyOf(d), amount |-> amount, draw |-> draw]
PoolEvents(d, placed, paid, today) ==
  [i \in DOMAIN placed |-> PoolEvent(d, placed[i].date, -placed[i].amount, placed[i].draw)]
  \o [i \in DOMAIN paid |-> PoolEvent(d, ArrivalDate(paid[i].date, today), paid[i].amount, <<>>)]
  \o IF ClosedBy(d, today) THEN <<PoolEvent(d, d.closed, d.closedAmount, <<>>)>> ELSE <<>>

(* [mutant] on one day what goes out is taken before what comes in *)
DrawnFirst(e, f) == e.on < f.on \/ (e.on = f.on /\ e.amount < f.amount)
PoolOrder(e, f) == e.on < f.on \/ (e.on = f.on /\ e.amount > f.amount)

Pooled(p, e) ==
  LET take == Least(p.left[e.key], -e.amount)
  IN CASE e.amount > 0 -> [p EXCEPT !.left[e.key] = @ + e.amount, !.lastIn[e.key] = e.on]
       [] e.amount <= 0 /\ take > 0 ->
            [p EXCEPT !.left[e.key] = @ - take, !.drawn = (e.draw :> take) @@ @]
       [] OTHER -> p

(* In the order of days, what comes in first: a new deposit of the same    *)
(* purpose in the same bank takes the money of the pool before any other.  *)
buildEarmarkPools(books, today) ==
  LET mine == SelectSeq(books.deposits, Earmarked)
      events(d) == PoolEvents(d, Placed(d, today), PaidOut(books, d, today), today)
      keys == {earmarkKeyOf(d) : d \in Range(books.deposits)}
  IN FoldLeft(Pooled, [left |-> [k \in keys |-> 0], drawn |-> <<>>, lastIn |-> [k \in keys |-> NoDate]],
              SortSeq(FlattenSeq([i \in DOMAIN mine |-> events(mine[i])]), PoolOrder))

FromPool(pools, draw) == IF draw \in DOMAIN pools.drawn THEN pools.drawn[draw] ELSE 0
PoolLeft(pools, goal) == SumFunctionOnSet(pools.left, {k \in DOMAIN pools.left : k[1] = goal})

----------------------------------------------------------------------------
(* Movements at the border of the instruments, seen by the owner: + money  *)
(* comes back to him. *)

InstrFlow(instr, of, date, amount, kind, new) ==
  [instr |-> instr, of |-> of, date |-> date, amount |-> amount, kind |-> kind, new |-> new]

BondFlows(books, today) ==
  LET due == {p \in Papers!FuturePayments(books.payments, books.lots, books.sales, NoDate) :
                HasArrived(books, p.isin, p.date, today)}
      bought(l, cost) == InstrFlow("bond", <<"lot", "", l.id>>, l.buy, -cost, "purchase", cost)
  IN {InstrFlow("bond", <<p.type, p.isin, p.date>>, ArrivalDate(p.date, today), p.amount,
                "income", 0) : p \in due}
     \cup {bought(l, Papers!LotCost(l, l.qty)) : l \in books.lots}
     \cup {InstrFlow("bond", <<"sale", "", s.id>>, s.date, Papers!SaleProceeds(s), "exit", 0) :
             s \in books.sales}

FundFlow(op, ops) ==
  CASE op.kind = "buy" -> InstrFlow("fund", <<op.kind, op.fund, op.id>>, op.date, -op.amount,
                                    "purchase", Most(0, Funds!FundBuyNew(op, ops)))
    [] op.kind = "div" -> InstrFlow("fund", <<op.kind, op.fund, op.id>>, op.date,
                                    op.amount - op.tax, "income", 0)
    [] OTHER -> InstrFlow("fund", <<op.kind, op.fund, op.id>>, op.date, op.amount - op.tax,
                          "exit", 0)

NPFFlows(books, today) ==
  {InstrFlow("npf", <<"in", "", op.id>>, op.date, -op.amount, "purchase", op.amount) :
     op \in {x \in Range(books.npfOps) : x.date <= today}}

(* [mutant] a deposit rolled over is paid for once more *)
DepositDebitsWhole(d, pools, today) ==
  {InstrFlow("deposit", <<"in", d.isin, p.draw[2]>>, p.date, -p.amount, "purchase", p.amount) :
     p \in Range(Placed(d, today))}
DepositDebits(d, pools, today) ==
  LET own(p) == p.amount - FromPool(pools, p.draw)
  IN {InstrFlow("deposit", <<"in", d.isin, p.draw[2]>>, p.date, -own(p), "purchase", own(p)) :
        p \in {x \in Range(Placed(d, today)) : own(x) > 0}}

DepositCredits(books, d, today) ==
  IF Earmarked(d) THEN {}
  ELSE {InstrFlow("deposit", <<cf.type, d.isin, cf.date>>, ArrivalDate(cf.date, today),
                  cf.amount, "income", 0) : cf \in Range(PaidOut(books, d, today))}
       \cup {InstrFlow("deposit", <<"exit", d.isin, x>>, x, d.closedAmount, "exit", 0) :
               x \in {y \in {d.closed} : ClosedBy(d, today)}}

instrumentFlows(books, pools, today) ==
  {f \in BondFlows(books, today)
           \cup {FundFlow(op, books.fundOps) : op \in Range(books.fundOps)}
           \cup NPFFlows(books, today)
           \cup UNION {DepositDebits(d, pools, today) \cup DepositCredits(books, d, today) :
                         d \in Range(books.deposits)} : f.amount # 0}

(* Money from outside: the same movements seen from the portfolio, and the *)
(* journals of the reserve and of the goals.                               *)
instrumentMoves(flows) ==
  {[of |-> <<f.instr, f.of>>, date |-> f.date, amount |-> -f.amount] : f \in flows}
JournalMoves(name, ops) ==
  {[of |-> <<name, <<"", "", op.id>>>>, date |-> op.date, amount |-> op.amount] : op \in Range(ops)}
externalMovesFrom(books, flows) ==
  instrumentMoves(flows) \cup JournalMoves("reserve", books.reserveOps)
    \cup JournalMoves("goal", books.goalOps)

SumMoves(moves) == SumOver(LAMBDA m : m.amount, moves)

----------------------------------------------------------------------------
(* The parts of the capital. *)

(* [mutant] a deposit marked as paid back is a deposit still *)
WithBankByDate(books, d, today) == Active(d, today)
WithBank(books, d, today) ==
  Active(d, today) /\ ~HasArrived(books, d.isin, d.maturity, today)
Rungs(books, today) == {d \in Range(books.deposits) : WithBank(books, d, today)}
Bodies(S, today) == SumOver(LAMBDA d : BalanceAt(d, today), S)

plainDeposits(books, today) == {d \in Rungs(books, today) : ~Earmarked(d)}
depositsAccrued(books, today) ==
  SumOver(LAMBDA d : Most(0, AccruedNet(d, today)), plainDeposits(books, today))

(* The cushion: what can be had today, and its rungs in banks.             *)
reserveLiquid(books, pools) == Amounts(books.reserveOps) + PoolLeft(pools, None)
reserveTotal(books, pools, today) ==
  reserveLiquid(books, pools) + Bodies({d \in Rungs(books, today) : d.reserve}, today)

SameMonth(date, today) == Year(date) = Year(today) /\ Month(date) = Month(today)
InWindow(date, today) == DaysBetween(date, today) \in 0..183

(* A goal: what it has, what this month brought, and the window its pace   *)
(* is measured in.                                                         *)
GoalOf(collected, ops, today) ==
  LET recent == {i \in DOMAIN ops : InWindow(ops[i].date, today)}
  IN [collected |-> collected,
      moved |-> AmountsOf(ops, {i \in DOMAIN ops : SameMonth(ops[i].date, today)}),
      pace |-> AmountsOf(ops, recent), since |-> Earliest({ops[i].date : i \in recent})]
buildGoals(books, pools, today) ==
  [g \in books.goals |->
     LET ops == SelectSeq(books.goalOps, LAMBDA op : op.goal = g)
     IN GoalOf(Amounts(ops) + PoolLeft(pools, g)
                 + Bodies({d \in Rungs(books, today) : ~d.reserve /\ d.goal = g}, today),
               ops, today)]

HeldOn(books, today) ==
  {h \in Papers!NewHoldings(books.bonds, books.lots, books.sales, today, books.received) : Papers!Held(h)}
HeldOf(held, isin) == SumOver(LAMBDA h : h.remaining, {h \in held : h.lot.isin = isin})

(* [mutant] a paper is worth its whole nominal until its maturity *)
bondsNominalWhole(books, held, today) ==
  SumOver(LAMBDA b : b.nominal * HeldOf(held, b.isin), books.bonds)
bondsNominal(books, held, today) ==
  SumOver(LAMBDA b : Papers!NominalOn(b, books.payments, today) * HeldOf(held, b.isin), books.bonds)
bondsAccrued(books, held, today) ==
  SumOver(LAMBDA h : Papers!EstimateAccrued(books.payments, h.lot.isin, today) * h.remaining, held)
fundsTotal(books) ==
  LET value(pos) == SumFunction([f \in DOMAIN pos |-> Funds!MarketValue(pos[f])])
  IN value(Funds!FundPositions(books.fundOps, {}))
npfTotal(books) ==
  SumOver(LAMBDA a : NPFValue(NPFPosition(a, books.npfOps, 10), 10), books.npf)

(* The capital of the document (state.Capital): bonds with their coupon    *)
(* and deposits with their interest so far.                                *)
CapitalParts(books, pools, today, nominal, coupons, interest) ==
  [bonds |-> nominal + coupons, funds |-> fundsTotal(books),
   deposits |-> Bodies(plainDeposits(books, today), today) + interest,
   reserve |-> reserveTotal(books, pools, today),
   goals |-> SumFunction([g \in books.goals |-> buildGoals(books, pools, today)[g].collected]),
   npf |-> npfTotal(books), bondsAccrued |-> coupons, depositsAccrued |-> interest]
CapitalOf(books, pools, held, today) ==
  CapitalParts(books, pools, today, bondsNominal(books, held, today), bondsAccrued(books, held, today),
               depositsAccrued(books, today))
TotalUAH(c) == c.bonds + c.funds + c.deposits + c.reserve + c.goals + c.npf
Accrued(c) == c.bondsAccrued + c.depositsAccrued

----------------------------------------------------------------------------
(* The month, and the snapshot of some weeks ago. *)

(* New money: of a transfer between funds only what was paid on top.       *)
monthInvested(books, today) ==
  SumOver(LAMBDA l : Papers!LotCost(l, l.qty), {l \in books.lots : SameMonth(l.buy, today)})
    + SumOver(LAMBDA op : Most(0, Funds!FundBuyNew(op, books.fundOps)),
             {op \in Range(books.fundOps) : SameMonth(op.date, today)})

buildMonth(books, flows, today) ==
  LET of(m) == m.of[1] \in {"reserve", "goal"}
      moves == externalMovesFrom(books, flows)
      inMonth(S) == SumMoves({m \in S : SameMonth(m.date, today)})
      recent == {m \in moves : InWindow(m.date, today)}
  IN [invested |-> monthInvested(books, today), deposited |-> inMonth(moves),
      outside |-> inMonth({m \in moves : of(m)}), contributed |-> inMonth({m \in moves : ~of(m)}),
      actual |-> Most(0, SumMoves(recent)),
      first |-> Earliest({today} \cup {m.date : m \in recent})]

(* A snapshot (store/snapshot_doc.go); -1 in those older than the column.  *)
AccruedUnknown == -1
SnapshotOf(books, c, today) ==
  LET positions == Papers!Positions(books.bonds, books.payments, books.lots, books.sales, today,
                                    books.received)
  IN [date |-> today, nominal |-> SumOver(LAMBDA p : p.nominal, positions), funds |-> c.funds,
      deposits |-> c.deposits - c.depositsAccrued, reserve |-> c.reserve, goals |-> c.goals,
      npf |-> c.npf, accrued |-> Accrued(c)]

AccruedKnown(sn) == sn.accrued >= 0
snapshotPortfolioUAH(sn) == sn.nominal + sn.funds + sn.deposits
snapshotCapitalUAH(sn) ==
  snapshotPortfolioUAH(sn) + sn.reserve + sn.goals + sn.npf + Most(0, sn.accrued)
SnapshotCapitalPair(a, b) ==
  IF AccruedKnown(a) /\ AccruedKnown(b)
    THEN <<snapshotCapitalUAH(a), snapshotCapitalUAH(b)>>
    ELSE <<snapshotCapitalUAH(a) - Most(0, a.accrued), snapshotCapitalUAH(b) - Most(0, b.accrued)>>

(* [mutant] an old snapshot is compared with more than it holds *)
comparableNowAsIs(now, accrued, sn) == now
comparableNow(now, accrued, sn) == IF AccruedKnown(sn) THEN now ELSE now - accrued

buildCapitalDelta(books, c, flows, sn) ==
  [delta |-> comparableNow(TotalUAH(c), Accrued(c), sn) - snapshotCapitalUAH(sn),
   contrib |-> SumMoves({m \in externalMovesFrom(books, flows) : m.date >= sn.date})]

(* All of it as the program finds it on a day.                             *)
WithFlows(books, pools, c, today) ==
  [pools |-> pools, capital |-> c, flows |-> instrumentFlows(books, pools, today),
   snapshot |-> SnapshotOf(books, c, today)]
WithCapital(books, pools, today) ==
  WithFlows(books, pools, CapitalOf(books, pools, HeldOn(books, today), today), today)
StockOf(books, today) == WithCapital(books, buildEarmarkPools(books, today), today)

----------------------------------------------------------------------------
(* Properties. *)

(* Nothing of the books lies in the future; what was placed was placed     *)
(* while the deposit ran.                                                  *)
Past(books, today) ==
  \A d \in Range(books.deposits) :
    /\ d.open <= today
    /\ d.closed # NoDate => d.open <= d.closed /\ d.closed <= Least(today, d.maturity)
    /\ \A t \in Range(d.topups) :
         /\ d.open < t.date /\ t.date <= Least(today, d.maturity)
         /\ d.closed # NoDate => t.date <= d.closed

Interest(books, d, from, today) ==
  Amounts(SelectSeq(PaidOut(books, d, today), LAMBDA cf : cf.type = "coupon" /\ cf.date >= from))
    + IF ClosedBy(d, today) /\ d.closed >= from
        THEN d.closedAmount - BalanceAt(d, d.closed) ELSE 0
InterestOf(books, from, today) ==
  SumOver(LAMBDA d : Interest(books, d, from, today), Range(books.deposits))

(* Every coin given to a bank is in one place and in one only -- a deposit *)
(* of the capital, the cushion, a goal, a pool, or back with the owner --  *)
(* whatever was marked as received, closed early or rolled over: what the  *)
(* three parts hold is what came from outside and what the banks paid.     *)
EveryCoinSomewhere(books, stock, interest) ==
  LET moves == {m \in externalMovesFrom(books, stock.flows) :
                  m.of[1] \in {"deposit", "reserve", "goal"}}
      c == stock.capital
  IN c.deposits - c.depositsAccrued + c.reserve + c.goals = SumMoves(moves) + interest

(* A pool is never overdrawn, no deposit takes from it more than it placed *)
(* -- and what it placed counts as new money only when the pool has been   *)
(* emptied, of what arrived on that very day too.                          *)
PoolsHold(books, stock, today) ==
  LET mine == {d \in Range(books.deposits) : Earmarked(d)}
      with(d) == {e \in mine : earmarkKeyOf(e) = earmarkKeyOf(d)}
      taken(p) == FromPool(stock.pools, p.draw)
      until(S, day) == SumOver(LAMBDA d :
        Amounts(SelectSeq(PaidOut(books, d, today), LAMBDA cf : cf.date <= day))
          + (IF ClosedBy(d, today) /\ d.closed <= day THEN d.closedAmount ELSE 0)
          - SumOver(taken, {p \in Range(Placed(d, today)) : p.date <= day}), S)
  IN /\ \A k \in DOMAIN stock.pools.left : stock.pools.left[k] >= 0
     /\ \A d \in mine : \A p \in Range(Placed(d, today)) :
          /\ taken(p) \in 0..p.amount
          /\ books.received = {} /\ taken(p) < p.amount => until(with(d), p.date) = 0

(* The days do not rewrite the past: what a deposit took from its pool it  *)
(* has taken on every later day, if no payout was marked ahead of its day. *)
PoolsKeepThePast(books, then, now) ==
  books.received = {} =>
    \A draw \in DOMAIN then.pools.drawn : FromPool(now.pools, draw) = then.pools.drawn[draw]

(* Violated where a payout marked ahead of its day was rolled over on the  *)
(* day of the mark: ArrivalDate dates it today, every day anew, and from   *)
(* the next day on the new deposit, older than that, no longer finds it -- *)
(* the pool keeps the money, and the deposit counts as new money.          *)
MarksKeepThePast(then, now) ==
  \A draw \in DOMAIN then.pools.drawn : FromPool(now.pools, draw) = then.pools.drawn[draw]

(* The books before a day, as the snapshot of its morning found them.      *)
Before(books, day) ==
  LET was(d) == [d EXCEPT !.topups = SelectSeq(@, LAMBDA t : t.date < day),
                          !.closed = IF @ >= day THEN NoDate ELSE @]
      deps == SelectSeq(books.deposits, LAMBDA d : d.open < day)
      old(x) == x.date < day
  IN [books EXCEPT !.deposits = [i \in DOMAIN deps |-> was(deps[i])],
                   !.reserveOps = SelectSeq(@, old), !.goalOps = SelectSeq(@, old),
                   !.lots = {l \in @ : l.buy < day}, !.sales = {s \in @ : s.date < day},
                   !.fundOps = SelectSeq(@, old), !.npfOps = SelectSeq(@, old)]

BondGain(books, from, today) ==
  LET nominal(isin) == SumOver(LAMBDA b : b.nominal, {b \in books.bonds : b.isin = isin})
      lot(s) == CHOOSE l \in books.lots : l.id = s.lot
      coupons == {p \in Papers!FuturePayments(books.payments, books.lots, books.sales, from) :
                    p.type = "coupon" /\ HasArrived(books, p.isin, p.date, today)}
  IN SumOver(LAMBDA p : p.amount, coupons)
       + SumOver(LAMBDA l : nominal(l.isin) * l.qty - Papers!LotCost(l, l.qty),
                {l \in books.lots : l.buy >= from})
       + SumOver(LAMBDA s : Papers!SaleProceeds(s) - nominal(lot(s).isin) * s.qty,
                {s \in books.sales : s.date >= from})

(* What a part of the nominal paid back early makes of it.  The capital    *)
(* counts what is left of the nominal, from the day of the payment on; its *)
(* snapshots, put together from the positions, count the whole of it.      *)
RedeemedEarly(books, today) ==
  SumOver(LAMBDA p : p.per * HeldOf(HeldOn(books, today), p.isin),
         {p \in books.payments : p.type = "early" /\ p.date <= today})
ReturnedEarly(books, from, today) ==
  SumOver(LAMBDA p : p.amount,
         {p \in Papers!FuturePayments(books.payments, books.lots, books.sales, from) :
            p.type = "early" /\ HasArrived(books, p.isin, p.date, today)})

(* The growth of the capital since a snapshot, without the money from      *)
(* outside, is what was earned: interest, coupons, what was bought under   *)
(* its nominal, and what has accrued -- or, against a snapshot older than  *)
(* the column, all but what has accrued.  lost is what the snapshot holds  *)
(* and the capital does not, for reason of a nominal paid back early.      *)
DeltaIsEarned(books, sn, now, earned, lost) ==
  \A s \in {sn, [sn EXCEPT !.accrued = AccruedUnknown]} :
    \A d \in {buildCapitalDelta(books, now.capital, now.flows, s)},
       pair \in {SnapshotCapitalPair(s, now.snapshot)} :
      /\ d.delta - d.contrib =
           earned - lost + IF AccruedKnown(s) THEN Accrued(now.capital) - s.accrued ELSE 0

(* The snapshot, put together from the positions, is worth what the        *)
(* capital, put together from the holdings, is, and what was paid back     *)
(* early besides; so the growth between two snapshots of whatever age is   *)
(* the growth of the capital.                                              *)
SnapshotIsTheCapital(books, then, now, today) ==
  /\ snapshotCapitalUAH(now.snapshot) = TotalUAH(now.capital) + RedeemedEarly(books, today)
  /\ \A s \in {then.snapshot, [then.snapshot EXCEPT !.accrued = AccruedUnknown]} :
       \A pair \in {SnapshotCapitalPair(s, now.snapshot)} :
         pair[2] - pair[1] = buildCapitalDelta(books, now.capital, now.flows, s).delta
                               + RedeemedEarly(books, today)

(* Violated by a paper whose nominal was paid back in part                 *)
(* (engine/rivals.go:444 promises that the two cannot differ).             *)
SnapshotIsTheDocument(stock) == snapshotCapitalUAH(stock.snapshot) = TotalUAH(stock.capital)

(* The month counts as invested what the journal of movements counts as    *)
(* new money in papers and funds, transfers between funds at what was paid *)
(* on top.                                                                 *)
InvestedIsNewMoney(books, stock, today) ==
  LET new == {f \in stock.flows : f.instr \in {"bond", "fund"} /\ f.kind = "purchase"
                                    /\ SameMonth(f.date, today)}
      month == buildMonth(books, stock.flows, today)
  IN month.invested = SumOver(LAMBDA f : f.new, new)
=============================================================================
