------------------------------- MODULE Offers -------------------------------
(***************************************************************************)
(* What to buy with free money (internal/engine: quotes_pick.go,           *)
(* unit_cost.go, reinvest.go, decisions.go): the price of a bond at one's  *)
(* own brokers, the rows offered, their order, and the journal of what was *)
(* chosen and what stood above it.                                         *)
(*                                                                         *)
(* The market: [bonds, payments, quotes, mine, sweptAt, auctions,          *)
(* deposits, funds, npf, debt, depositRate, depositMin, devaluation]; a    *)
(* quote is [isin, source, date, price, cur], mine the sources of one's    *)
(* brokers.  A document is that of Rebalance with [policy, ladder, rank,   *)
(* rebalance]; policy tells whether a target of a currency is named.  A    *)
(* rate is in hundredths of a percent; the yield of a bond to its          *)
(* maturity, which is solved numerically, is given for its market price    *)
(* and for its nominal.                                                    *)
(***************************************************************************)
EXTENDS Rebalance

LOCAL Papers == INSTANCE Holdings
LOCAL Savings == INSTANCE DepositMath

MinTermDays == 30
QuoteFreshDays == 5
staleAfterDays == 365

RealYield(rate, cur, devaluation) ==
  IF cur = "UAH" THEN roundDiv((10000 + rate) * 10000, 10000 + devaluation) - 10000 ELSE rate

----------------------------------------------------------------------------
(* The last word of every seller, the cheapest first.                      *)
LatestQuotes(quotes, isin) ==
  LET last(q) == \A r \in quotes : r.isin = q.isin /\ r.source = q.source => r.date <= q.date
  IN SetToSortSeq({q \in quotes : q.isin = isin /\ last(q)},
                  LAMBDA q, r : KeyBefore(<<q.price, q.source>>, <<r.price, r.source>>))

Fresh(date, on) == Valid(date) /\ DaysBetween(date, on) \in 0..QuoteFreshDays
quoteFresh(q, on) == q.price > 0 /\ Fresh(q.date, on)

(* [mutant] the cheapest is chosen first, and asked how old it is after *)
PickBeforeAge(market, isin, on) ==
  SelectSeq(LatestQuotes(market.quotes, isin), LAMBDA q : q.source \in market.mine)

(* The fresh quotes of one's own brokers: the best, the next, the others.  *)
pickQuotes(market, isin, on) ==
  SelectSeq(LatestQuotes(market.quotes, isin), LAMBDA q : q.source \in market.mine /\ quoteFresh(q, on))

(* A price is missed only when all papers have lately been asked about.    *)
hideUnpriced(market, on) == Fresh(market.sweptAt, on)

(* A price more than half away from the nominal is not believed.           *)
marketCost(b, on, picked) ==
  /\ picked # <<>> /\ picked[1].cur = b.cur /\ quoteFresh(picked[1], on)
  /\ 2 * Abs(picked[1].price - b.nominal) <= b.nominal
bondUnitCost(market, b, on) ==
  LET picked == pickQuotes(market, b.isin, on)
  IN IF marketCost(b, on, picked) THEN [cost |-> picked[1].price, basis |-> "market"]
     ELSE [cost |-> b.nominal + Papers!EstimateAccrued(market.payments, b.isin, on), basis |-> "nominal"]

----------------------------------------------------------------------------
(* What the document says of targets and limits.  A currency is short of   *)
(* its target only when some target is named, and the hryvnia has the rest.*)
Rebalanced(doc) == [rebalance |-> buildRebalance(doc)] @@ doc
Short(doc, cur) ==
  LET target == IF cur = "UAH" THEN 10000 - 100 * SumFunction(doc.currencyTarget) ELSE 100 * doc.currencyTarget[cur]
      share == IF cur = "UAH" THEN 10000 - SharePct(doc, "USD") - SharePct(doc, "EUR") ELSE SharePct(doc, cur)
  IN IF ~doc.policy THEN 0 ELSE target - share
ShortOfKind(doc, kind) ==
  LET row(i) == doc.rebalance.rows[i]
  IN Sum(LAMBDA i : IF row(i).key = kind /\ row(i).pct > 0 THEN Most(0, row(i).pct - row(i).share) ELSE 0,
         OfDimension(doc.rebalance.rows, "kind"))
Over(doc, dim, key) ==
  \E i \in OfDimension(doc.rebalance.concentration, dim) :
    doc.rebalance.concentration[i].key = key /\ doc.rebalance.concentration[i].over > 0

(* Deposits of a currency that wait for a bond have waited long enough;    *)
(* those of the reserve and of the goals wait for nothing.                 *)
Free(d, today) == ~d.earmarked /\ ~d.closed /\ today <= d.maturity
Waiting(market, cur, today) ==
  Sum(LAMBDA i : market.deposits[i].balance,
      {i \in DOMAIN market.deposits : market.deposits[i].cur = cur /\ Free(market.deposits[i], today)})
overTransit(market, doc, cur, today) ==
  \E i \in OfDimension(doc.rebalance.rows, "currency") :
    LET x == doc.rebalance.rows[i]
    IN x.key = cur /\ x.transit > 0 /\ Waiting(market, cur, today) * doc.rate[cur] >= x.transit

Row(kind, label, cur, cost, nominal, real) ==
  [kind |-> kind, label |-> label, cur |-> cur, cost |-> cost, basis |-> "market", nominal |-> nominal,
   real |-> real, maturity |-> NoDate, ladderNom |-> 0, def |-> 0, kindDef |-> 0, stale |-> FALSE,
   overLimit |-> FALSE, overTransit |-> FALSE, locked |-> FALSE]

(* A paper that no auction has placed for a year, if auctions are known.   *)
Stale(market, isin, today) ==
  LET placed == {a.date : a \in {x \in market.auctions : x.isin = isin}}
  IN market.auctions # {} /\ (placed = {} \/ DaysBetween(Latest(placed), today) > staleAfterDays)

CanOfferBond(market, b, today) ==
  /\ b.nominal > 0 /\ DaysBetween(today, b.maturity) >= MinTermDays
  /\ hideUnpriced(market, today) => pickQuotes(market, b.isin, today) # <<>>
  /\ \E p \in market.payments : p.isin = b.isin /\ p.date > today
BondRowAt(market, doc, b, unit, today) ==
  [Row("bond", b.isin, b.cur, unit.cost, b.ytm[unit.basis],
       RealYield(b.ytm[unit.basis], b.cur, market.devaluation)) EXCEPT
     !.basis = unit.basis, !.maturity = b.maturity, !.ladderNom = doc.ladder[Year(b.maturity)][b.cur],
     !.def = Short(doc, b.cur), !.kindDef = ShortOfKind(doc, "bonds"),
     !.overLimit = Over(doc, "isin", b.isin) \/ Over(doc, "year", Year(b.maturity)),
     !.stale = Stale(market, b.isin, today)]
BondRow(market, doc, b, today) == BondRowAt(market, doc, b, bondUnitCost(market, b, today), today)

(* A fund is compared by what it will give: its promise after tax, or the  *)
(* dividends, which have been taxed.  No term beyond a year.               *)
FundRate(f) ==
  IF f.expected > 0 THEN roundDiv(f.expected * (100 - f.tax), 100) ELSE f.dividends
CanOfferFund(f, today) == f.price > 0 /\ Most(f.expected, f.dividends) > 0 /\ (f.until = NoDate \/ today <= f.until)
FundRow(market, doc, f) ==
  [Row("fund", f.key, f.cur, f.price, FundRate(f),
       RealYield(FundRate(f), IF f.expected > 0 THEN f.expectedCur ELSE f.cur, market.devaluation)) EXCEPT
     !.def = Short(doc, f.cur), !.kindDef = ShortOfKind(doc, "funds"), !.overLimit = Over(doc, "isin", f.key)]

CanTopUp(d, today) == d.replenishable /\ Free(d, today) /\ d.principal > 0
DepositRow(market, doc, label, cur, cost, rate, maturity, today) ==
  [Row("deposit", label, cur, cost, rate, RealYield(rate, cur, market.devaluation)) EXCEPT
     !.maturity = maturity, !.def = Short(doc, cur), !.kindDef = ShortOfKind(doc, "deposits"),
     !.overTransit = overTransit(market, doc, cur, today)]
NewDeposit == 0
CanOpen(market, cur) == market.depositRate[cur] > 0 /\ market.depositMin[cur] > 0
NewRate(market, cur, today) ==
  roundDiv(market.depositRate[cur] * (10000 - Savings!DepositTaxBPOn(today)), 10000)

(* A pension account has no least sum, and locks what it is given.         *)
PensionRow(doc, n) ==
  [Row("npf", n.key, "UAH", 0, n.nominal, n.real) EXCEPT
     !.def = Short(doc, "UAH"), !.kindDef = ShortOfKind(doc, "npf"), !.locked = TRUE]
DebtRow(market) ==
  Row("debt", market.debt.top, "UAH", 0, market.debt.rate, RealYield(market.debt.rate, "UAH", market.devaluation))

----------------------------------------------------------------------------
(* The order.  First what the rows are not to be compared by: locked money,*)
(* a limit exceeded, a deposit that waits no more, a price not known; then *)
(* the chosen rank, by numbers a hundredth of a percent of which says      *)
(* nothing; the gain again and the date.                                   *)
suggMatKey(s) == IF s.maturity = NoDate THEN 99991231 ELSE s.maturity
suggUnpriced(s) == s.stale /\ s.basis # "market"
suggPlanScore(s) == Most(0, s.def) + Most(0, s.kindDef)
orderKey(s, order) == IF order = "nominal" THEN s.nominal ELSE s.real

Exact(n) == [value |-> n, tolerance |-> 0]
Nearly(n) == [value |-> n, tolerance |-> 1]
(* [mutant] a row that exceeds a limit stands by its gain *)
DemotionsButLimit(s) ==
  <<Exact(IF s.locked THEN 1 ELSE 0), Exact(0), Exact(IF s.overTransit THEN 1 ELSE 0),
    Exact(IF suggUnpriced(s) THEN 1 ELSE 0)>>
Demotions(s) ==
  <<Exact(IF s.locked THEN 1 ELSE 0), Exact(IF s.overLimit THEN 1 ELSE 0),
    Exact(IF s.overTransit THEN 1 ELSE 0), Exact(IF suggUnpriced(s) THEN 1 ELSE 0)>>
Criteria(s, rank, order) ==
  LET gain == Nearly(-orderKey(s, order))
      date == Exact(suggMatKey(s))
      rung == Exact(s.ladderNom)
  IN Demotions(s)
       \o (CASE rank = "rate" -> <<gain>> [] rank = "short" -> <<date>> [] rank = "ladder" -> <<rung, gain>>
             [] OTHER -> <<Nearly(-suggPlanScore(s)), gain, rung>>)
       \o <<gain, date>>
lessSuggestion(a, b, rank, order) ==
  LET x == Criteria(a, rank, order)
      y == Criteria(b, rank, order)
      apart(i) == Abs(x[i].value - y[i].value) > x[i].tolerance
  IN \E i \in DOMAIN x : apart(i) /\ x[i].value < y[i].value /\ \A j \in 1..(i - 1) : ~apart(j)

Ordered(rows, rank, order) == SortSeq(rows, LAMBDA a, b : lessSuggestion(a, b, rank, order))
futureOrder(sug, rank) == Ordered(sug, rank, "real")

Mapped(rows, row(_)) == [i \in DOMAIN rows |-> row(rows[i])]
OfferedRows(market, doc, today) ==
  LET topUps == SelectSeq(market.deposits, LAMBDA d : CanTopUp(d, today))
      opened == SelectSeq(<<"USD", "EUR", "UAH">>, LAMBDA cur : CanOpen(market, cur))
  IN Mapped(SelectSeq(market.bonds, LAMBDA b : CanOfferBond(market, b, today)),
            LAMBDA b : BondRow(market, doc, b, today))
     \o Mapped(SelectSeq(market.funds, LAMBDA f : CanOfferFund(f, today)), LAMBDA f : FundRow(market, doc, f))
     \o Mapped(topUps, LAMBDA d : DepositRow(market, doc, d.bank, d.cur, d.principal, d.rate, d.maturity, today))
     \o Mapped(opened, LAMBDA cur : DepositRow(market, doc, NewDeposit, cur, market.depositMin[cur],
                                               NewRate(market, cur, today), NoDate, today))
     \o Mapped(SelectSeq(market.npf, LAMBDA n : n.access # NoDate /\ n.real # 0), LAMBDA n : PensionRow(doc, n))
     \o IF market.debt.total > 0 /\ market.debt.rate > 0 THEN <<DebtRow(market)>> ELSE <<>>
ReinvestSuggestions(market, doc, today) == Ordered(OfferedRows(market, doc, today), doc.rank, "real")

(* Only a bond that stands in the list can be chosen ahead of it.          *)
PickSuggestion(sug, isin) == isin = None \/ \E i \in DOMAIN sug : sug[i].kind = "bond" /\ sug[i].label = isin

----------------------------------------------------------------------------
(* The journal of decisions: what was bought, where it stood in the list   *)
(* that minute, and what stood first.  Money for the reserve and the goals *)
(* stands nowhere in it: only what it gave up is told.                     *)
Outside == {"reserve", "goal"}
NoSnapshot == [ok |-> FALSE, pos |-> 0, real |-> 0, top |-> <<>>, topReal |-> 0]
TakeOutsideSnapshot(sug) ==
  IF sug = <<>> THEN NoSnapshot
  ELSE [ok |-> TRUE, pos |-> 0, real |-> 0, top |-> <<sug[1].label>>, topReal |-> sug[1].real]
TakeDecisionSnapshot(sug, kind, label) ==
  LET at == {i \in DOMAIN sug : sug[i].kind = kind /\ sug[i].label = label}
      first == CHOOSE i \in at : \A j \in at : i <= j
  IN IF at = {} THEN NoSnapshot
     ELSE [ok |-> TRUE, pos |-> first, real |-> sug[first].real,
           top |-> IF first = 1 THEN <<>> ELSE <<sug[1].label>>,
           topReal |-> IF first = 1 THEN 0 ELSE sug[1].real]
SaveDecision(journal, snap, b) ==
  IF snap.ok THEN Append(journal, snap @@ [kind |-> b.kind, mode |-> b.mode, lot |-> b.lot]) ELSE journal

DecisionBase(d) ==
  [kind |-> d.kind, mode |-> d.mode, pos |-> d.pos, top |-> d.top, promised |-> d.real,
   forgone |-> IF d.kind \in Outside THEN d.topReal ELSE 0,
   vsTop |-> IF d.kind \notin Outside /\ d.pos > 1 /\ d.top # <<>> THEN d.real - d.topReal ELSE 0]
(* What a bond has given since is measured on its lot, when that is still  *)
(* there and has been held long enough; nothing else is.                   *)
decisionActual(d, given) == d.kind = "bond" /\ d.lot \in DOMAIN given
DecisionRows(journal, given) ==
  LET row(d) == DecisionBase(d) @@ [measured |-> decisionActual(d, given),
                                    drift |-> IF decisionActual(d, given) THEN given[d.lot] - d.real ELSE 0]
  IN [i \in DOMAIN journal |-> row(journal[i])]

Average(f(_), S) == roundDiv(Sum(f, S), Cardinality(S))
SummarizeDecisions(rows) ==
  LET of(kind) == {i \in DOMAIN rows : rows[i].kind = kind}
      bought == DOMAIN rows \ (of("reserve") \cup of("goal"))
      among(S) ==
        [count |-> Cardinality(S), followed |-> Cardinality({i \in S : rows[i].pos = 1}),
         measured |-> Cardinality({i \in S : rows[i].measured}),
         drift |-> Average(LAMBDA i : rows[i].drift, {i \in S : rows[i].measured})]
  IN [all |-> among(bought),
      vsTop |-> Average(LAMBDA i : rows[i].vsTop, {i \in bought : rows[i].pos # 1 /\ rows[i].top # <<>>}),
      outside |-> [k \in Outside |-> [count |-> Cardinality(of(k)), forgone |-> Average(LAMBDA i : rows[i].forgone, of(k))]],
      modes |-> [m \in {rows[i].mode : i \in bought} |-> among({i \in bought : rows[i].mode = m})]]

----------------------------------------------------------------------------
(* A market price is the least that the brokers of one's own ask today, and*)
(* while all they ask can be believed, a bond they sell has one: an old    *)
(* quote, however cheap, takes nothing away from a fresh one               *)
(* (quotes_pick.go:151-200, unit_cost.go:93-146).                          *)
FreshAsks(market, b, today) ==
  {q \in market.quotes :
     /\ q.isin = b.isin /\ q.source \in market.mine /\ q.price > 0 /\ Fresh(q.date, today)
     /\ \A r \in market.quotes : r.isin = q.isin /\ r.source = q.source => r.date <= q.date}
Believable(b, q) == q.cur = b.cur /\ 2 * Abs(q.price - b.nominal) <= b.nominal
PricesAreOnesOwn(market, sug, today) ==
  \A i \in DOMAIN sug : sug[i].kind = "bond" =>
    \A k \in DOMAIN market.bonds :
      LET b == market.bonds[k]
          asks == FreshAsks(market, b, today)
      IN b.isin = sug[i].label =>
           /\ sug[i].basis = "market" =>
                \E q \in asks : q.price = sug[i].cost /\ Believable(b, q) /\ \A r \in asks : q.price <= r.price
           /\ asks # {} /\ (\A q \in asks : Believable(b, q)) => sug[i].basis = "market"

(* Without a recent question about all papers no bond is missed for want   *)
(* of a price, and with it every bond that is offered is sold by one of    *)
(* one's brokers (reinvest.go:541-552).                                    *)
BondsOffered(sug) == {sug[i].label : i \in {j \in DOMAIN sug : sug[j].kind = "bond"}}
HiddenOnlyWhenAsked(market, doc, sug, today) ==
  LET unasked == OfferedRows([market EXCEPT !.quotes = {}, !.sweptAt = NoDate], doc, today)
  IN IF market.sweptAt # NoDate /\ DaysBetween(market.sweptAt, today) \in 0..QuoteFreshDays
     THEN BondsOffered(sug) = {x \in BondsOffered(unasked) :
                                 \E k \in DOMAIN market.bonds :
                                   market.bonds[k].isin = x /\ FreshAsks(market, market.bonds[k], today) # {}}
     ELSE BondsOffered(sug) = BondsOffered(unasked)

(* What is not to be compared stands apart and in its order; the list that *)
(* is laid out is the one that is shown; and unless two rows are as good   *)
(* as equal, no matter in which order the rows were found                  *)
(* (reinvest.go:321-398, 1010-1022).                                       *)
Clear(rows, rank) ==
  \A i, j \in DOMAIN rows : i # j =>
    LET x == Criteria(rows[i], rank, "real")
        y == Criteria(rows[j], rank, "real")
    IN x # y /\ \A k \in DOMAIN x :
                  x[k].value = y[k].value \/ Abs(x[k].value - y[k].value) > x[k].tolerance
Flaws(s) == <<s.locked, s.overLimit, s.overTransit, s.stale /\ s.basis # "market">>
DemotedBelow(a, b) ==
  \E i \in 1..4 : Flaws(a)[i] /\ ~Flaws(b)[i] /\ \A j \in 1..(i - 1) : Flaws(a)[j] = Flaws(b)[j]
OrderIsOfTheRows(rows, sug, rank) ==
  /\ \A i, j \in DOMAIN sug : i < j => ~DemotedBelow(sug[i], sug[j])
  /\ futureOrder(sug, rank) = sug
  /\ \A r \in {"rate", "short", "ladder", "plan"} :
       Clear(rows, r) => futureOrder(Reverse(rows), r) = futureOrder(rows, r)

(* A deposit stands behind the bonds as soon as the deposits hold what a   *)
(* bond of the currency waits for, and not before; money of the reserve    *)
(* and of the goals never counts as waiting (reinvest.go:829-853).         *)
DepositsWaitForABond(market, doc, sug, today) ==
  LET r == doc.rebalance
      of(kind, cur) == {i \in DOMAIN sug : sug[i].kind = kind /\ sug[i].cur = cur}
      awaited(cur) == {r.rows[i].transit : i \in {j \in OfDimension(r.rows, "currency") : r.rows[j].key = cur}} \ {0}
  IN \A i \in UNION {of("deposit", cur) : cur \in {"USD", "EUR", "UAH"}} :
       LET cur == sug[i].cur
           waits == Sum(LAMBDA k : IF market.deposits[k].earmarked THEN 0 ELSE market.deposits[k].balance,
                        {k \in DOMAIN market.deposits :
                           /\ market.deposits[k].cur = cur /\ ~market.deposits[k].closed
                           /\ today <= market.deposits[k].maturity})
       IN /\ sug[i].overTransit => \E t \in awaited(cur) : waits * doc.rate[cur] >= t
          /\ (\E t \in awaited(cur) : waits * doc.rate[cur] >= t) =>
               \A j \in of("bond", cur) : ~sug[j].overLimit => j < i

(* What was bought from one list, one thing after another.                 *)
Told(sug, bought, given) ==
  LET snap(b) == IF b.kind \in Outside THEN TakeOutsideSnapshot(sug)
                 ELSE TakeDecisionSnapshot(sug, b.kind, b.label)
  IN DecisionRows(FoldLeft(LAMBDA j, b : SaveDecision(j, snap(b), b), <<>>, bought), given)

(* The journal tells of every purchase that stood in the list where it     *)
(* stood and what stood above; ranked by the rate alone, what is chosen    *)
(* below the top of its class never promised more than the top             *)
(* (decisions.go:63-99, 375-398).                                          *)
JournalTellsTheList(sug) ==
  \A i \in DOMAIN sug :
    LET snap == TakeDecisionSnapshot(sug, sug[i].kind, sug[i].label)
        d == DecisionBase(snap @@ [kind |-> sug[i].kind, mode |-> "rate"])
    IN /\ snap.ok /\ snap.pos <= i /\ (snap.pos = 1 <=> snap.top = <<>>)
       /\ PickSuggestion(sug, sug[i].label) \/ sug[i].kind # "bond"
       /\ futureOrder(sug, "rate") = sug /\ Clear(sug, "rate") /\ ~DemotedBelow(sug[snap.pos], sug[1]) =>
            d.vsTop <= 0

(* The summary counts each decision once: purchases that stood first and   *)
(* purchases with something above them, by mode as in all, and apart from  *)
(* them the money that went past the list (decisions.go:452-519).          *)
SummaryAddsUp(rows) ==
  LET s == SummarizeDecisions(rows)
      inModes(f(_)) == Sum(LAMBDA m : f(s.modes[m]), DOMAIN s.modes)
  IN /\ s.all.count + s.outside["reserve"].count + s.outside["goal"].count = Len(rows)
     /\ inModes(LAMBDA m : m.count) = s.all.count
     /\ inModes(LAMBDA m : m.followed) = s.all.followed
     /\ s.all.followed + Cardinality({i \in DOMAIN rows : rows[i].kind \notin Outside /\ rows[i].top # <<>>})
          = s.all.count
     /\ Abs(inModes(LAMBDA m : m.drift * m.measured) - s.all.drift * s.all.measured) <= s.all.measured
     /\ \A k \in Outside : s.outside[k].forgone <= Sum(LAMBDA i : rows[i].forgone, {i \in DOMAIN rows : rows[i].kind = k})
=============================================================================
