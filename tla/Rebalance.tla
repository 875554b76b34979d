------------------------------ MODULE Rebalance ------------------------------
(***************************************************************************)
(* What the portfolio lacks to its targets, and what is gathered in it too *)
(* densely (internal/engine/state_rebalance.go, internal/state/capital.go).*)
(* Targets of a currency are parts of the whole capital, targets of a kind *)
(* of instrument are parts of it without the reserve and the goals.        *)
(*                                                                         *)
(* The portfolio: [held: by part of the capital, exposure, currencyTarget, *)
(* rate, bond, deposit: by currency (the cheapest bond and the least       *)
(* deposit in the currency itself, 0 when there is none), kindTarget,      *)
(* unit: by kind, limit: by dimension, issuers, institutions: sequences of *)
(* [key, amount], years: sums by year, cash].  Sums are whole hryvnias,    *)
(* targets and limits whole percents with 0 for none, shares hundredths of *)
(* a percent.  Keys are numbers, 0 the empty one.                          *)
(***************************************************************************)
EXTENDS Money

Currencies == <<"USD", "EUR">>
Kinds == <<"bonds", "funds", "deposits", "npf">>
Dimensions == <<"broker", "isin", "year">>

TotalUAH(p) == SumFunction(p.held)
SharePct(p, cur) == IF TotalUAH(p) <= 0 THEN 0 ELSE roundDiv(p.exposure[cur] * 10000, TotalUAH(p))
kindMajor(p) == TotalUAH(p) - p.held["reserve"] - p.held["goals"]
Part(whole, pct) == (whole * pct) \div 100
fillPct(now, target) == IF target <= 0 THEN 0 ELSE roundDiv(now * 10000, target)

----------------------------------------------------------------------------
(* A currency is entered by a bond when the target has room for one, else  *)
(* by a deposit.                                                           *)
CurrencyTarget(p, cur) == Part(TotalUAH(p), p.currencyTarget[cur])
UnitOf(p, cur) ==
  IF (p.bond[cur] > 0 /\ p.bond[cur] * p.rate[cur] <= CurrencyTarget(p, cur)) \/ p.deposit[cur] <= 0
  THEN [kind |-> "bond", native |-> p.bond[cur]]
  ELSE [kind |-> "deposit", native |-> p.deposit[cur]]

(* [mutant] what waits for a bond is what lies in deposits *)
TransitWhenShort(p, cur) == Most(0, CurrencyTarget(p, cur) - p.exposure[cur])

(* What of the target whole bonds cannot take, and waits in a deposit.     *)
TransitUAH(p, cur) ==
  IF p.bond[cur] = 0 THEN CurrencyTarget(p, cur)
  ELSE CurrencyTarget(p, cur) % (p.bond[cur] * p.rate[cur])

CurrencyRows(p) ==
  LET named == SelectSeq(Currencies, LAMBDA cur : p.currencyTarget[cur] > 0 /\ p.rate[cur] > 0)
      row(cur) ==
        LET unit == UnitOf(p, cur)
            target == CurrencyTarget(p, cur)
            cost == unit.native * p.rate[cur]
        IN [dimension |-> "currency", key |-> cur, pct |-> p.currencyTarget[cur] * 100,
            share |-> SharePct(p, cur), target |-> target, current |-> p.exposure[cur],
            deficit |-> Most(0, target - p.exposure[cur]), unitKind |-> unit.kind, unit |-> cost,
            feasible |-> cost > 0 /\ cost <= target, fill |-> fillPct(p.exposure[cur], target),
            transit |-> TransitUAH(p, cur)]
  IN [i \in DOMAIN named |-> row(named[i])]

(* The money on its way into bonds is cut out of the target of the bonds,  *)
(* and is never more than that.                                            *)
TransitCarve(p) ==
  Least(Total([i \in DOMAIN CurrencyRows(p) |-> CurrencyRows(p)[i].transit]),
        Part(kindMajor(p), p.kindTarget["bonds"]))

(* Kinds with a target, and after them those that only hold money.         *)
KindRows(p) ==
  LET base == kindMajor(p)
      row(k) ==
        LET target == Part(base, p.kindTarget[k])
            now == p.held[k]
        IN [dimension |-> "kind", key |-> k, pct |-> p.kindTarget[k] * 100,
            share |-> roundDiv(now * 10000, base), target |-> target, current |-> now,
            deficit |-> Most(0, target - now), unitKind |-> k,
            unit |-> IF p.kindTarget[k] > 0 THEN p.unit[k] ELSE 0,
            feasible |-> p.kindTarget[k] = 0 \/ p.unit[k] <= target, fill |-> fillPct(now, target),
            transit |-> IF k \in {"bonds", "deposits"} /\ (k = "deposits" \/ p.kindTarget[k] > 0)
                        THEN TransitCarve(p) ELSE 0]
      rows(test(_)) ==
        LET S == SelectSeq(Kinds, test) IN [i \in DOMAIN S |-> row(S[i])]
  IN IF base <= 0 THEN <<>>
     ELSE rows(LAMBDA k : p.kindTarget[k] > 0)
            \o rows(LAMBDA k : p.kindTarget[k] = 0 /\ p.held[k] > 0)

----------------------------------------------------------------------------
(* Concentration: what depends on one issuer, on one institution, and how  *)
(* much returns in one year, the latter of all that returns.               *)
Dense(p, dim, key, amount, base) ==
  LET limit == p.limit[dim]
      over == amount * 100 > base * limit
  IN [dimension |-> dim, key |-> key, amount |-> amount, share |-> roundDiv(amount * 10000, base),
      limit |-> limit, over |-> IF over THEN amount - Part(base, limit) ELSE 0]
DenseRows(p, dim, rows, base) ==
  IF p.limit[dim] = 0 \/ base <= 0 THEN <<>>
  ELSE [i \in DOMAIN rows |-> Dense(p, dim, rows[i].key, rows[i].amount, base)]

(* Money that lies with nobody makes the institutions' shares a whole.     *)
CashRow(p) ==
  IF p.limit["broker"] = 0 \/ p.cash = 0 \/ TotalUAH(p) <= 0 THEN <<>>
  ELSE <<[dimension |-> "broker", key |-> None, amount |-> p.cash,
          share |-> roundDiv(p.cash * 10000, TotalUAH(p)), limit |-> 0, over |-> 0]>>

Rank(dim) == CHOOSE i \in DOMAIN Dimensions : Dimensions[i] = dim
Denser(x, y) ==
  LET key(r) == <<Rank(r.dimension), IF r.key = None THEN 1 ELSE 0, -r.share, r.key>>
  IN KeyBefore(key(x), key(y))
Concentration(p) ==
  SortSeq(DenseRows(p, "isin", p.issuers, TotalUAH(p))
            \o DenseRows(p, "broker", p.institutions, TotalUAH(p)) \o CashRow(p)
            \o DenseRows(p, "year", p.years, Amounts(p.years)), Denser)

buildRebalance(p) ==
  [rows |-> CurrencyRows(p) \o KindRows(p), concentration |-> Concentration(p), kindMajor |-> kindMajor(p)]

----------------------------------------------------------------------------
OfDimension(rows, dim) == {i \in DOMAIN rows : rows[i].dimension = dim}
Sum(f(_), S) == MapThenSumSet(f, S)

(* The rows of the kinds account for all the capital outside the reserve   *)
(* and the goals, each kind once; when the targets share it out, what some *)
(* kinds lack is what the others have too much of                          *)
(* (state_rebalance.go:362-385, 492-527).                                  *)
KindsAccountForAll(p, r) ==
  LET kinds == OfDimension(r.rows, "kind")
      shared == Sum(LAMBDA i : p.kindTarget[Kinds[i]], DOMAIN Kinds) = 100
  IN r.kindMajor > 0 =>
       /\ Sum(LAMBDA i : r.rows[i].current, kinds) = r.kindMajor
       /\ \A i, j \in kinds : r.rows[i].key = r.rows[j].key => i = j
       /\ shared => Sum(LAMBDA i : r.rows[i].deficit, kinds)
                      = Sum(LAMBDA i : Most(0, r.rows[i].current - r.rows[i].target), kinds)

(* What waits in deposits is less than a bond of its currency, whole bonds *)
(* take the rest of the target; what is cut out of the bonds stays within  *)
(* their target, and no target, or no rate to count with, cuts nothing     *)
(* (state_rebalance.go:231-262, 403-421).                                  *)
TransitIsOnItsWay(p, r) ==
  LET rows(dim) == {r.rows[i] : i \in OfDimension(r.rows, dim)}
      waiting == Sum(LAMBDA x : x.transit, rows("currency"))
  IN /\ \A x \in rows("currency") :
          p.bond[x.key] > 0 =>
            /\ x.transit < p.bond[x.key] * p.rate[x.key]
            /\ \E n \in 0..(x.target \div p.bond[x.key]) :
                 n * p.bond[x.key] * p.rate[x.key] + x.transit = x.target
     /\ \A x \in rows("kind") :
          /\ x.key = "bonds" => x.transit <= x.target
          /\ x.transit <= waiting
          /\ x.transit > 0 => p.kindTarget["bonds"] > 0 /\ x.key \in {"bonds", "deposits"}
          /\ \A y \in rows("kind") : {x.key, y.key} = {"bonds", "deposits"} /\ x.pct > 0 /\ y.pct > 0 =>
               x.transit = y.transit

(* A target is called out of reach only when nothing that enters its       *)
(* currency fits into it (state_rebalance.go:283-302).                     *)
OutOfReachMeansNoWayIn(p, r) ==
  \A i \in OfDimension(r.rows, "currency") :
    LET x == r.rows[i]
        ways == {p.bond[x.key] * p.rate[x.key], p.deposit[x.key] * p.rate[x.key]} \ {0}
    IN x.feasible <=> \E w \in ways : w <= x.target

(* The shares of the institutions and the cash make up the capital; moving *)
(* out what is over brings a row to its limit; the densest stands first    *)
(* and the cash, which no limit binds, last (state_rebalance.go:529-626).  *)
ConcentrationAddsUp(p, r) ==
  LET rows == r.concentration
      part(dim) == OfDimension(rows, dim)
      held == Amounts(p.institutions) + p.cash
  IN /\ p.limit["broker"] > 0 /\ held = TotalUAH(p) /\ held > 0 =>
          /\ Sum(LAMBDA i : rows[i].amount, part("broker")) = TotalUAH(p)
          /\ Abs(Sum(LAMBDA i : rows[i].share, part("broker")) - 10000) <= Len(rows)
     /\ p.limit["year"] > 0 =>
          Sum(LAMBDA i : rows[i].amount, part("year")) = Amounts(p.years)
     /\ \A i \in DOMAIN rows :
          LET base == IF rows[i].dimension = "year" THEN Amounts(p.years) ELSE TotalUAH(p)
          IN /\ rows[i].over > 0 <=> rows[i].limit > 0 /\ rows[i].amount * 100 > base * rows[i].limit
             /\ rows[i].over > 0 => Abs((rows[i].amount - rows[i].over) * 100 - base * rows[i].limit) < 100
     /\ \A i, j \in DOMAIN rows : i < j /\ rows[i].dimension = rows[j].dimension =>
          (rows[i].share >= rows[j].share \/ rows[j].key = None) /\ rows[i].key # None
=============================================================================
