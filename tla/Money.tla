-------------------------------- MODULE Money --------------------------------
(***************************************************************************)
(* Arithmetic on minor units (internal/domain/moneyutil.go, debt.go): how  *)
(* the program rounds, splits a sum in proportion and adds up rows.        *)
(***************************************************************************)
EXTENDS Calendar

None == 0
Least(a, b) == IF a <= b THEN a ELSE b
Most(a, b) == IF a >= b THEN a ELSE b
Abs(a) == IF a < 0 THEN -a ELSE a

Total(seq) == SumFunction(seq)
AmountsOf(rows, S) == SumFunctionOnSet([i \in DOMAIN rows |-> rows[i].amount], S)
Amounts(rows) == AmountsOf(rows, DOMAIN rows)

(* The numbers of a set, in order.                                         *)
Ascending(S) ==
  [k \in 1..Cardinality(S) |-> CHOOSE x \in S : Cardinality({y \in S : y < x}) = k - 1]

(* Keys are compared part by part.                                         *)
KeyBefore(x, y) == \E i \in DOMAIN x : x[i] < y[i] /\ \A j \in 1..(i - 1) : x[j] = y[j]

(* The first and the last of some dates, NoDate of none.                   *)
Earliest(dates) == IF dates = {} THEN NoDate ELSE CHOOSE d \in dates : \A e \in dates : d <= e
Latest(dates) == IF dates = {} THEN NoDate ELSE CHOOSE d \in dates : \A e \in dates : e <= d

(* Division of Go's integers: the quotient is cut towards zero.            *)
Quo(a, b) == IF a >= 0 THEN a \div b ELSE -((-a) \div b)

(* Half away from zero, as math.Round does.                                *)
roundDiv(a, b) ==
  IF b = 0 THEN 0
  ELSE IF a >= 0 THEN (a + b \div 2) \div b ELSE -((-a + b \div 2) \div b)

(* The nearest whole number, the even one of two.                          *)
RatToInt64HalfEven(num, den) ==
  LET q == num \div den
      twice == 2 * (num % den)
  IN IF twice > den \/ (twice = den /\ q % 2 = 1) THEN q + 1 ELSE q

(* The part of a sum that belongs to part out of whole.                    *)
Apportion(sum, part, whole) ==
  IF sum = 0 \/ whole <= 0 \/ part <= 0 THEN 0 ELSE RatToInt64HalfEven(sum * part, whole)

(* splitProportional: whole shares by weight, what rounding leaves to the  *)
(* largest, of equals to the first.                                        *)
splitProportional(sum, weights) ==
  LET all == SumFunction(weights)
      share == [k \in DOMAIN weights |-> Quo(sum * weights[k], all)]
      top == CHOOSE k \in DOMAIN weights : \A j \in DOMAIN weights :
               weights[j] < weights[k] \/ (weights[j] = weights[k] /\ k <= j)
      given == SumFunctionOnSet(share, DOMAIN weights)
  IN IF all <= 0 THEN [k \in {} |-> 0]
     ELSE [share EXCEPT ![top] = @ + sum - given]
=============================================================================
