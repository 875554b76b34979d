------------------------- MODULE MCStatementImport -------------------------
(* Histories of up to three events: equal operations on a day, conversions *)
(* whose legs fall on one day or two, one of them paid on top of the day   *)
(* after, a coupon.                                                        *)
EXTENDS StatementImport, TLC

Op(day, sym) == [kind |-> "op", day |-> day, sold |-> day, sym |-> sym, full |-> sym]
Topped(sold, day, sym, full) ==
  [kind |-> "pair", day |-> day, sold |-> sold, sym |-> sym, full |-> full]
Pair(sold, day, sym) == Topped(sold, day, sym, sym)
Coupon(day) == [kind |-> "coupon", day |-> day, sold |-> day, sym |-> "c", full |-> "c"]

MCHistories ==
  {<<Op(1, "x"), Op(1, "x"), Op(2, "x")>>,
   <<Op(1, "x"), Pair(1, 2, "y"), Op(3, "x")>>,
   <<Pair(2, 1, "y"), Op(3, "x")>>,
   <<Pair(1, 1, "y"), Coupon(2), Pair(2, 3, "y")>>,
   <<Topped(1, 2, "y", "yz"), Op(3, "x")>>,
   <<Op(1, "y"), Pair(1, 1, "y"), Pair(2, 2, "y"), Pair(2, 2, "y")>>}
LateTopUp == {<<Topped(1, 2, "y", "yz")>>}

OneUser == [imports |-> 4, faults |-> 2, entries |-> 1, moves |-> 0, atOnce |-> 1]
MovedMark == [imports |-> 3, faults |-> 0, entries |-> 0, moves |-> 1, atOnce |-> 1]
TwoUsers == [imports |-> 2, faults |-> 0, entries |-> 0, moves |-> 0, atOnce |-> 2]
NothingFails == {[imports |-> 3, faults |-> 0, entries |-> 0, moves |-> 0, atOnce |-> 1]}
AllLimits == {OneUser, MovedMark, TwoUsers}
=============================================================================
