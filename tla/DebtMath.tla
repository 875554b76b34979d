------------------------------ MODULE DebtMath ------------------------------
(***************************************************************************)
(* Debts (internal/domain/debt.go, and the shape the form lets through,    *)
(* internal/api/handlers_debts.go): the schedule of an instalment plan and *)
(* of a card's minimal payments, what has been paid ahead of the schedule, *)
(* the cycle of a card and the state of a card on a day.                   *)
(*                                                                         *)
(* Money is in the minor unit of one currency.  Where the code multiplies  *)
(* by a monthly rate in floating point the model computes with fractions   *)
(* and rounds half away from zero, as math.Round does.                     *)
(***************************************************************************)
EXTENDS Money

Bodies(rows) == Total([i \in DOMAIN rows |-> rows[i].principal])
Fees(rows) == Total([i \in DOMAIN rows |-> rows[i].fee])

IsCard(d) == d.kind = "card"
Closed(d) == d.closed # NoDate

(* What checkDebtShape lets through.                                       *)
ShapeAccepted(d, today) ==
  /\ d.closed <= today
  /\ IF IsCard(d)
       THEN /\ d.card = None
            /\ d.day \in 1..31
            /\ d.apr > 0
            /\ d.exitBy = NoDate \/ d.exitBy > today
       ELSE /\ d.exitBy = NoDate
            /\ d.n > 0 /\ d.principal > 0
            /\ d.first # NoDate
            /\ d.free <= d.n

(* The nearest day of the statement on or after from, and the one before.  *)
StatementCycle(day, from) ==
  LET here == DateOnDay(Year(from), Month(from), day)
      due == IF here < from THEN addMonthsOnDay(from, 1, day) ELSE here
  IN [due |-> due, closed |-> addMonthsOnDay(due, -1, day)]

----------------------------------------------------------------------------
(* Schedules: sequences of [date, principal, fee, amount].                 *)

DebtPrepayBasis(d) ==
  IF IsCard(d) THEN "card"
  ELSE IF d.feeBp <= 0 THEN "free"
  ELSE IF d.onPrepay \in {"cancel", "keep"} THEN d.onPrepay ELSE "unknown"

DebtPrepayCancels(d) == ~Closed(d) /\ DebtPrepayBasis(d) \in {"card", "cancel"}

(* [mutant] money paid ahead takes the nearest payments *)
consumePrepaidFromTheFront(d, out) ==
  LET before(i) == Bodies(SubSeq(out, 1, i - 1))
      take(i) == Least(out[i].principal, Most(0, d.prepaid - before(i)))
  IN [i \in DOMAIN out |-> [out[i] EXCEPT !.principal = @ - take(i), !.amount = @ - take(i)]]

(* Money paid ahead takes the bodies from the end; a payment without a     *)
(* body goes only if its fee goes with it.                                 *)
consumePrepaid(d, out) ==
  LET after(i) == Bodies(SubSeq(out, i + 1, Len(out)))
      take(i) == Least(out[i].principal, Most(0, d.prepaid - after(i)))
      rows == [i \in DOMAIN out |->
                 [out[i] EXCEPT !.principal = @ - take(i), !.amount = @ - take(i)]]
      HasBody(p) == p.principal > 0
  IN IF d.prepaid <= 0 THEN out
     ELSE IF DebtPrepayBasis(d) \in {"cancel", "free"} THEN SelectSeq(rows, HasBody)
     ELSE rows

InstallmentSchedule(d) ==
  LET base == d.principal \div d.n
      fee == roundDiv(d.principal * d.feeBp, 10000)
      row(k) ==
        LET body == IF k = d.n THEN base + (d.principal % d.n) ELSE base
            f == IF k > d.free THEN fee ELSE 0
        IN [date |-> addMonthsOnDay(d.first, k - 1, DayOf(d.first)),
            principal |-> body, fee |-> f, amount |-> body + f]
  IN IF IsCard(d) \/ d.n <= 0 \/ d.principal <= 0 \/ ~Valid(d.first) THEN <<>>
     ELSE consumePrepaid(d, [k \in 1..d.n |-> row(k)])

(* Paid over the schedule by the day before today.                         *)
InstallmentPrepaid(d, ops, today) ==
  LET paid(op) == op.debt = d.id /\ op.kind = "payment" /\ op.date < today
      past(p) == p.date < today
  IN IF IsCard(d) THEN 0
     ELSE Most(0, Amounts(SelectSeq(ops, paid))
                  - Amounts(SelectSeq(InstallmentSchedule([d EXCEPT !.prepaid = 0]), past)))

(* The minimal payments of a card: the payment of a step, and all from the *)
(* step k on while something is left.                                      *)
MinPayment(d, left) == Most(roundDiv(left * d.minBp, 10000), d.floor)
RECURSIVE CardPayments(_, _, _, _, _)
CardPayments(d, left, due, k, to) ==
  LET date == addMonthsOnDay(due, k, d.day)
      interest == roundDiv(left * d.apr, 120000)
      pay == Least(MinPayment(d, left), left + interest)
  IN IF k >= 600 \/ left <= 0 \/ to < date THEN <<>>
     ELSE <<[date |-> date, amount |-> pay, principal |-> Most(0, pay - interest),
             fee |-> interest]>>
          \o CardPayments(d, left + interest - pay, due, k + 1, to)

DebtSchedule(d, balance, from, to) ==
  LET within(p) == p.date >= from /\ p.date <= to
  IN IF Closed(d) \/ to < from THEN <<>>
     ELSE IF ~IsCard(d) THEN SelectSeq(InstallmentSchedule(d), within)
     ELSE IF balance <= 0 \/ d.day < 1 THEN <<>>
     ELSE CardPayments(d, balance, StatementCycle(d.day, from).due, 0, to)

----------------------------------------------------------------------------
(* The state of a card: the last mark, and the movements of later days.    *)

Reported(card, marks, today) ==
  SelectSeq(marks, LAMBDA m : m.debt = card.id /\ m.date <= today)

Apply(st, op) ==
  CASE op.kind = "payment" ->
         [st EXCEPT !.balance = @ + op.amount,
                    !.due = IF @ > 0 THEN Most(@ - op.amount, 0) ELSE @]
    [] op.kind = "draw" -> [st EXCEPT !.balance = @ - op.amount]
    [] OTHER -> [st EXCEPT !.balance = @ - op.amount, !.nonGrace = @ + op.amount]

NoMark == [balance |-> 0, due |-> 0, nonGrace |-> 0, date |-> NoDate]
Since(card, mark, ops, today) ==
  FoldLeft(Apply, mark,
    SelectSeq(ops, LAMBDA op : op.debt = card.id /\ op.date <= today /\ op.date > mark.date))
PartsDue(card, installments, today, dueDate) ==
  LET ofCard(d) == d.card = card.id /\ ~Closed(d)
      dueOf(d) == Amounts(DebtSchedule(d, 0, today, dueDate))
  IN FoldLeft(LAMBDA sum, d : sum + dueOf(d), 0, SelectSeq(installments, ofCard))
CardFrom(card, st, dueDate, parts) ==
  LET own == Most(st.balance, 0)
  IN [balance |-> st.balance, due |-> st.due, nonGrace |-> st.nonGrace, dueDate |-> dueDate,
      debt |-> Most(-st.balance, 0),
      minDue |-> IF st.due > 0 THEN Least(MinPayment(card, st.due), st.due) ELSE 0,
      installmentDue |-> parts,
      bringByDue |-> Most(st.due - own, 0),
      free |-> own - st.due - parts]
CardWithin(card, mark, ops, installments, today, dueDate) ==
  CardFrom(card, Since(card, mark, ops, today), dueDate, PartsDue(card, installments, today, dueDate))
MarkedLast(known) ==
  IF known = <<>> THEN NoMark
  ELSE LET mark == Last(known)
       IN [balance |-> mark.balance, due |-> mark.due, nonGrace |-> mark.nonGrace, date |-> mark.date]
CardState(card, marks, ops, installments, today) ==
  CardWithin(card, MarkedLast(Reported(card, marks, today)), ops, installments, today,
             StatementCycle(card.day, today).due)

(* What was spent between the last two marks: paid less the growth of the  *)
(* balance, unless that is negative.                                       *)
CardBurnFrom(card, marks, ops, today) ==
  LET mine == Reported(card, marks, today)
      prev == mine[Len(mine) - 1]
      now == mine[Len(mine)]
      between(op) == op.debt = card.id /\ op.kind = "payment" /\ op.date > prev.date
                     /\ op.date <= now.date
      spent == Amounts(SelectSeq(ops, between)) - (now.balance - prev.balance)
  IN IF Len(mine) < 2 \/ DaysBetween(prev.date, now.date) <= 0 \/ spent < 0
       THEN [known |-> FALSE, spent |-> 0]
       ELSE [known |-> TRUE, spent |-> spent]

----------------------------------------------------------------------------
(* Properties. *)

Repaid(d) == Least(Most(d.prepaid, 0), d.principal)

(* Whatever the sum, the number of payments and the money paid ahead, the  *)
(* bodies of the payments add up to what is left of the debt, none is      *)
(* negative and none stands before the payment it follows; a plan that has *)
(* been paid ahead keeps its first payments and loses its last ones.       *)
ScheduleRepays(d) ==
  \A rows \in {InstallmentSchedule(d)}, whole \in {InstallmentSchedule([d EXCEPT !.prepaid = 0])} :
     /\ Bodies(rows) = d.principal - Repaid(d)
     /\ \A i \in DOMAIN rows : rows[i].principal >= 0 /\ rows[i].fee >= 0
     /\ \A i, j \in DOMAIN rows : i < j => rows[i].date < rows[j].date
     /\ \A i \in DOMAIN rows :
          /\ MonthsBetween(d.first, rows[i].date) = i - 1
          /\ DayOf(rows[i].date) \in {DayOf(d.first),
               lastDayOfMonth(Year(rows[i].date), Month(rows[i].date))}
     /\ \A i \in DOMAIN rows :
          i < Len(rows) /\ rows[i + 1].principal > 0 => rows[i] = whole[i]

(* Money paid ahead spares fees exactly when the contract says so: with    *)
(* "keep", or when nobody has asked, the fees are what they were.          *)
FeesFollowTheContract(d) ==
  \A rows \in {InstallmentSchedule(d)}, whole \in {InstallmentSchedule([d EXCEPT !.prepaid = 0])} :
     /\ DebtPrepayBasis(d) \in {"keep", "unknown"} => Fees(rows) = Fees(whole)
     /\ DebtPrepayBasis(d) = "cancel" =>
          \A i \in DOMAIN rows : rows[i].fee > 0 => rows[i].principal > 0

(* What DebtPrepayCancels promises by its comment: something becomes less  *)
(* when the last payment is made today.  A plan all of whose months are    *)
(* free of the fee has nothing to cancel and is not told apart.            *)
CancelsOnlyWhatIsCharged(d) ==
  ~IsCard(d) /\ DebtPrepayCancels(d) =>
    LET whole == InstallmentSchedule([d EXCEPT !.prepaid = 0])
    IN Fees(InstallmentSchedule([d EXCEPT !.prepaid = Last(whole).principal])) < Fees(whole)

(* On a plan without a fee, what is recorded as paid and what is still to  *)
(* come make up the whole, as long as no payment of the past is missing.   *)
NothingIsPaidTwice(d, ops, today) ==
  LET plain == [d EXCEPT !.prepaid = 0]
      whole == InstallmentSchedule(plain)
      ahead == InstallmentPrepaid(plain, ops, today)
      past(p) == p.date < today
      rest == DebtSchedule([d EXCEPT !.prepaid = ahead], 0, today, 99991231)
      paid == Amounts(SelectSeq(ops, LAMBDA op : op.date < today))
  IN DebtPrepayBasis(d) = "free" /\ paid >= Amounts(SelectSeq(whole, past)) =>
       Amounts(rest) = Most(0, Amounts(whole) - paid)

(* The cycles of a card leave no day out and share none, also over the     *)
(* ends of short months.                                                   *)
CyclesMeet(day, from) ==
  \A c \in {StatementCycle(day, from)} :
     /\ c.closed < from /\ from <= c.due
     /\ StatementCycle(day, AddDays(c.due, 1)).closed = c.due
     /\ StatementCycle(day, AddDays(c.closed, 1)).due = c.due

(* On any day the minimal payments account for the whole of the debt: what *)
(* was owed and its interest are what is paid and what is left, and no     *)
(* payment is more than what is owed.                                      *)
MinimalPaymentsAddUp(d, balance, from, to) ==
  \A rows \in {DebtSchedule(d, balance, from, to)} :
   \A left \in {balance + Fees(rows) - Amounts(rows)} :
     /\ left >= 0
     /\ rows # <<>> /\ left > 0 => addMonthsOnDay(Last(rows).date, 1, d.day) > to
     /\ \A i \in DOMAIN rows : StatementCycle(d.day, rows[i].date).due = rows[i].date

(* Every debt the form lets through can be reckoned with: an instalment    *)
(* plan has as many payments as it says, a card a cycle on every day.      *)
AcceptedCanBeReckoned(d, today) ==
  ShapeAccepted(d, today) =>
    IF IsCard(d) THEN CyclesMeet(d.day, today)
                 ELSE Len(InstallmentSchedule([d EXCEPT !.prepaid = 0])) = d.n

(* A mark entered with the figures the program shows changes none of them. *)
ReconcilingChangesNothing(card, marks, ops, today) ==
  \A st \in {CardState(card, marks, ops, <<>>, today)} :
    LET m == [debt |-> card.id, date |-> today, balance |-> st.balance, due |-> st.due,
              nonGrace |-> st.nonGrace]
        others == SelectSeq(marks, LAMBDA x : x.date # today)
    IN CardState(card, Append(others, m), ops, <<>>, today) = st

(* The comment at Free: money of one's own and an open statement do not    *)
(* exist together -- when they did not on the last mark, no movement makes *)
(* them; hence what is to be brought is what the statement asks for.       *)
StatementExcludesOwnMoney(card, marks, ops, today) ==
  \A st \in {CardState(card, marks, ops, <<>>, today)} :
     (\A i \in DOMAIN marks : marks[i].due <= Most(0, -marks[i].balance)) =>
       /\ st.due <= st.debt
       /\ st.bringByDue = st.due
       /\ st.minDue <= st.due

(* Spending is measured the same whether or not a mark was made between.   *)
BurnAddsUp(card, marks, ops, today) ==
  \A two \in {[p \in {<<1, 2>>, <<2, 3>>, <<1, 3>>} |->
                 CardBurnFrom(card, <<marks[p[1]], marks[p[2]]>>, ops, today)]} :
    Len(marks) = 3 /\ two[<<1, 2>>].known /\ two[<<2, 3>>].known =>
      /\ two[<<1, 3>>].known
      /\ two[<<1, 3>>].spent = two[<<1, 2>>].spent + two[<<2, 3>>].spent
=============================================================================
