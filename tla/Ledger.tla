------------------------------- MODULE Ledger -------------------------------
(***************************************************************************)
(* What the handlers of the tables a person fills accept: the validation   *)
(* of a request, the look at the rows it must agree with, and the write    *)
(* that follows (internal/api: handlers_lots.go, handlers_sales.go,        *)
(* handlers_reserve.go, handlers_debts.go, handlers_plan.go,               *)
(* handlers_plan_receipts.go, handlers_deposits.go, handlers_npf.go; their *)
(* stores in internal/store).                                              *)
(*                                                                         *)
(* Between the look and the write another request may run whole: neither   *)
(* shares a transaction with the other.  What SQLite itself refuses in one *)
(* statement (a foreign key, a unique index) is part of the write.  A row  *)
(* keeps what rules of several rows are about: quantities, currencies,     *)
(* kinds, months and the row it belongs to.  One portfolio, because every  *)
(* statement of these handlers is confined to its own (Books has more).    *)
(***************************************************************************)
EXTENDS Integers, Sequences, FiniteSets, SequencesExt, TLC

CONSTANTS
  Clients,      \* HTTP requests that can be under way at once
  Currencies,   \* of money; the hryvnia is taken when none is given
  Nominal,      \* the directory of papers: currency of the nominal, by paper
  Unlisted,     \* papers the directory does not hold
  Quantities,   \* quantities a request may name, refused ones included
  Movements,      \* amounts of the reserve's movements, in minor units
  Days,         \* dates of movements, as YYYYMMDD
  LoanRates,    \* rates of loans from the reserve, in hundredths of a percent
  Months, Now,  \* months, as YYYYMM, and the current one
  Bounds        \* by topic: how many rows are written, at most

VARIABLES
  topic,       \* the part of the books a behaviour looks at
  book,        \* the rows of each table
  given,       \* sqlite_sequence: the largest id ever given, by table
  writes,      \* the rows written so far, counted for the bound
  pending,     \* by client: what was checked and is about to be written
  overlapped   \* a request has begun while another was under way

vars == <<topic, book, given, writes, pending, overlapped>>

Tables ==
  [papers  |-> {"lots", "sales"},
   cushion |-> {"reserve_ops", "reserve_loans"},
   debts   |-> {"debts", "debt_ops", "debt_marks"},
   plan    |-> {"plan_flows", "plan_receipts"},
   savings |-> {"term_deposits", "deposit_topups"},
   pension |-> {"npf_accounts", "npf_ops", "npf_nav"}]

AllTables == UNION {Tables[t] : t \in DOMAIN Tables}
Nothing == [do |-> "nothing"]

Has(t, id) == \E r \in book[t] : r.id = id
Row(t, id) == CHOOSE r \in book[t] : r.id = id
Ids(t) == {r.id : r \in book[t]}
IdsOrNone(t) == Ids(t) \cup {0}

Papers == INSTANCE Holdings
With(r, f, v) == [g \in DOMAIN r \cup {f} |-> IF g = f THEN v ELSE r[g]]
LOCAL Each(f(_), s) == [i \in DOMAIN s |-> f(s[i])]
Total(S) == FoldSet(LAMBDA r, sum : sum + r.qty, 0, S)

----------------------------------------------------------------------------
(* Papers. *)

(* The currency of a lot is the one given, or that of the paper's nominal. *)
LotFromReq(req) ==
  {[qty |-> req.qty, currency |-> cur] : cur \in
     {c \in Currencies : /\ req.qty > 0
                         /\ \/ c = req.currency
                            \/ /\ req.currency = ""
                               /\ req.isin \in DOMAIN Nominal
                               /\ c = Nominal[req.isin]}}

LotRequests ==
  [isin : DOMAIN Nominal \cup Unlisted, qty : Quantities, currency : Currencies \cup {""}]
SaleRequests == [lot : Ids("lots"), qty : Quantities, currency : Currencies]

SoldFrom(lot, except) ==
  Total({s \in book["sales"] : s.lot = lot /\ s.id # except})

(* [mutant] what was sold of the lot before is not counted *)
SaleFitsAlone(sale, exclude) ==
  /\ sale.qty > 0 /\ Has("lots", sale.lot)
  /\ sale.currency = Row("lots", sale.lot).currency
  /\ sale.qty <= Row("lots", sale.lot).qty
saleFits(sale, exclude) ==
  /\ sale.qty > 0 /\ Has("lots", sale.lot)
  /\ sale.currency = Row("lots", sale.lot).currency
  /\ SoldFrom(sale.lot, exclude) + sale.qty <= Row("lots", sale.lot).qty

(* A lot may not become smaller than what was sold of it.  Its currency is *)
(* not compared with that of its sales.                                    *)
LotStillCovers(lot, id) == SoldFrom(id, 0) <= lot.qty

----------------------------------------------------------------------------
(* The cushion. *)

ReserveRequests ==
  [date : Days, amount : Movements, currency : Currencies, loan : IdsOrNone("reserve_loans")]

(* Only money that comes can repay a loan. *)
ReserveFromReq(req) ==
  IF req.amount = 0 THEN {}
  ELSE {[req EXCEPT !.loan = IF req.amount > 0 THEN @ ELSE 0]}

IsWithdrawal(id) == Has("reserve_ops", id) /\ Row("reserve_ops", id).amount < 0

ListReserveOps == SetToSortSeq(book["reserve_ops"],
  LAMBDA a, b : a.date < b.date \/ (a.date = b.date /\ a.id < b.id))

(* The loans with the body taken from their movement, whatever its sign. *)
ListReserveLoans ==
  LET Taken(l) == LET o == Row("reserve_ops", l.op)
                  IN [id |-> l.id, op |-> o.id, rate |-> l.rate, date |-> o.date,
                      amount |-> Papers!Most(o.amount, -o.amount), currency |-> o.currency]
  IN SetToSortSeq({Taken(l) : l \in book["reserve_loans"]},
       LAMBDA a, b : a.date < b.date \/ (a.date = b.date /\ a.id < b.id))

Repay(op) == [date |-> op.date, amount |-> op.amount, op |-> op.id]
OwedOn(l, repays, day) == Papers!ReserveLoanBalance(l.amount, l.rate, l.date, repays, day)

(* A movement that names its loan repays that loan, if the currency is the *)
(* same; the rest goes to the oldest loan of its currency that still owes. *)
Named(l, ops) ==
  SelectSeq(ops, LAMBDA o : o.amount > 0 /\ o.loan = l.id /\ o.currency = l.currency)
Unnamed(loans, cur, ops) ==
  SelectSeq(ops, LAMBDA o : /\ o.amount > 0 /\ o.currency = cur
                            /\ \A i \in DOMAIN loans :
                                 ~(o.loan = loans[i].id /\ loans[i].currency = cur))

(* One loan takes from the queue of its currency: st.queue is what is      *)
(* left, st.mine what it took.  Money older than the loan is dropped, and  *)
(* what comes after the money that paid the loan off stays (st.paid).      *)
TakeFrom(l, st) ==
  LET take(s, op) ==
        LET owed == OwedOn(l, s.mine, op.date)
            part == Papers!Least(op.amount, owed)
            left == IF op.amount > part THEN <<[op EXCEPT !.amount = @ - part]>> ELSE <<>>
        IN IF s.paid THEN [s EXCEPT !.queue = Append(@, op)]
           ELSE IF op.date < l.date THEN s
           ELSE IF owed <= 0 THEN [s EXCEPT !.queue = Append(@, op), !.paid = TRUE]
           ELSE [mine |-> Append(s.mine, [op EXCEPT !.amount = part]),
                 queue |-> left, paid |-> left # <<>>]
  IN FoldLeft(take, [mine |-> st.mine, queue |-> <<>>, paid |-> FALSE], st.queue)

(* [mutant] the rest of a movement larger than the debt stays as it was *)
ReserveRepaysTwice(loans, ops) ==
  LET give(st, l) ==
        LET q == st.free[l.currency]
            r == TakeFrom(l, [mine |-> Each(Repay, Named(l, ops)), queue |-> q])
        IN [free |-> [st.free EXCEPT ![l.currency] =
                        SubSeq(q, Len(q) - Len(r.queue) + 1, Len(q))],
            byLoan |-> Append(st.byLoan, r.mine)]
  IN FoldLeft(give, [free |-> [c \in Currencies |-> Each(Repay, Unnamed(loans, c, ops))],
                     byLoan |-> <<>>], loans)
ReserveRepays(loans, ops) ==
  LET give(st, l) ==
        LET r == TakeFrom(l, [mine |-> Each(Repay, Named(l, ops)), queue |-> st.free[l.currency]])
        IN [free |-> [st.free EXCEPT ![l.currency] = r.queue],
            byLoan |-> Append(st.byLoan, r.mine)]
  IN FoldLeft(give, [free |-> [c \in Currencies |-> Each(Repay, Unnamed(loans, c, ops))],
                     byLoan |-> <<>>], loans)

----------------------------------------------------------------------------
(* Debts.  The rest of checkDebtShape is in DebtMath. *)

DebtRequests ==
  [kind : {"card", "installment"}, currency : Currencies, card : IdsOrNone("debts")]
DebtFromReq(req) == IF req.kind = "card" /\ req.card # 0 THEN {} ELSE {req}

IsCard(id) == Row("debts", id).kind = "card"

(* [mutant] any debt can hold an instalment *)
ParentExists(debt) == debt.card = 0 \/ Has("debts", debt.card)
checkDebtParent(debt) ==
  \/ debt.card = 0
  \/ /\ Has("debts", debt.card) /\ IsCard(debt.card)
     /\ Row("debts", debt.card).currency = debt.currency

(* A movement and a reconciliation have no currency of their own: the      *)
(* text of the amount is read in the currency the debt has at the time.    *)
DebtOpRequests == [debt : Ids("debts")]
DebtMarkRequests == [debt : Ids("debts"), date : Days]
debtCurrency(id) == Row("debts", id).currency
InCurrencyOfDebt(req) == {With(req, "read", debtCurrency(req.debt))}

----------------------------------------------------------------------------
(* The plan. *)

PlanFlowRequests == [kind : {"income", "expense"}, currency : Currencies]
ReceiptRequests ==
  [flow : IdsOrNone("plan_flows"), month : Months, currency : Currencies \cup {""}]

OrHryvnia(cur) == IF cur = "" THEN "UAH" ELSE cur

(* [mutant] spending can be marked as received *)
ReceiptOfAnyFlow(req) ==
  IF req.flow = 0
    THEN {[req EXCEPT !.currency = OrHryvnia(@)] : m \in {req.month} \cap 0..Now}
    ELSE {[req EXCEPT !.currency = f.currency] : f \in
            {g \in book["plan_flows"] : /\ g.id = req.flow
                                        /\ req.currency \in {"", g.currency}}}

(* A planned source is marked in its own currency, only income, and for    *)
(* any month; income outside the plan only for a month that has come.      *)
PlanReceiptFromReq(req) ==
  IF req.flow = 0
    THEN {[req EXCEPT !.currency = OrHryvnia(@)] : m \in {req.month} \cap 0..Now}
    ELSE {[req EXCEPT !.currency = f.currency] : f \in
            {g \in book["plan_flows"] : /\ g.id = req.flow /\ g.kind = "income"
                                        /\ req.currency \in {"", g.currency}}}

----------------------------------------------------------------------------
(* Deposits and pension accounts. *)

TermDepositRequests == [currency : Currencies]

(* The currency of a top-up is that of the deposit in the request's path. *)
topupFromReq(id) ==
  {[deposit |-> d.id, read |-> d.currency] : d \in {e \in book["term_deposits"] : e.id = id}}

(* A note that is not in the body is the one the account has: it is read   *)
(* for the write that follows.                                             *)
NPFAccountRequests == [currency : Currencies, note : {"", "text"}]
(* [mutant] without a note in the body the note is cleared *)
NoteCleared(id) == ""
NoteKept(id) == Row("npf_accounts", id).note

NPFOpFromReq(id) ==
  {[account |-> a.id, read |-> a.currency] : a \in {b \in book["npf_accounts"] : b.id = id}}
NavFree(point, date) ==
  ~\E o \in book["npf_nav"] : o.id # point.id /\ o.account = point.account /\ o.date = date

----------------------------------------------------------------------------
(* What one statement refuses by itself. *)

KeysHold(t, r) ==
  CASE t = "sales" -> Has("lots", r.lot)
    [] t = "reserve_ops" -> r.loan = 0 \/ Has("reserve_loans", r.loan)
    [] t = "reserve_loans" -> Has("reserve_ops", r.op)
    [] t = "debts" -> r.card = 0 \/ Has("debts", r.card)
    [] t \in {"debt_ops", "debt_marks"} -> Has("debts", r.debt)
    [] t = "deposit_topups" -> Has("term_deposits", r.deposit)
    [] t \in {"npf_ops", "npf_nav"} -> Has("npf_accounts", r.account)
    [] OTHER -> TRUE

(* A loan per movement, a reconciliation per day, a mark per month of a    *)
(* planned source.                                                         *)
Clashes(t, r, o) ==
  CASE t = "reserve_loans" -> o.op = r.op
    [] t = "debt_marks" -> o.debt = r.debt /\ o.date = r.date
    [] t = "npf_nav" -> o.account = r.account /\ o.date = r.date
    [] t = "plan_receipts" -> r.flow # 0 /\ o.flow = r.flow /\ o.month = r.month
    [] OTHER -> FALSE
Unique(t, r, id) == ~\E o \in book[t] : o.id # id /\ Clashes(t, r, o)

WithId(r, id) == With(r, "id", id)

----------------------------------------------------------------------------
(* Steps. *)

(* Running while another request is between its look and its write.        *)
Among(others) == overlapped' = (overlapped \/ \E d \in others : pending[d] # Nothing)

WriteAllowed == writes < Bounds[topic] /\ writes' = writes + 1

(* The request has been checked; its row is written by a later step. *)
Checked(c, do, t, r) ==
  /\ t \in Tables[topic] /\ pending[c] = Nothing
  /\ WriteAllowed /\ Among(Clients \ {c})
  /\ pending' = [pending EXCEPT ![c] = [do |-> do, table |-> t, row |-> r]]
  /\ UNCHANGED <<topic, book, given>>

Replace(t, r) == [book EXCEPT ![t] = {IF o.id = r.id THEN r ELSE o : o \in @}]

Insert(t, r) ==
  /\ KeysHold(t, r) /\ Unique(t, r, 0)
  /\ book' = [book EXCEPT ![t] = @ \cup {WithId(r, given[t] + 1)}]
  /\ given' = [given EXCEPT ![t] = @ + 1]

Update(t, r) ==
  /\ Has(t, r.id) /\ KeysHold(t, r) /\ Unique(t, r, r.id)
  /\ book' = Replace(t, r)
  /\ UNCHANGED given

(* INSERT ... ON CONFLICT (debt_id, date) DO UPDATE. *)
Upsert(t, r) ==
  \/ Insert(t, r)
  \/ \E o \in book[t] : /\ Clashes(t, r, o)
                        /\ book' = Replace(t, WithId(r, o.id))
                        /\ UNCHANGED given

Statement(p) ==
  CASE p.do = "insert" -> Insert(p.table, p.row)
    [] p.do = "upsert" -> Upsert(p.table, p.row)
    [] OTHER -> Update(p.table, p.row)

Write(c) ==
  /\ pending[c] # Nothing
  /\ Statement(pending[c])
  /\ pending' = [pending EXCEPT ![c] = Nothing]
  /\ UNCHANGED <<topic, writes, overlapped>>

(* The statement is refused, or the request is cut off before it. *)
GiveUp(c) ==
  /\ pending[c] # Nothing
  /\ pending' = [pending EXCEPT ![c] = Nothing]
  /\ UNCHANGED <<topic, book, given, writes, overlapped>>

(* Requests of one statement. *)
AtOnce(t, statement) ==
  /\ t \in Tables[topic] /\ WriteAllowed /\ statement
  /\ Among(Clients) /\ UNCHANGED <<topic, pending>>

Erase(t) ==
  /\ t \in Tables[topic]
  /\ Among(Clients) /\ UNCHANGED <<topic, given, writes, pending>>

----------------------------------------------------------------------------
(* Handlers. *)

AddLot == \E q \in LotRequests : \E l \in LotFromReq(q) : AtOnce("lots", Insert("lots", l))
handleUpdateLot(c) ==
  \E id \in Ids("lots"), q \in LotRequests : \E l \in LotFromReq(q) :
    LotStillCovers(l, id) /\ Checked(c, "update", "lots", WithId(l, id))
DeleteLot ==
  \E l \in book["lots"] :
    /\ \A s \in book["sales"] : s.lot # l.id
    /\ Erase("lots") /\ book' = [book EXCEPT !["lots"] = @ \ {l}]

AddSale(c) ==
  \E s \in SaleRequests : saleFits(s, 0) /\ Checked(c, "insert", "sales", s)
UpdateSale(c) ==
  \E id \in Ids("sales"), s \in SaleRequests :
    saleFits(s, id) /\ Checked(c, "update", "sales", WithId(s, id))
DeleteSale ==
  \E s \in book["sales"] : Erase("sales") /\ book' = [book EXCEPT !["sales"] = @ \ {s}]

(* A withdrawal may be taken as a loan at once: the loan is a second write. *)
handleAddReserveOp(c) ==
  \E q \in ReserveRequests : \E o \in ReserveFromReq(q), asLoan \in BOOLEAN :
    /\ "reserve_ops" \in Tables[topic] /\ pending[c] = Nothing
    /\ WriteAllowed /\ Insert("reserve_ops", o) /\ Among(Clients \ {c})
    /\ \E rate \in LoanRates :
         pending' = IF asLoan /\ o.amount < 0
                      THEN [pending EXCEPT ![c] = [do |-> "insert", table |-> "reserve_loans",
                              row |-> [op |-> given["reserve_ops"] + 1, rate |-> rate]]]
                      ELSE pending
    /\ UNCHANGED topic
UpdateReserveOp ==
  \E id \in Ids("reserve_ops"), q \in ReserveRequests : \E o \in ReserveFromReq(q) :
    AtOnce("reserve_ops", Update("reserve_ops", WithId(o, id)))

(* Movements that named a loan which goes away name none. *)
Unlink(ops, gone) == {IF o.loan \in gone THEN [o EXCEPT !.loan = 0] ELSE o : o \in ops}
DeleteReserveOp ==
  \E o \in book["reserve_ops"] :
    LET loans == {l \in book["reserve_loans"] : l.op = o.id} IN
    /\ Erase("reserve_ops")
    /\ book' = [book EXCEPT !["reserve_ops"] = Unlink(@ \ {o}, {l.id : l \in loans}),
                            !["reserve_loans"] = @ \ loans]

handleAddReserveLoan(c) ==
  \E id \in Ids("reserve_ops"), rate \in LoanRates :
    IsWithdrawal(id) /\ Checked(c, "insert", "reserve_loans", [op |-> id, rate |-> rate])
UpdateReserveLoan ==
  \E l \in book["reserve_loans"], rate \in LoanRates :
    AtOnce("reserve_loans", Update("reserve_loans", [l EXCEPT !.rate = rate]))
DeleteReserveLoan ==
  \E l \in book["reserve_loans"] :
    /\ Erase("reserve_loans")
    /\ book' = [book EXCEPT !["reserve_ops"] = Unlink(@, {l.id}),
                            !["reserve_loans"] = @ \ {l}]

handleAddDebt(c) ==
  \E q \in DebtRequests : \E d \in DebtFromReq(q) :
    checkDebtParent(d) /\ Checked(c, "insert", "debts", d)
handleUpdateDebt(c) ==
  \E id \in Ids("debts"), q \in DebtRequests : \E d \in DebtFromReq(q) :
    d.card # id /\ checkDebtParent(d) /\ Checked(c, "update", "debts", WithId(d, id))
DeleteDebt ==
  \E d \in book["debts"] :
    /\ \A o \in book["debts"] : o.card # d.id
    /\ \A o \in book["debt_ops"] \cup book["debt_marks"] : o.debt # d.id
    /\ Erase("debts") /\ book' = [book EXCEPT !["debts"] = @ \ {d}]

handleAddDebtOp(c) ==
  \E q \in DebtOpRequests : \E o \in InCurrencyOfDebt(q) : Checked(c, "insert", "debt_ops", o)
handleUpdateDebtOp(c) ==
  \E id \in Ids("debt_ops"), q \in DebtOpRequests : \E o \in InCurrencyOfDebt(q) :
    Checked(c, "update", "debt_ops", WithId(o, id))
handleAddDebtMark(c) ==
  \E q \in DebtMarkRequests : \E m \in InCurrencyOfDebt(q) : Checked(c, "upsert", "debt_marks", m)
(* A mark stays with its debt, and is read in the currency of the debt the *)
(* request names.                                                          *)
handleUpdateDebtMark(c) ==
  \E old \in book["debt_marks"], q \in DebtMarkRequests : \E m \in InCurrencyOfDebt(q) :
    Checked(c, "update", "debt_marks", WithId([m EXCEPT !.debt = old.debt], old.id))
DeleteDebtOp ==
  \E o \in book["debt_ops"] : Erase("debt_ops") /\ book' = [book EXCEPT !["debt_ops"] = @ \ {o}]
DeleteDebtMark ==
  \E m \in book["debt_marks"] :
    Erase("debt_marks") /\ book' = [book EXCEPT !["debt_marks"] = @ \ {m}]

AddPlanFlow ==
  \E f \in PlanFlowRequests : AtOnce("plan_flows", Insert("plan_flows", f))
UpdatePlanFlow ==
  \E id \in Ids("plan_flows"), f \in PlanFlowRequests :
    AtOnce("plan_flows", Update("plan_flows", WithId(f, id)))
(* The marks of a flow stay when it goes. *)
DeletePlanFlow ==
  \E f \in book["plan_flows"] :
    Erase("plan_flows") /\ book' = [book EXCEPT !["plan_flows"] = @ \ {f}]
handleAddPlanReceipt(c) ==
  \E q \in ReceiptRequests : \E r \in PlanReceiptFromReq(q) : Checked(c, "insert", "plan_receipts", r)
handleUpdatePlanReceipt(c) ==
  \E id \in Ids("plan_receipts"), q \in ReceiptRequests : \E r \in PlanReceiptFromReq(q) :
    Checked(c, "update", "plan_receipts", WithId(r, id))
DeletePlanReceipt ==
  \E r \in book["plan_receipts"] :
    Erase("plan_receipts") /\ book' = [book EXCEPT !["plan_receipts"] = @ \ {r}]

AddTermDeposit ==
  \E d \in TermDepositRequests : AtOnce("term_deposits", Insert("term_deposits", d))
UpdateTermDeposit ==
  \E id \in Ids("term_deposits"), d \in TermDepositRequests :
    AtOnce("term_deposits", Update("term_deposits", WithId(d, id)))
DeleteTermDeposit ==
  \E d \in book["term_deposits"] :
    /\ Erase("term_deposits")
    /\ book' = [book EXCEPT !["term_deposits"] = @ \ {d},
                            !["deposit_topups"] = {t \in @ : t.deposit # d.id}]
handleAddDepositTopup(c) ==
  \E id \in Ids("term_deposits") : \E t \in topupFromReq(id) :
    Checked(c, "insert", "deposit_topups", t)
(* A top-up stays with its deposit, whatever deposit the path names. *)
handleUpdateDepositTopup(c) ==
  \E old \in book["deposit_topups"], id \in Ids("term_deposits") : \E t \in topupFromReq(id) :
    Checked(c, "update", "deposit_topups", [old EXCEPT !.read = t.read])
DeleteDepositTopup ==
  \E t \in book["deposit_topups"] :
    Erase("deposit_topups") /\ book' = [book EXCEPT !["deposit_topups"] = @ \ {t}]

AddNPFAccount ==
  \E a \in NPFAccountRequests : AtOnce("npf_accounts", Insert("npf_accounts", a))
handleUpdateNPFAccount(c) ==
  \E id \in Ids("npf_accounts"), a \in NPFAccountRequests :
    \/ Checked(c, "update", "npf_accounts", WithId(a, id))
    \/ Checked(c, "update but for the note", "npf_accounts",
               WithId([a EXCEPT !.note = NoteKept(id)], id))
(* Books takes the statements of this deletion apart. *)
DeleteNPFAccount ==
  \E a \in book["npf_accounts"] :
    /\ Erase("npf_accounts")
    /\ book' = [book EXCEPT !["npf_accounts"] = @ \ {a},
                            !["npf_ops"] = {o \in @ : o.account # a.id},
                            !["npf_nav"] = {o \in @ : o.account # a.id}]
handleAddNPFOp(c) ==
  \E id \in Ids("npf_accounts") : \E o \in NPFOpFromReq(id) : Checked(c, "insert", "npf_ops", o)
handleUpdateNPFOp(c) ==
  \E old \in Ids("npf_ops"), id \in Ids("npf_accounts") : \E o \in NPFOpFromReq(id) :
    Checked(c, "update", "npf_ops", WithId(o, old))
DeleteNPFOp ==
  \E o \in book["npf_ops"] : Erase("npf_ops") /\ book' = [book EXCEPT !["npf_ops"] = @ \ {o}]
AddNPFNavPoints ==
  \E id \in Ids("npf_accounts"), d \in Days :
    AtOnce("npf_nav", Upsert("npf_nav", [account |-> id, date |-> d]))
UpdateNPFNavPoint(c) ==
  \E o \in book["npf_nav"], d \in Days :
    NavFree(o, d) /\ Checked(c, "update", "npf_nav", [o EXCEPT !.date = d])
DeleteNPFNavPoint ==
  \E o \in book["npf_nav"] : Erase("npf_nav") /\ book' = [book EXCEPT !["npf_nav"] = @ \ {o}]

Init ==
  /\ topic \in DOMAIN Tables
  /\ book = [t \in AllTables |-> {}]
  /\ given = [t \in AllTables |-> 0]
  /\ writes = 0
  /\ pending = [c \in Clients |-> Nothing]
  /\ overlapped = FALSE

Request(c) ==
  \/ handleUpdateLot(c) \/ AddSale(c) \/ UpdateSale(c)
  \/ handleAddReserveOp(c) \/ handleAddReserveLoan(c)
  \/ handleAddDebt(c) \/ handleUpdateDebt(c) \/ handleAddDebtOp(c) \/ handleUpdateDebtOp(c)
  \/ handleAddDebtMark(c) \/ handleUpdateDebtMark(c)
  \/ handleAddPlanReceipt(c) \/ handleUpdatePlanReceipt(c)
  \/ handleAddDepositTopup(c) \/ handleUpdateDepositTopup(c)
  \/ handleUpdateNPFAccount(c) \/ handleAddNPFOp(c) \/ handleUpdateNPFOp(c)
  \/ UpdateNPFNavPoint(c)
  \/ Write(c) \/ GiveUp(c)

Next ==
  \/ \E c \in Clients : Request(c)
  \/ AddLot \/ DeleteLot \/ DeleteSale
  \/ UpdateReserveOp \/ DeleteReserveOp \/ UpdateReserveLoan \/ DeleteReserveLoan
  \/ DeleteDebt \/ DeleteDebtOp \/ DeleteDebtMark
  \/ AddPlanFlow \/ UpdatePlanFlow \/ DeletePlanFlow \/ DeletePlanReceipt
  \/ AddTermDeposit \/ UpdateTermDeposit \/ DeleteTermDeposit \/ DeleteDepositTopup
  \/ AddNPFAccount \/ DeleteNPFAccount \/ DeleteNPFOp \/ AddNPFNavPoints \/ DeleteNPFNavPoint

Spec == Init /\ [][Next]_vars

----------------------------------------------------------------------------
(* Properties. *)

Agrees(t, r) ==
  CASE t = "sales" -> Has("lots", r.lot) /\ r.currency = Row("lots", r.lot).currency
    [] t = "reserve_loans" -> IsWithdrawal(r.op)
    [] t = "debts" -> checkDebtParent(r)
    [] t \in {"debt_ops", "debt_marks"} -> Has("debts", r.debt) /\ r.read = debtCurrency(r.debt)
    [] t = "deposit_topups" -> Has("term_deposits", r.deposit)
                               /\ r.read = Row("term_deposits", r.deposit).currency
    [] t = "npf_ops" -> Has("npf_accounts", r.account)
                        /\ r.read = Row("npf_accounts", r.account).currency
    [] t = "plan_receipts" -> \A f \in book["plan_flows"] : f.id = r.flow =>
                                 f.kind = "income" /\ r.currency = f.currency
    [] OTHER -> TRUE

(* Rows that could not be added as they stand beside the others. *)
Misfits == {m \in UNION {{t} \X book[t] : t \in Tables[topic]} : ~Agrees(m[1], m[2])}
MisfitIds == {<<m[1], m[2].id>> : m \in Misfits}

EditsARowOthersReferTo ==
  \E t \in {"lots", "reserve_ops", "debts", "plan_flows", "term_deposits", "npf_accounts"} :
    \E o \in book[t] : \E n \in book'[t] : o.id = n.id /\ o # n

NamesAnotherParent(p) ==
  \/ p.do = "update" /\ p.table = "debt_marks" /\ p.row.read # debtCurrency(p.row.debt)
  \/ /\ p.do = "update" /\ p.table = "deposit_topups"
     /\ p.row.read # Row("term_deposits", p.row.deposit).currency

Carries(c, do) == pending[c].do = do /\ pending'[c] = Nothing

(* Unless two requests overlapped, a row that disagrees with the row it    *)
(* belongs to (a sale in another currency than its lot, a loan on money    *)
(* that came, an instalment on something that is not a card of its         *)
(* currency, a mark on spending, a top-up in another currency than its     *)
(* deposit) appears only by an edit of the latter, which the handlers do   *)
(* not compare with what belongs to it; and a mark of a debt or a top-up   *)
(* only by an edit sent with the id of another debt or deposit.            *)
MisfitsComeFromEdits ==
  [][\/ overlapped' \/ EditsARowOthersReferTo
     \/ \E c \in Clients : Carries(c, "update") /\ NamesAnotherParent(pending[c])
     \/ MisfitIds' \subseteq MisfitIds]_vars

(* An edit of a pension account that carries no note writes the one it has *)
(* read, so that the note changes only if another request overlapped.      *)
NotesStay ==
  [][\A c \in Clients : Carries(c, "update but for the note") /\ ~overlapped =>
       \A a \in book["npf_accounts"] : \A b \in book'["npf_accounts"] :
         a.id = b.id => a.note = b.note]_vars

(* What requests one after another can and cannot do to the books: see its *)
(* two parts.                                                              *)
OnlyEditsAndRacesDisagree == MisfitsComeFromEdits /\ NotesStay

(* Whatever is added, edited or deleted one request after another, a lot   *)
(* is never sold beyond its quantity, and no debt lies, through others, in *)
(* itself: the checks of the handlers for lots, for sales and for debts    *)
(* fit together (store.go saleFits, handlers_lots.go, handlers_debts.go).  *)
OnlyRacesOversell ==
  ~overlapped =>
    /\ \A l \in book["lots"] : SoldFrom(l.id, 0) <= l.qty
    /\ \A d \in book["debts"] :
         LET above[i \in 0..Cardinality(book["debts"])] ==
               IF i = 0 THEN d.card
               ELSE IF above[i-1] = 0 THEN 0 ELSE Row("debts", above[i-1]).card
         IN \A i \in DOMAIN above : above[i] # d.id

(* The money that came back to the reserve, as the state document divides  *)
(* it among the loans (ReserveRepays): no movement repays more than itself,*)
(* a loan that still owes has left no later money of its currency unused   *)
(* unless that money names another loan, and money no loan was named for   *)
(* never goes to a loan younger than itself.                               *)
CushionAddsUp ==
  topic = "cushion" =>
    LET ops == ListReserveOps
        loans == ListReserveLoans
        got == ReserveRepays(loans, ops).byLoan
        parts == UNION {{<<i, j>> : j \in DOMAIN got[i]} : i \in DOMAIN got}
        Given(o) == FoldSet(LAMBDA k, sum : sum + got[k[1]][k[2]].amount, 0,
                            {k \in parts : got[k[1]][k[2]].op = o.id})
        Free(o) == \A i \in DOMAIN loans :
                     ~(o.loan = loans[i].id /\ o.currency = loans[i].currency)
        today == CHOOSE d \in Days : \A e \in Days : e <= d
    IN /\ \A i \in DOMAIN ops : ops[i].amount > 0 => Given(ops[i]) <= ops[i].amount
       /\ \A i \in DOMAIN loans, j \in DOMAIN ops :
            LET l == loans[i]
                o == ops[j]
            IN o.amount > 0 /\ Free(o) /\ o.currency = l.currency =>
                 /\ OwedOn(l, got[i], today) > 0 /\ o.date >= l.date => Given(o) = o.amount
                 /\ o.date < l.date => \A k \in DOMAIN got[i] : got[i][k].op # o.id
=============================================================================
