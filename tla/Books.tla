------------------------------- MODULE Books -------------------------------
(***************************************************************************)
(* The books of the portfolios: the tables a person fills by hand, the     *)
(* references between their rows, the journal of the plan, and the backup  *)
(* that carries one portfolio to another place (internal/store: store.go,  *)
(* goals.go, debts.go, npf.go, plan.go, reserve_loans.go, backup.go).      *)
(*                                                                         *)
(* One SQLite file holds the rows of every portfolio; each statement (or   *)
(* transaction) is atomic, and between two statements of one request the   *)
(* statements of another may run.  A row is its table, its id, the         *)
(* portfolio it belongs to, the row it refers to, and a label that stands  *)
(* for its content: a copy of the row in a backup keeps the label, so that *)
(* "the same row" can be said across databases.                            *)
(***************************************************************************)
EXTENDS Integers, Sequences, FiniteSets, SequencesExt

CONSTANTS
  Portfolios,   \* the portfolios of the installation
  Clients,      \* HTTP requests that can be under way at once
  Bounds        \* by set of tables, one of which a behaviour looks at: how many
                \* rows are ever written, exports and restores made, crashes of
                \* the process, moves to a new and empty database

VARIABLES
  tables,   \* the tables of this behaviour
  rows,     \* the rows of the database
  seq,      \* sqlite_sequence: the largest id ever given, by table
  file,     \* the backup kept outside the machine
  request,  \* what each client is in the middle of
  births,   \* number of labels given out
  swapped,  \* history: a restore gave the number of a row that a request under
            \* way had looked up to a row of another portfolio
  crashes, exports, restores, machines   \* how often each has happened

vars == <<tables, rows, seq, file, request, births, swapped,
          crashes, exports, restores, machines>>

NoRef == [to |-> "", id |-> 0]
NoFile == {}
Idle == [kind |-> "idle"]

(* The foreign keys of the schema (0010 ... 0062): child table to parent. *)
Parent ==
  [sales |-> "lots", fund_ops |-> "fund_ops", term_deposits |-> "goals",
   deposit_topups |-> "term_deposits", reserve_ops |-> "reserve_loans",
   reserve_loans |-> "reserve_ops", goal_ops |-> "goals", debts |-> "debts",
   debt_ops |-> "debts", debt_marks |-> "debts",
   npf_ops |-> "npf_accounts", npf_nav |-> "npf_accounts"]

(* References that are numbers or texts without a foreign key: they may    *)
(* outlive the row they are about.                                         *)
LooseTarget ==
  [plan_flows |-> {"npf_accounts"}, plan_flow_revisions |-> {"plan_flows"},
   plan_receipts |-> {"plan_flows"},
   decisions |-> {"lots", "fund_ops", "term_deposits", "npf_ops", "goal_ops",
                  "reserve_ops"}]

AllTables ==
  DOMAIN Parent \cup {Parent[t] : t \in DOMAIN Parent} \cup DOMAIN LooseTarget

ASSUME BooksAssumption ==
  \A ts \in DOMAIN Bounds : ts \subseteq AllTables /\ Bounds[ts].rows \in Nat

HasKey(t) == t \in DOMAIN Parent
Names(r, ref) == r.table = ref.to /\ r.id = ref.id
Resolves(rs, ref) == \E r \in rs : Names(r, ref)
OfPortfolio(rs, p) == {r \in rs : r.owner = p}
Own(t, p) == {r \in rows : r.table = t /\ r.owner = p}
RefTo(r) == [to |-> r.table, id |-> r.id]

(* The rows a foreign key ties to r. *)
Children(rs, r) == {c \in rs : HasKey(c.table) /\ Names(r, c.ref)}

----------------------------------------------------------------------------
(* Statements. *)

(* INSERT: AUTOINCREMENT gives an id above every id the table ever had. *)
NewRow(t, p, ref, op) ==
  [table |-> t, id |-> seq[t] + 1, owner |-> p, ref |-> ref, op |-> op,
   label |-> births + 1]

Insert(new) ==
  /\ births < Bounds[tables].rows
  /\ rows' = rows \cup {new}
  /\ seq' = [seq EXCEPT ![new.table] = new.id]
  /\ births' = births + 1

KeyHolds(t, ref) == HasKey(t) /\ ref # NoRef => Resolves(rows, ref)

(* One mark of a source of income per month, one loan on a withdrawal. *)
Unique == {"plan_receipts", "reserve_loans"}
Free(rs, t, p, ref) ==
  t \in Unique => ~\E r \in rs : r.table = t /\ r.owner = p /\ r.ref = ref

SetRef(rs, r, ref) == (rs \ {r}) \cup {[r EXCEPT !.ref = ref]}

Answer(c) == request' = [request EXCEPT ![c] = Idle]

(* What the statements of a request never touch. *)
Elsewhere ==
  UNCHANGED <<tables, file, swapped, crashes, exports, restores, machines>>

----------------------------------------------------------------------------
(* Requests that write a row.  ownsRow looks the parent up in the own      *)
(* portfolio; the INSERT or the UPDATE is a statement of its own.          *)

(* [mutant] the parent is looked up in all portfolios *)
OwnsRowAnywhere(t, p) == {RefTo(r) : r \in {x \in rows : x.table = t}}
OwnsRow(t, p) == {RefTo(r) : r \in Own(t, p)}

AddRoot(t) ==
  /\ t \in tables
  /\ \E p \in Portfolios : Insert(NewRow(t, p, NoRef, ""))
  /\ UNCHANGED request
  /\ Elsewhere

BeginAdd(c, t, to) ==
  /\ t \in tables /\ request[c] = Idle
  /\ \E p \in Portfolios : \E ref \in OwnsRow(to, p) :
       request' = [request EXCEPT ![c] =
                     [kind |-> "insert", table |-> t, owner |-> p, ref |-> ref]]
  /\ UNCHANGED <<rows, seq, births>>
  /\ Elsewhere

(* Rows that need not refer to any: no lookup when they cease to.          *)
Optional == {"term_deposits", "reserve_ops", "debts"}
NoneOf(t) == IF t \in Optional THEN {NoRef} ELSE {}

BeginMove(c, t) ==
  /\ t \in tables /\ request[c] = Idle
  /\ \E p \in Portfolios :
     \E r \in Own(t, p), ref \in OwnsRow(Parent[t], p) \cup NoneOf(t) :
       /\ t = "debts" => ref # RefTo(r)
       /\ request' = [request EXCEPT ![c] =
                        [kind |-> "update", table |-> t, owner |-> p,
                         id |-> r.id, ref |-> ref]]
  /\ UNCHANGED <<rows, seq, births>>
  /\ Elsewhere

AddLot == AddRoot("lots")
AddFundOp == AddRoot("fund_ops")
AddGoal == AddRoot("goals")
AddDebt(c) == AddRoot("debts") \/ BeginAdd(c, "debts", "debts")
AddNPFAccount == AddRoot("npf_accounts")
AddTermDeposit(c) == AddRoot("term_deposits") \/ BeginAdd(c, "term_deposits", "goals")
AddReserveOp(c) == AddRoot("reserve_ops") \/ BeginAdd(c, "reserve_ops", "reserve_loans")
AddSale(c) == BeginAdd(c, "sales", "lots")
AddDepositTopup(c) == BeginAdd(c, "deposit_topups", "term_deposits")
AddGoalOp(c) == BeginAdd(c, "goal_ops", "goals")
AddDebtOp(c) == BeginAdd(c, "debt_ops", "debts")
AddDebtMark(c) == BeginAdd(c, "debt_marks", "debts")
AddNPFOp(c) == BeginAdd(c, "npf_ops", "npf_accounts")
AddPlanReceipt(c) == BeginAdd(c, "plan_receipts", "plan_flows")
UpdateSale(c) == BeginMove(c, "sales")
UpdateTermDeposit(c) == BeginMove(c, "term_deposits")
UpdateReserveOp(c) == BeginMove(c, "reserve_ops")
UpdateGoalOp(c) == BeginMove(c, "goal_ops")
UpdateDebt(c) == BeginMove(c, "debts")
UpdateDebtOp(c) == BeginMove(c, "debt_ops")
UpdateNPFOp(c) == BeginMove(c, "npf_ops")

(* A point of the published history of a fund: the check of the owner and  *)
(* the INSERT share a transaction.                                         *)
AddNPFNavPoints ==
  /\ "npf_nav" \in tables
  /\ \E p \in Portfolios : \E ref \in OwnsRow("npf_accounts", p) :
       Insert(NewRow("npf_nav", p, ref, ""))
  /\ UNCHANGED request
  /\ Elsewhere

(* The second statement.  A parent that is gone by now, a second loan on   *)
(* one withdrawal, a second mark of a month: the database refuses.         *)
WriteRow(c) ==
  /\ request[c].kind = "insert"
  /\ LET q == request[c]
     IN  IF KeyHolds(q.table, q.ref) /\ Free(rows, q.table, q.owner, q.ref)
           THEN Insert(NewRow(q.table, q.owner, q.ref, ""))
           ELSE UNCHANGED <<rows, seq, births>>
  /\ Answer(c)
  /\ Elsewhere

WriteMove(c) ==
  /\ request[c].kind = "update"
  /\ LET q == request[c]
         found == {r \in rows : r.table = q.table /\ r.id = q.id /\ r.owner = q.owner}
     IN  rows' = IF KeyHolds(q.table, q.ref) /\ found # {}
                   THEN SetRef(rows, CHOOSE r \in found : TRUE, q.ref)
                   ELSE rows
  /\ Answer(c)
  /\ UNCHANGED <<seq, births>>
  /\ Elsewhere

(* A withdrawal from the cushion taken as a loan: two statements.  A later *)
(* loan on a withdrawal first looks the withdrawal up.                     *)
AddReserveOpWithLoan(c) ==
  /\ {"reserve_ops", "reserve_loans"} \subseteq tables /\ request[c] = Idle
  /\ \E p \in Portfolios :
       LET op == NewRow("reserve_ops", p, NoRef, "")
       IN  /\ Insert(op)
           /\ request' = [request EXCEPT ![c] =
                [kind |-> "insert", table |-> "reserve_loans", owner |-> p,
                 ref |-> RefTo(op)]]
  /\ Elsewhere

AddReserveLoan(c) == BeginAdd(c, "reserve_loans", "reserve_ops")

(* A purchase, and after it the line of the journal of decisions with the  *)
(* id of what was bought.                                                  *)
AddLotWithDecision(c) ==
  /\ {"lots", "decisions"} \subseteq tables /\ request[c] = Idle
  /\ \E p \in Portfolios :
       LET lot == NewRow("lots", p, NoRef, "")
       IN  /\ Insert(lot)
           /\ request' = [request EXCEPT ![c] =
                [kind |-> "insert", table |-> "decisions", owner |-> p,
                 ref |-> RefTo(lot)]]
  /\ Elsewhere

(* A transfer between two funds: both legs, then each is pointed at the    *)
(* other, four statements in all (handlers_import.go).                     *)
AddFirstLeg(c) ==
  /\ "fund_ops" \in tables /\ request[c] = Idle
  /\ \E p \in Portfolios :
       LET op == NewRow("fund_ops", p, NoRef, "")
       IN  /\ Insert(op)
           /\ request' = [request EXCEPT ![c] =
                            [kind |-> "second leg", owner |-> p, a |-> op.id]]
  /\ Elsewhere

AddSecondLeg(c) ==
  /\ request[c].kind = "second leg"
  /\ LET op == NewRow("fund_ops", request[c].owner, NoRef, "")
     IN  /\ Insert(op)
         /\ request' = [request EXCEPT ![c] =
              [kind |-> "link", owner |-> request[c].owner,
               a |-> request[c].a, b |-> op.id, again |-> TRUE]]
  /\ Elsewhere

(* [mutant] only one of the two references is written *)
LinkOneLeg(c) ==
  /\ request[c].kind = "link"
  /\ rows' = LET leg == {r \in Own("fund_ops", request[c].owner) : r.id = request[c].a}
             IN  IF leg = {} THEN rows
                 ELSE SetRef(rows, CHOOSE r \in leg : TRUE,
                             [to |-> "fund_ops", id |-> request[c].b])
  /\ Answer(c)
  /\ UNCHANGED <<seq, births>>
  /\ Elsewhere
LinkFundOps(c) ==
  /\ request[c].kind = "link"
  /\ LET q == request[c]
         leg == {r \in Own("fund_ops", q.owner) : r.id = q.a}
         other == [to |-> "fund_ops", id |-> q.b]
         done == leg # {} /\ Resolves(rows, other)
     IN  /\ rows' = IF done THEN SetRef(rows, CHOOSE r \in leg : TRUE, other)
                            ELSE rows
         /\ request' = [request EXCEPT ![c] =
              IF done /\ q.again
                THEN [q EXCEPT !.a = q.b, !.b = q.a, !.again = FALSE]
                ELSE Idle]
  /\ UNCHANGED <<seq, births>>
  /\ Elsewhere

----------------------------------------------------------------------------
(* Requests that delete. *)

(* DELETE of one row: refused while a key points at it; reserve_loans.op_id *)
(* cascades, so a loan goes with its withdrawal.                            *)
Cascade(rs, r) == {c \in Children(rs, r) : c.table = "reserve_loans"}

Deleted(rs, gone) ==
  LET all == gone \cup UNION {Cascade(rs, r) : r \in gone}
      left == rs \ all
  IN  IF \E r \in all : Children(left, r) # {} THEN rs ELSE left

DeleteRow(t) ==
  /\ t \in tables
  /\ \E r \in rows : r.table = t /\ rows' = Deleted(rows, {r})
  /\ UNCHANGED <<seq, births, request>>
  /\ Elsewhere

(* The counts of rows underneath only word the refusal that the keys give  *)
(* anyway.                                                                 *)
DeleteGoal == DeleteRow("goals")
DeleteDebt == DeleteRow("debts")
DeleteLot == DeleteRow("lots")
DeleteSale == DeleteRow("sales")
DeleteGoalOp == DeleteRow("goal_ops")
DeleteDebtOp == DeleteRow("debt_ops")
DeleteDebtMark == DeleteRow("debt_marks")
DeleteNPFOp == DeleteRow("npf_ops")
DeleteNPFNavPoint == DeleteRow("npf_nav")
DeleteDepositTopup == DeleteRow("deposit_topups")
DeletePlanReceipt == DeleteRow("plan_receipts")

(* One transaction: the repayments of the loan are untied, then the row    *)
(* goes.                                                                   *)
Untied(rs, loans) ==
  {IF r.table = "reserve_ops" /\ \E l \in loans : Names(l, r.ref)
     THEN [r EXCEPT !.ref = NoRef] ELSE r : r \in rs}

DeleteReserveOp ==
  /\ "reserve_ops" \in tables
  /\ \E op \in rows :
       /\ op.table = "reserve_ops"
       /\ LET untied == Untied(rows, Cascade(rows, op))
          IN  rows' = Deleted(untied, {r \in untied : Names(r, RefTo(op))})
  /\ UNCHANGED <<seq, births, request>>
  /\ Elsewhere

DeleteReserveLoan ==
  /\ "reserve_loans" \in tables
  /\ \E l \in rows :
       /\ l.table = "reserve_loans"
       /\ rows' = Deleted(Untied(rows, {l}), {l})
  /\ UNCHANGED <<seq, births, request>>
  /\ Elsewhere

(* A leg of a transfer goes with its pair: both references are cleared,    *)
(* then both rows deleted, in one transaction.                             *)
DeleteFundOp ==
  /\ "fund_ops" \in tables
  /\ \E op \in rows :
       /\ op.table = "fund_ops"
       /\ LET both == {r \in Own("fund_ops", op.owner) : r = op \/ Names(r, op.ref)}
              cleared == {[r EXCEPT !.ref = NoRef] : r \in both}
              after == Deleted((rows \ both) \cup cleared, cleared)
          IN  rows' = IF cleared \cap after = {} THEN after ELSE rows
  /\ UNCHANGED <<seq, births, request>>
  /\ Elsewhere

(* Deposits and pension accounts go one statement after another, children  *)
(* first.                                                                  *)
Underneath == [term_deposits |-> <<"deposit_topups">>,
               npf_accounts |-> <<"npf_ops", "npf_nav">>]

BeginDelete(c, t) ==
  /\ t \in tables /\ request[c] = Idle
  /\ \E r \in rows :
       /\ r.table = t
       /\ request' = [request EXCEPT ![c] =
            [kind |-> "delete", row |-> RefTo(r), owner |-> r.owner,
             left |-> Underneath[t], since |-> births]]
  /\ UNCHANGED <<rows, seq, births>>
  /\ Elsewhere

DeleteTermDeposit(c) == BeginDelete(c, "term_deposits")
DeleteNPFAccount(c) == BeginDelete(c, "npf_accounts")

DeleteUnderneath(c) ==
  /\ request[c].kind = "delete" /\ request[c].left # <<>>
  /\ LET q == request[c]
     IN  /\ rows' = rows \ {r \in Own(Head(q.left), q.owner) : r.ref = q.row}
         /\ request' = [request EXCEPT ![c].left = Tail(q.left)]
  /\ UNCHANGED <<seq, births>>
  /\ Elsewhere

DeleteItself(c) ==
  /\ request[c].kind = "delete" /\ request[c].left = <<>>
  /\ rows' = Deleted(rows, {r \in rows : Names(r, request[c].row)
                                          /\ r.owner = request[c].owner})
  /\ Answer(c)
  /\ UNCHANGED <<seq, births>>
  /\ Elsewhere

----------------------------------------------------------------------------
(* The plan: every change of a source of income writes a line of the       *)
(* journal in the same transaction.                                        *)

JournalPlanFlow(rs, flow, op, label) ==
  /\ label <= Bounds[tables].rows
  /\ rows' = rs \cup {[table |-> "plan_flow_revisions",
                       id |-> seq["plan_flow_revisions"] + 1, owner |-> flow.owner,
                       ref |-> RefTo(flow), op |-> op, label |-> label]}
  /\ births' = label
  /\ UNCHANGED request
  /\ Elsewhere

(* dest: an account of the own portfolio, or the portfolio itself. *)
Dest(p) == {NoRef} \cup OwnsRow("npf_accounts", p)

AddPlanFlow ==
  /\ {"plan_flows", "plan_flow_revisions"} \subseteq tables
  /\ \E p \in Portfolios : \E dest \in Dest(p) :
       LET flow == NewRow("plan_flows", p, dest, "")
       IN  /\ JournalPlanFlow(rows \cup {flow}, flow, "create", births + 2)
           /\ seq' = [seq EXCEPT !["plan_flows"] = flow.id,
                                 !["plan_flow_revisions"] = @ + 1]

UpdatePlanFlow ==
  /\ {"plan_flows", "plan_flow_revisions"} \subseteq tables
  /\ \E flow \in rows : \E dest \in Dest(flow.owner) :
       /\ flow.table = "plan_flows"
       /\ JournalPlanFlow(SetRef(rows, flow, dest), flow, "update", births + 1)
  /\ seq' = [seq EXCEPT !["plan_flow_revisions"] = @ + 1]

(* [mutant] a deletion leaves no line in the journal *)
DeleteWithoutJournal ==
  /\ \E flow \in rows : flow.table = "plan_flows" /\ rows' = rows \ {flow}
  /\ UNCHANGED <<seq, births, request>>
  /\ Elsewhere
DeletePlanFlow ==
  /\ {"plan_flows", "plan_flow_revisions"} \subseteq tables
  /\ \E flow \in rows :
       /\ flow.table = "plan_flows"
       /\ JournalPlanFlow(rows \ {flow}, flow, "delete", births + 1)
  /\ seq' = [seq EXCEPT !["plan_flow_revisions"] = @ + 1]

(* The plan as the journal knows it now: the last line of each source,     *)
(* without those whose last line is a deletion.                            *)
PlanAsOf(rs, p) ==
  LET revs == {r \in rs : r.table = "plan_flow_revisions" /\ r.owner = p}
      last == {r \in revs : \A s \in revs : s.ref = r.ref => s.label <= r.label}
  IN  {r.ref : r \in {s \in last : s.op # "delete"}}

----------------------------------------------------------------------------
(* The backup. *)

(* What exportAll reads. *)
ExportedFirst == {"lots", "sales", "fund_ops", "term_deposits", "deposit_topups",
                  "npf_accounts", "npf_ops", "npf_nav"}
ExportedNext == {"reserve_ops", "reserve_loans", "goals", "goal_ops", "debts",
                 "debt_ops", "debt_marks"}
ExportedLast == {"plan_flows", "plan_flow_revisions", "plan_receipts", "decisions"}
Exported == ExportedFirst \cup ExportedNext \cup ExportedLast

ExportAll(p) ==
  /\ exports < Bounds[tables].exports /\ exports' = exports + 1
  /\ OfPortfolio(rows, p) # {}
  /\ file' = {r \in OfPortfolio(rows, p) : r.table \in Exported}
  /\ UNCHANGED <<tables, rows, seq, request, births, swapped, crashes, restores,
                 machines>>

(* [mutant] the wipe is not limited to the portfolio *)
WipedEverything(p) == {}

(* importAllTables, after debts.card_id and reserve_ops.loan_id are        *)
(* cleared: the own rows go, and fail as one if a key of a row outside     *)
(* still points at one of them.                                            *)
Wiped(p) == rows \ OfPortfolio(rows, p)
WipeAllowed(p) ==
  \A r \in OfPortfolio(rows, p) : Children(Wiped(p), r) = {}

(* [mutant] references keep the numbers of the file *)
OfNothing(map, ref) == ref

(* idMaps: the ids that were taken, and what they became. *)
Of(map, ref) ==
  IF \E m \in map : m.was = ref
    THEN [ref EXCEPT !.id = (CHOOSE m \in map : m.was = ref).now]
    ELSE ref

(* [mutant] references are written with the row *)
LinkedNowhere == {}

(* Tables whose references are written in a second pass: the row they name *)
(* may come later in the file.                                             *)
Linked == {"fund_ops", "reserve_ops", "debts"}

(* idMaps.insert for one row of the file: its id when it is free, a new    *)
(* one when it is taken.                                                   *)
RestoreRow(db, r, p) ==
  LET taken == Resolves(db.rows, RefTo(r))
      id == IF taken THEN db.seq[r.table] + 1 ELSE r.id
      ref == IF r.table \in Linked THEN NoRef ELSE Of(db.map, r.ref)
      new == [table |-> r.table, id |-> id, owner |-> p, ref |-> ref, op |-> r.op,
              label |-> r.label]
  IN  [rows |-> db.rows \cup {new},
       seq |-> [db.seq EXCEPT ![r.table] = IF id > @ THEN id ELSE @],
       map |-> IF taken THEN db.map \cup {[was |-> RefTo(r), now |-> id]} ELSE db.map,
       ok |-> /\ db.ok
              /\ HasKey(r.table) /\ ref # NoRef => Resolves(db.rows, ref)
              /\ Free(db.rows, r.table, p, ref)]

RestoreLink(db, r, p) ==
  LET row == CHOOSE x \in db.rows : Names(x, Of(db.map, RefTo(r)))
      ref == Of(db.map, r.ref)
  IN  IF r.ref = NoRef THEN db
      ELSE [rows |-> SetRef(db.rows, row, ref), seq |-> db.seq, map |-> db.map,
            ok |-> db.ok /\ Resolves(db.rows, ref)]

(* One loop of ImportAll over the rows of a table; the file has them in the *)
(* order of their ids.                                                     *)
LastId(f) == Max({r.id : r \in f})

RestoreOne(db, link, i, p, f) ==
  LET found == {r \in f : r.id = i}
      row == CHOOSE r \in found : TRUE
  IN  IF found = {} THEN db
      ELSE IF link THEN RestoreLink(db, row, p) ELSE RestoreRow(db, row, p)

RestoreEach(db, t, link, p, f) ==
  LET own == {r \in f : r.table = t}
      upTo[i \in 0..LastId(own)] ==
        IF i = 0 THEN db ELSE RestoreOne(upTo[i - 1], link, i, p, own)
  IN  IF own = {} THEN db ELSE upTo[LastId(own)]

InsertAll(db, t, p, f) == RestoreEach(db, t, FALSE, p, f)
LinkAll(db, t, p, f) == RestoreEach(db, t, TRUE, p, f)

(* The loops of ImportAll, parents before their children where the keys     *)
(* have an order at all.                                                   *)
RestorePapers(db, p, f) ==
  LET lots == InsertAll(db, "lots", p, f)
      sales == InsertAll(lots, "sales", p, f)
      ops == InsertAll(sales, "fund_ops", p, f)
  IN  LinkAll(ops, "fund_ops", p, f)

RestoreSavings(db, p, f) ==
  LET goals == InsertAll(db, "goals", p, f)
      deposits == InsertAll(goals, "term_deposits", p, f)
      topups == InsertAll(deposits, "deposit_topups", p, f)
      ops == InsertAll(topups, "reserve_ops", p, f)
      loans == InsertAll(ops, "reserve_loans", p, f)
      linked == LinkAll(loans, "reserve_ops", p, f)
  IN  InsertAll(linked, "goal_ops", p, f)

RestoreDebts(db, p, f) ==
  LET debts == InsertAll(db, "debts", p, f)
      linked == LinkAll(debts, "debts", p, f)
      ops == InsertAll(linked, "debt_ops", p, f)
  IN  InsertAll(ops, "debt_marks", p, f)

RestorePensions(db, p, f) ==
  LET accounts == InsertAll(db, "npf_accounts", p, f)
      ops == InsertAll(accounts, "npf_ops", p, f)
  IN  InsertAll(ops, "npf_nav", p, f)

RestorePlan(db, p, f) ==
  LET flows == InsertAll(db, "plan_flows", p, f)
      revisions == InsertAll(flows, "plan_flow_revisions", p, f)
      receipts == InsertAll(revisions, "plan_receipts", p, f)
  IN  InsertAll(receipts, "decisions", p, f)

Restored(p, f) ==
  LET wiped == [rows |-> Wiped(p), seq |-> seq, map |-> {}, ok |-> WipeAllowed(p)]
      papers == RestorePapers(wiped, p, f)
      savings == RestoreSavings(papers, p, f)
      debts == RestoreDebts(savings, p, f)
      pensions == RestorePensions(debts, p, f)
  IN  RestorePlan(pensions, p, f)

(* What a request under way has looked up, and is going to write.          *)
Leg(id) == [to |-> "fund_ops", id |-> id]
LookedUp(q) ==
  CASE q.kind \in {"insert", "update"} -> {q.ref}
    [] q.kind = "second leg" -> {Leg(q.a)}
    [] q.kind = "link" -> {Leg(q.a), Leg(q.b)}
    [] OTHER -> {}

SwappedUnderway(rs) ==
  \E c \in Clients : \E ref \in LookedUp(request[c]) : \E r \in rs :
    Names(r, ref) /\ r.owner # request[c].owner

(* ImportAll: one transaction; whatever fails leaves the database as it    *)
(* was.                                                                    *)
ImportAll(p) ==
  /\ file # NoFile
  /\ restores < Bounds[tables].restores /\ restores' = restores + 1
  /\ LET db == Restored(p, file)
     IN  IF db.ok THEN rows' = db.rows /\ seq' = db.seq
                  ELSE UNCHANGED <<rows, seq>>
  /\ swapped' = (swapped \/ SwappedUnderway(rows'))
  /\ UNCHANGED <<tables, file, request, births, crashes, exports, machines>>

(* The process dies between two statements. *)
Crash ==
  /\ crashes < Bounds[tables].crashes
  /\ \E c \in Clients : request[c] # Idle
  /\ crashes' = crashes + 1
  /\ request' = [c \in Clients |-> Idle]
  /\ UNCHANGED <<tables, rows, seq, file, births, swapped, exports, restores,
                 machines>>

(* The machine is lost; an empty database and the file are what is left.   *)
NewMachine ==
  /\ machines < Bounds[tables].machines /\ file # NoFile
  /\ machines' = machines + 1
  /\ rows' = {}
  /\ seq' = [t \in tables |-> 0]
  /\ request' = [c \in Clients |-> Idle]
  /\ UNCHANGED <<tables, file, births, swapped, crashes, exports, restores>>

----------------------------------------------------------------------------
Init ==
  /\ tables \in DOMAIN Bounds
  /\ rows = {}
  /\ seq = [t \in tables |-> 0]
  /\ file = NoFile
  /\ request = [c \in Clients |-> Idle]
  /\ swapped = FALSE
  /\ births = 0 /\ crashes = 0 /\ exports = 0 /\ restores = 0 /\ machines = 0

Roots == AddLot \/ AddFundOp \/ AddGoal \/ AddNPFAccount \/ AddNPFNavPoints

Adds(c) ==
  \/ AddDebt(c) \/ AddTermDeposit(c) \/ AddReserveOp(c) \/ AddSale(c)
  \/ AddDepositTopup(c) \/ AddGoalOp(c) \/ AddDebtOp(c) \/ AddDebtMark(c)
  \/ AddNPFOp(c) \/ AddPlanReceipt(c) \/ AddReserveOpWithLoan(c)
  \/ AddReserveLoan(c) \/ AddLotWithDecision(c) \/ AddFirstLeg(c)
  \/ AddSecondLeg(c) \/ LinkFundOps(c) \/ WriteRow(c)

Moves(c) ==
  \/ UpdateSale(c) \/ UpdateTermDeposit(c) \/ UpdateReserveOp(c)
  \/ UpdateGoalOp(c) \/ UpdateDebt(c) \/ UpdateDebtOp(c) \/ UpdateNPFOp(c)
  \/ WriteMove(c)

Deletes ==
  \/ DeleteGoal \/ DeleteDebt \/ DeleteLot \/ DeleteSale \/ DeleteGoalOp
  \/ DeleteDebtOp \/ DeleteDebtMark \/ DeleteNPFOp \/ DeleteNPFNavPoint
  \/ DeleteDepositTopup \/ DeletePlanReceipt \/ DeleteReserveOp
  \/ DeleteReserveLoan \/ DeleteFundOp

DeletesInSteps(c) ==
  \/ DeleteTermDeposit(c) \/ DeleteNPFAccount(c) \/ DeleteUnderneath(c)
  \/ DeleteItself(c)

Plan == AddPlanFlow \/ UpdatePlanFlow \/ DeletePlanFlow

Next ==
  \/ Roots \/ Deletes \/ Plan \/ Crash \/ NewMachine
  \/ \E c \in Clients : Adds(c) \/ Moves(c) \/ DeletesInSteps(c)
  \/ \E p \in Portfolios : ExportAll(p) \/ ImportAll(p)

Spec == Init /\ [][Next]_vars

----------------------------------------------------------------------------
(* Properties. *)

(* Type invariant: ids are given out by seq, and a table holds an id once. *)
TypeOK ==
  /\ tables \in DOMAIN Bounds
  /\ \A r \in rows : /\ r.table \in tables /\ r.owner \in Portfolios
                     /\ r.id \in 1..seq[r.table]
                     /\ r.label \in 1..births
  /\ \A r, s \in rows : RefTo(r) = RefTo(s) => r = s
  /\ \A c \in Clients : request[c].kind \in {"idle", "insert", "update", "second leg",
                                            "link", "delete"}
  /\ births \in 0..Bounds[tables].rows

(* A child row always has its parent, in its own portfolio: between the    *)
(* check of the owner and the write, the parent may be deleted, moved or   *)
(* replaced by a restore.  One accident is left, and named: the parent is  *)
(* gone by then and a restore has given its number to a row of another     *)
(* portfolio; the write looks at the number only.                          *)
ReferencesHold ==
  ~swapped =>
    \A r \in rows : HasKey(r.table) /\ r.ref # NoRef =>
      \E parent \in rows : Names(parent, r.ref) /\ parent.owner = r.owner

(* The same without the exception, as the comment of ownsRow has it: "the  *)
(* foreign key would not catch it".  The check beforehand does not either. *)
ParentsAreOwn ==
  \A r \in rows : HasKey(r.table) /\ r.ref # NoRef =>
    \E parent \in rows : Names(parent, r.ref) /\ parent.owner = r.owner

(* The file can be restored into any portfolio of any database it may meet *)
(* -- ids taken by a neighbour, rows of the same portfolio still there --  *)
(* unless it holds a mark of a source of income that is gone, whose number *)
(* another source may get, or a row has come to refer to another           *)
(* portfolio's (swapped).                                                  *)
Stray(rs) == {r \in rs : r.ref # NoRef /\ ~Resolves(rs, r.ref)}
FileCanBeRestored ==
  \A p \in Portfolios :
    file # NoFile /\ ~swapped /\ (\A r \in Stray(file) : r.table # "plan_receipts")
      => Restored(p, file).ok

(* The legs of a transfer point at each other, except while they are being *)
(* linked; a crash in between, or a backup taken in between, is what may   *)
(* leave a one-way link.                                                   *)
PairsMutual ==
  crashes = 0 /\ restores = 0 =>
    \A r \in rows : r.table = "fund_ops" /\ r.ref # NoRef =>
      \/ \E other \in rows : Names(other, r.ref) /\ other.ref = RefTo(r)
      \/ \E c \in Clients : request[c].kind = "link" /\ request[c].b = r.id

(* On one database the journal of the plan tells the same sources of       *)
(* income as the table does, restores included.                            *)
JournalMatchesFlows ==
  machines = 0 =>
    \A p \in Portfolios :
      PlanAsOf(rows, p) = {RefTo(r) : r \in {x \in rows : x.table = "plan_flows"
                                                          /\ x.owner = p}}

(* The same on every database: what the journal is for.                    *)
JournalSurvivesTheMove ==
  \A p \in Portfolios :
    PlanAsOf(rows, p) = {RefTo(r) : r \in {x \in rows : x.table = "plan_flows"
                                                        /\ x.owner = p}}

(* A restore brings back the rows of the file, all of them and no other,   *)
(* and every reference names the row it named when the file was taken,     *)
(* whatever ids they got.                                                  *)
LabelOf(rs, ref) == (CHOOSE r \in rs : Names(r, ref)).label
Story(rs) ==
  {[table |-> r.table, label |-> r.label,
    about |-> IF Resolves(rs, r.ref) THEN LabelOf(rs, r.ref) ELSE 0] : r \in rs}
RestoreIsFaithful ==
  [][\A p \in Portfolios :
       ImportAll(p) /\ Restored(p, file).ok /\ ~swapped =>
         LET back == OfPortfolio(rows', p)
         IN  /\ {r.label : r \in back} = {r.label : r \in file}
             /\ \A s \in Story(file) : s.about # 0 => s \in Story(back)]_vars

(* A step changes the rows of one portfolio at most: the neighbour's are   *)
(* left alone by every statement and by the restore, as long as no row     *)
(* refers to another portfolio's (swapped).                                *)
NeighboursUntouched ==
  [][machines' = machines /\ ~swapped =>
       \A p, q \in Portfolios :
         p # q => \/ OfPortfolio(rows, p) = OfPortfolio(rows', p)
                  \/ OfPortfolio(rows, q) = OfPortfolio(rows', q)]_vars
=============================================================================
