-------------------------- MODULE StatementImport --------------------------
(***************************************************************************)
(* The import of the broker's statement (internal/api/handlers_import.go,  *)
(* internal/imports/inzhur.go).                                            *)
(*                                                                         *)
(* A statement brings the whole history up to the day it was taken, so     *)
(* each import must recognise what the journal has already.  Rows are      *)
(* written one statement each; whatever fails, the answer is to send the   *)
(* file again.  A mark (import_since) hides the days before it.  The       *)
(* preview (dry=1) writes nothing and is left out; so are deposits and     *)
(* withdrawals, which are only counted.                                    *)
(*                                                                         *)
(* An event of the history is a purchase or another operation ("op"), a    *)
(* conversion of one fund into another ("pair": two legs, at most a day    *)
(* apart), or a coupon.  sym stands for fund and amount; full is that of   *)
(* the bought leg with what was paid on top the day after, which only a    *)
(* later statement knows.                                                  *)
(***************************************************************************)
EXTENDS Integers, Sequences, FiniteSets, SequencesExt

CONSTANTS
  Histories,   \* what may have happened at the broker: sequences of events
  LastDay,
  Clients,     \* imports that can be under way at once
  Limits       \* bounds: imports, those failing half-way, rows entered by
               \* hand, marks moved by hand, imports at once

VARIABLES
  limits,
  history,     \* what happened at the broker
  db,          \* the journal: records [id, key, leg, pair]
  received,    \* coupons with the status "received"
  since,       \* the mark, 0 for none
  supplied,    \* events whose missing data (price, history of the fund, line
               \* of the schedule) the user has entered
  req,         \* the imports under way
  torn,        \* conversions whose linking was cut between its two statements
  imports, faults, entries, moves

countVars == <<limits, imports, faults, entries, moves>>
vars == <<history, db, received, since, supplied, req, torn, countVars>>

Days == 1..LastDay

(* The parser pairs two halves of a conversion that are a day apart at     *)
(* most; the other events have one day, and nothing is paid on top.        *)
ASSUME HistoriesAssumption ==
  /\ LastDay \in Nat
  /\ \A h \in Histories :
       /\ h \in Seq({h[n] : n \in DOMAIN h})
       /\ \A n \in DOMAIN h :
            /\ h[n].kind \in {"op", "pair", "coupon"} /\ {h[n].sold, h[n].day} \subseteq Days
            /\ h[n].day <= h[n].sold + 1 /\ h[n].sold <= h[n].day + 1
            /\ h[n].kind # "pair" => h[n].sold = h[n].day /\ h[n].full = h[n].sym

Least(S) == CHOOSE x \in S : \A y \in S : x <= y
Greatest(S) == CHOOSE x \in S : \A y \in S : x >= y

----------------------------------------------------------------------------
(* The parser: rows in the order of time; a conversion becomes two rows,   *)
(* the sale first, where its second half stands, and nothing at all when   *)
(* the file holds only one half.  A payment on top is added to the amount  *)
(* of the bought leg, a day after it at the latest.                        *)

Row(kind, day, n, sym, pair) ==
  [kind |-> kind, key |-> [day |-> day, kind |-> kind, sym |-> sym],
   event |-> n, pair |-> pair]

Bought(e, upTo) == IF upTo > e.day THEN e.full ELSE e.sym

EventRows(n, upTo) ==
  LET e == history[n]
  IN  IF {e.sold, e.day} \subseteq 1..upTo
        THEN CASE e.kind = "pair" -> <<Row("sell", e.sold, n, e.sym, TRUE),
                                       Row("buy", e.day, n, Bought(e, upTo), TRUE)>>
               [] e.kind = "op" -> <<Row("buy", e.day, n, e.sym, FALSE)>>
               [] e.kind = "coupon" -> <<Row("coupon", e.day, n, e.sym, FALSE)>>
        ELSE <<>>
ParseInzhur(upTo) == FlattenSeq([n \in DOMAIN history |-> EventRows(n, upTo)])

----------------------------------------------------------------------------
NoImport == [at |-> "idle"]

NextId == Cardinality(db) + 1     \* nothing is deleted here
Keys(rs) == {r.key : r \in rs}
Ops(rs, key) == {r \in rs : r.key = key /\ ~r.leg}

(* [mutant] with the quantity in the key, computed from a position that    *)
(* the conversion has emptied, a leg is never recognised                   *)
PairSeenByQuantity(q) == q.mine

(* What the journal had when the import read it, plus what this import     *)
(* added: pairSeen.                                                        *)
PairSeen(q) == Keys(q.old) \cup q.mine

(* [mutant] a leg that is there is left as it is *)
OrphanNever(q, key) == FALSE

(* orphanLeg: a purchase or sale without a pair. *)
Orphan(q, key) == \E r \in q.old : r.key = key /\ r.pair = 0 /\ r.key \notin q.healed
OrphanId(q, key) ==
  Greatest({r.id : r \in {x \in q.old : x.key = key /\ x.pair = 0}})

Considered(q) == {i \in DOMAIN q.file : q.file[i].key.day >= q.since}
(* [mutant] a set of keys, filled while the file is read *)
SeenOpInSet(q, key) ==
  \/ Ops(q.old, key) # {}
  \/ \E i \in Considered(q) : i < q.i /\ q.file[i].key = key /\ ~q.file[i].pair

(* twins: the n-th equal row of the file is in the journal when the        *)
(* journal has n of them.                                                  *)
SeenOp(q, key) ==
  Cardinality({i \in Considered(q) : i <= q.i /\ q.file[i].key = key /\ ~q.file[i].pair})
    <= Cardinality(Ops(q.old, key))

(* planPair: both quantities are computed at the first leg that is not in  *)
(* the journal yet, or the conversion is put off as a whole.               *)
PlanPair(q, n) ==
  LET known == {p.event : p \in q.plans}
      plan == [event |-> n, goes |-> n \in q.supplied]
  IN  IF n \in known THEN q ELSE [q EXCEPT !.plans = @ \cup {plan}]
Goes(q, n) == [event |-> n, goes |-> TRUE] \in q.plans

First(q, n) == {f \in q.first : f.event = n}

----------------------------------------------------------------------------
Upload(c) ==
  /\ req[c] = NoImport
  /\ imports < limits.imports /\ imports' = imports + 1
  /\ Cardinality({d \in Clients : req[d] # NoImport}) < limits.atOnce
  /\ \E upTo \in Days :
       req' = [req EXCEPT ![c] = [at |-> "journal", file |-> ParseInzhur(upTo)]]
  /\ UNCHANGED <<history, db, received, since, supplied, torn, limits, faults,
                 entries, moves>>

ReadJournal(c) ==
  /\ req[c].at = "journal"
  /\ req' = [req EXCEPT ![c] =
       [at |-> "mark", file |-> req[c].file, i |-> 1, old |-> db,
        supplied |-> supplied, since |-> 0, mine |-> {}, healed |-> {},
        plans |-> {}, first |-> {}, told |-> {}, link |-> <<>>]]
  /\ UNCHANGED <<history, db, received, since, supplied, torn, countVars>>

ReadMark(c) ==
  /\ req[c].at = "mark"
  /\ req' = [req EXCEPT ![c].at = "rows", ![c].since = since]
  /\ UNCHANGED <<history, db, received, since, supplied, torn, countVars>>

(* One row of the file, its INSERT or status included.  q is the request   *)
(* as the row finds it; a leg that was written or found asks for the link. *)
Advance(c, q) == req' = [req EXCEPT ![c] = [q EXCEPT !.i = @ + 1]]

LinkOrRemember(q, n, id) ==
  LET first == First(q, n)
  IN  IF first = {} THEN [q EXCEPT !.first = @ \cup {[event |-> n, id |-> id]}]
      ELSE [q EXCEPT !.link = <<(CHOOSE f \in first : TRUE).id, id>>, !.at = "link"]

Insert(q, row) ==
  db' = db \cup {[id |-> NextId, key |-> row.key, leg |-> row.pair, pair |-> 0]}

OpRow(c, q, row) ==
  /\ row.kind = "buy" /\ ~row.pair
  /\ IF SeenOp(q, row.key) THEN UNCHANGED db /\ Advance(c, q)
     ELSE Insert(q, row) /\ Advance(c, [q EXCEPT !.mine = @ \cup {row.key}])
  /\ UNCHANGED received

LegRow(c, q, row) ==
  /\ row.pair
  /\ UNCHANGED received
  /\ LET n == row.event
         planned == PlanPair(q, n)
     IN  \/ /\ row.key \in PairSeen(q)
            /\ UNCHANGED db
            /\ Advance(c, IF Orphan(q, row.key)
                            THEN LinkOrRemember([q EXCEPT !.healed = @ \cup {row.key}],
                                                n, OrphanId(q, row.key))
                            ELSE q)
         \/ /\ row.key \notin PairSeen(q) /\ Goes(planned, n)
            /\ Insert(q, row)
            /\ Advance(c, LinkOrRemember([planned EXCEPT !.mine = @ \cup {row.key}],
                                         n, NextId))
         \/ /\ row.key \notin PairSeen(q) /\ ~Goes(planned, n)
            /\ UNCHANGED db
            /\ Advance(c, [planned EXCEPT !.told =
                 IF \E i \in @ : q.file[i].event = n THEN @ ELSE @ \cup {q.i}])

CouponRow(c, q, row) ==
  /\ row.kind = "coupon"
  /\ UNCHANGED db
  /\ IF row.event \in supplied
       THEN received' = received \cup {row.event} /\ Advance(c, q)
       ELSE UNCHANGED received /\ Advance(c, [q EXCEPT !.told = @ \cup {q.i}])

ImportRow(c) ==
  /\ req[c].at = "rows" /\ req[c].i <= Len(req[c].file)
  /\ LET q == req[c]
         row == q.file[q.i]
     IN  IF row.key.day < q.since
           THEN Advance(c, q) /\ UNCHANGED <<db, received>>
           ELSE OpRow(c, q, row) \/ LegRow(c, q, row) \/ CouponRow(c, q, row)
  /\ UNCHANGED <<history, since, supplied, torn, countVars>>

(* LinkFundOps: each leg is pointed at the other, one UPDATE each. *)
Point(a, b) ==
  db' = {IF r.id = a THEN [r EXCEPT !.pair = b] ELSE r : r \in db}

LinkFundOps(c) ==
  /\ req[c].at \in {"link", "link back"}
  /\ LET q == req[c]
     IN  IF q.at = "link"
           THEN Point(q.link[1], q.link[2]) /\ req' = [req EXCEPT ![c].at = "link back"]
           ELSE Point(q.link[2], q.link[1]) /\ req' = [req EXCEPT ![c].at = "rows"]
  /\ UNCHANGED <<history, received, since, supplied, torn, countVars>>

(* [mutant] the mark goes to the day of the import *)
NextIsToday(q) == LastDay

(* The latest day that was considered, but not after the first row that    *)
(* was put off.                                                            *)
NextImportSince(q) ==
  LET days(I) == {q.file[i].key.day : i \in I}
      putOff(i) == \E j \in q.told : q.file[j].event = q.file[i].event
      taken == {i \in Considered(q) : ~putOff(i) \/ q.file[i].key \in PairSeen(q)}
      next == Greatest({q.since} \cup days(taken))
  IN  Least({next} \cup days(q.told))

Finish(c) ==
  /\ req[c].at = "rows" /\ req[c].i > Len(req[c].file)
  /\ since' = NextImportSince(req[c])
  /\ req' = [req EXCEPT ![c] = NoImport]
  /\ UNCHANGED <<history, db, received, supplied, torn, countVars>>

(* A query fails, or the process dies: the request ends where it is, and   *)
(* the mark stays.                                                         *)
Fail(c) ==
  /\ req[c] # NoImport
  /\ faults < limits.faults /\ faults' = faults + 1
  /\ torn' = IF req[c].at = "link back" THEN torn \cup {req[c].link[1]} ELSE torn
  /\ req' = [req EXCEPT ![c] = NoImport]
  /\ UNCHANGED <<history, db, received, since, supplied, limits, imports, entries, moves>>

(* The user adds the price or the history that was asked for; enters an    *)
(* operation by hand; moves the mark.                                      *)
Supply ==
  /\ \E n \in DOMAIN history \ supplied :
       history[n].kind # "op" /\ supplied' = supplied \cup {n}
  /\ UNCHANGED <<history, db, received, since, req, torn, countVars>>

EnterByHand ==
  /\ entries < limits.entries /\ entries' = entries + 1
  /\ \E n \in DOMAIN history :
       LET e == history[n]
           key == [day |-> e.day, kind |-> "buy", sym |-> e.sym]
       IN  /\ e.kind = "op"
           /\ Cardinality(Ops(db, key)) <
                Cardinality({m \in DOMAIN history : history[m] = e})
           /\ \A c \in Clients : req[c] = NoImport
           /\ db' = db \cup {[id |-> NextId, key |-> key, leg |-> FALSE, pair |-> 0]}
  /\ UNCHANGED <<history, received, since, supplied, req, torn, limits, imports,
                 faults, moves>>

HandleImportSince ==
  /\ moves < limits.moves /\ moves' = moves + 1
  /\ \E d \in 0..LastDay : since' = d
  /\ UNCHANGED <<history, db, received, supplied, req, torn, limits, imports,
                 faults, entries>>

Init ==
  /\ limits \in Limits /\ history \in Histories
  /\ db = {} /\ received = {} /\ since = 0 /\ supplied = {} /\ torn = {}
  /\ req = [c \in Clients |-> NoImport]
  /\ imports = 0 /\ faults = 0 /\ entries = 0 /\ moves = 0

Next ==
  \/ Supply \/ EnterByHand \/ HandleImportSince
  \/ \E c \in Clients :
       \/ Upload(c) \/ ReadJournal(c) \/ ReadMark(c) \/ ImportRow(c)
       \/ LinkFundOps(c) \/ Finish(c) \/ Fail(c)

Spec == Init /\ [][Next]_vars

----------------------------------------------------------------------------
(* Properties. *)

TypeOK ==
  /\ limits \in Limits /\ history \in Histories
  /\ \A r \in db : r.id \in 1..Cardinality(db) /\ r.pair \in 0..Cardinality(db)
  /\ \A r, s \in db : r.id = s.id => r = s
  /\ received \subseteq supplied /\ supplied \subseteq DOMAIN history
  /\ since \in 0..LastDay
  /\ \A c \in Clients :
       req[c].at \in {"idle", "journal", "mark", "rows", "link", "link back"}

(* Rows of the history by key, and how many of them are conversions. *)
HistoryRows ==
  LET all == ParseInzhur(LastDay) IN {[row |-> all[i], i |-> i] : i \in DOMAIN all}
Twice(key) == {x \in HistoryRows : x.row.key = key}

(* Rows that some statement shows.  A conversion that was paid on top has  *)
(* two purchases among them.                                               *)
ShownRows == UNION {Range(ParseInzhur(upTo)) : upTo \in Days}
ShownAs(key) == {row \in ShownRows : row.key = key}

(* No leg of a conversion looks like another operation. *)
LegsDistinct ==
  \A row \in ShownRows : row.pair => Cardinality(ShownAs(row.key)) = 1

(* No conversion takes the money before it gives it. *)
SoldFirst == \A n \in DOMAIN history : history[n].sold <= history[n].day

(* However often, with whatever failures and manual entries in between, a  *)
(* statement is imported: an operation is in the journal at most as many   *)
(* times as it happened.  For a conversion this is said of each amount     *)
(* that a statement has shown for it, see ConversionOnce.                  *)
NothingTwice ==
  limits.atOnce = 1 =>
    \A key \in Keys(db) :
      Cardinality({r \in db : r.key = key}) <= Cardinality(ShownAs(key))

(* Without the exception, as the comment at importStatement has it:        *)
(* without recognising old rows "a second import would double the          *)
(* position".  A statement that ends between a conversion and the payment  *)
(* on top of it does: the amount is in the key.                            *)
Purchases(n) == {row \in ShownRows : row.event = n /\ row.pair /\ row.kind = "buy"}
ConversionOnce ==
  limits.atOnce = 1 /\ LegsDistinct =>
    \A n \in DOMAIN history :
      Cardinality({r \in db : r.key \in Keys(Purchases(n))}) <= 1

(* What the mark hides is in the journal: a row put off for a reason the   *)
(* user can remove stays visible until it is in.                           *)
InJournal(x) ==
  IF x.row.kind = "coupon" THEN x.row.event \in received
  ELSE Cardinality({r \in db : r.key = x.row.key}) >= Cardinality(Twice(x.row.key))
NothingHidden ==
  limits.atOnce = 1 /\ moves = 0 /\ LegsDistinct /\ SoldFirst =>
    \A x \in HistoryRows : x.row.key.day < since => InJournal(x)

(* A conversion that was torn by a failure is made whole, and its legs are *)
(* linked, by the next import that gets to the end: orphanLeg finds the    *)
(* leg without a pair, though the comment at importStatement still says    *)
(* that a repetition cannot.  Left as they are: a link that was torn       *)
(* between its two statements, and a conversion with two purchases in the  *)
(* journal (ConversionOnce), one of which has no pair.                     *)
Mutual(r) == \E s \in db : r.pair = s.id /\ s.pair = r.id
TwicePurchased(key) ==
  \E n \in DOMAIN history :
    key \in Keys(Purchases(n)) /\ Cardinality({r \in db : r.key \in Keys(Purchases(n))}) > 1
ConversionHeals ==
  [][\A c \in Clients :
       Finish(c) /\ limits.atOnce = 1 /\ moves = 0 /\ LegsDistinct /\ SoldFirst =>
         \A r \in db : r.leg /\ r.key.day >= req[c].since /\ torn = {}
                         /\ r.key \in {req[c].file[i].key : i \in DOMAIN req[c].file}
                         /\ ~TwicePurchased(r.key)
                       => Mutual(r)]_vars

(* The comment at planPair: when one leg cannot be computed neither goes   *)
(* in, because "a conversion entered by half is worse than none".          *)
NoHalfConversion ==
  (\A c \in Clients : req[c] = NoImport) /\ faults = 0 /\ moves = 0 /\ LegsDistinct =>
    \A x \in HistoryRows : x.row.pair /\ InJournal(x) =>
      \A y \in HistoryRows : y.row.event = x.row.event => InJournal(y)

(* The comment at twins: "a repetition of the same file adds nothing".     *)
RepetitionAddsNothing ==
  \A key \in Keys(db) :
    Cardinality({r \in db : r.key = key}) <= Cardinality(ShownAs(key))
=============================================================================
