---------------------------- MODULE LedgerProofs ----------------------------
(***************************************************************************)
(* Proofs about Ledger, for any clients, currencies, papers, dates, months *)
(* and bounds, if quantities are whole numbers.                            *)
(*                                                                         *)
(* LedgerInv says that, as long as no two requests have overlapped, the    *)
(* books are in order (BookFine) and what a request has checked still      *)
(* holds when it writes (Waiting).  The sums come first, for what was sold *)
(* of a lot is one; then, table by table, what inserts, edits and          *)
(* deletions leave of the order; then, handler by handler, that the checks *)
(* make a row ready to be written; last, the steps and the theorems.       *)
(***************************************************************************)
EXTENDS Ledger, FiniteSetTheorems, WellFoundedInduction, TLAPS

-----------------------------------------------------------------------------
(* A set of numbers that holds 0, and with each number the next, holds     *)
(* them all.                                                               *)
LEMMA Induct ==
  ASSUME NEW T, 0 \in T, \A k \in Nat : k \in T => k + 1 \in T
  PROVE  \A k \in Nat : k \in T
<1> DEFINE Bad == Nat \ T
<1>1. SUFFICES ASSUME Bad # {} PROVE FALSE
  OBVIOUS
<1>2. Bad \subseteq Nat
  OBVIOUS
<1>3. PICK k \in Bad : \A c \in Bad : ~ (<<c, k>> \in OpToRel(<, Nat))
  BY ONLY <1>1, <1>2, NatLessThanWellFounded, WFMin
<1>4. \A c \in Bad : ~ (c < k)
  BY <1>3 DEF OpToRel
<1>5. k # 0 /\ k \in Nat
  OBVIOUS
<1>6. k - 1 \in Nat /\ k - 1 < k
  BY <1>5
<1>7. k - 1 \in T
  BY <1>4, <1>6
<1>8. (k - 1) + 1 \in T
  BY <1>6, <1>7
<1> QED BY <1>5, <1>8

-----------------------------------------------------------------------------
(* What was sold: the sum of a finite set of rows does not depend on the    *)
(* order in which FoldSet takes them.                                       *)

(* A row of a set, the sum of a set with its row One counted last, and a   *)
(* function that gives each subset of U its sum.                           *)
One(s) == CHOOSE x \in s : TRUE
SumOf(g, s) == IF s = {} THEN 0 ELSE g[s \ {One(s)}] + One(s).qty
Sums(g, U) == \A s \in SUBSET U : g[s] = SumOf(g, s)

(* Of a nonempty finite set, One is a row, and without it the set has a    *)
(* row less.                                                               *)
LEMMA OneIs ==
  ASSUME NEW U, IsFiniteSet(U), NEW s \in SUBSET U, s # {}
  PROVE  /\ One(s) \in s /\ IsFiniteSet(s) /\ Cardinality(s) \in Nat
         /\ s \ {One(s)} \in SUBSET U
         /\ Cardinality(s \ {One(s)}) = Cardinality(s) - 1
         /\ Cardinality(s) > 0
<1>1. One(s) \in s
  BY DEF One
<1>2. IsFiniteSet(s) /\ Cardinality(s) \in Nat
  BY FS_Subset, FS_CardinalityType
<1>3. Cardinality(s \ {One(s)}) = Cardinality(s) - 1 /\ IsFiniteSet(s \ {One(s)})
  BY <1>1, <1>2, FS_RemoveElement
<1>4. Cardinality(s \ {One(s)}) \in Nat
  BY <1>3, FS_CardinalityType
<1> QED BY <1>1, <1>2, <1>3, <1>4

(* There is a function that gives each subset of a finite set its sum: the *)
(* equation by which a fold is defined has a solution.                     *)
LEMMA SumExists ==
  ASSUME NEW U, IsFiniteSet(U)
  PROVE  \E g : g = [s \in SUBSET U |-> SumOf(g, s)]
<1> DEFINE Good(g, n) == \A s \in SUBSET U : Cardinality(s) <= n => g[s] = SumOf(g, s)
           T == {n \in Nat : \E g : Good(g, n)}
<1>0. \A s \in SUBSET U : IsFiniteSet(s) /\ Cardinality(s) \in Nat
  BY FS_Subset, FS_CardinalityType
<1>1. 0 \in T
  <2> DEFINE g == [s \in SUBSET U |-> 0]
  <2>1. \A s \in SUBSET U : Cardinality(s) <= 0 => s = {}
    BY <1>0, FS_EmptySet
  <2>2. Good(g, 0)
    BY <2>1 DEF SumOf
  <2> QED BY <2>2
<1>2. \A n \in Nat : n \in T => n + 1 \in T
  <2> SUFFICES ASSUME NEW n \in T PROVE n + 1 \in T
    OBVIOUS
  <2>1. PICK g : Good(g, n)
    OBVIOUS
  <2> DEFINE h == [s \in SUBSET U |-> IF Cardinality(s) <= n THEN g[s] ELSE SumOf(g, s)]
  <2>2. ASSUME NEW s \in SUBSET U, Cardinality(s) <= n + 1 PROVE h[s] = SumOf(h, s)
    <3>1. h[s] = SumOf(g, s)
      BY <2>1
    <3>2. CASE s = {}
      BY <3>1, <3>2 DEF SumOf
    <3>3. CASE s # {}
      <4>1. s \ {One(s)} \in SUBSET U /\ Cardinality(s \ {One(s)}) <= n
        BY <2>2, <3>3, OneIs
      <4>2. h[s \ {One(s)}] = g[s \ {One(s)}]
        BY <4>1
      <4> QED BY <3>1, <4>2 DEF SumOf
    <3> QED BY <3>2, <3>3
  <2>3. Good(h, n + 1)
    BY <2>2
  <2> HIDE DEF h
  <2>4. \E k : Good(k, n + 1)
    BY <2>3
  <2>5. n + 1 \in Nat
    OBVIOUS
  <2> QED BY ONLY <2>4, <2>5 DEF T
<1>3. \A n \in Nat : n \in T
  BY <1>1, <1>2, Induct
<1>4. Cardinality(U) \in Nat
  BY FS_CardinalityType
<1>5. PICK g : Good(g, Cardinality(U))
  BY <1>3, <1>4
<1>6. \A s \in SUBSET U : Cardinality(s) <= Cardinality(U)
  BY FS_Subset
<1> DEFINE h == [s \in SUBSET U |-> g[s]]
<1>7. ASSUME NEW s \in SUBSET U PROVE h[s] = SumOf(h, s)
  <2>1. h[s] = SumOf(g, s)
    BY <1>5, <1>6
  <2>2. s \ {One(s)} \in SUBSET U
    OBVIOUS
  <2> QED BY <2>1, <2>2 DEF SumOf
<1>8. h = [s \in SUBSET U |-> SumOf(h, s)]
  BY <1>7
<1> QED BY <1>8

(* There is one such function only, whichever set of rows it is defined    *)
(* on.                                                                     *)
LEMMA SumsAgree ==
  ASSUME NEW U, IsFiniteSet(U), NEW S \in SUBSET U, NEW g, NEW h, Sums(g, U), Sums(h, S)
  PROVE  \A s \in SUBSET S : g[s] = h[s]
<1> DEFINE T == {n \in Nat : \A s \in SUBSET S : Cardinality(s) = n => g[s] = h[s]}
<1>0. IsFiniteSet(S)
  BY FS_Subset
<1>1. 0 \in T
  <2>1. \A s \in SUBSET S : Cardinality(s) = 0 => s = {}
    BY <1>0, FS_Subset, FS_EmptySet
  <2> QED BY <2>1 DEF Sums, SumOf
<1>2. \A n \in Nat : n \in T => n + 1 \in T
  <2> SUFFICES ASSUME NEW n \in T, NEW s \in SUBSET S, Cardinality(s) = n + 1
               PROVE  g[s] = h[s]
    OBVIOUS
  <2>1. s # {}
    BY FS_EmptySet
  <2>2. s \ {One(s)} \in SUBSET S /\ Cardinality(s \ {One(s)}) = n
    BY <1>0, <2>1, OneIs
  <2>3. g[s \ {One(s)}] = h[s \ {One(s)}]
    BY <2>2
  <2> QED BY <2>1, <2>3 DEF Sums, SumOf
<1>3. \A n \in Nat : n \in T
  BY <1>1, <1>2, Induct
<1>4. \A s \in SUBSET S : Cardinality(s) \in Nat
  BY <1>0, FS_Subset, FS_CardinalityType
<1> QED BY <1>3, <1>4

(* Total, a fold, is that function.                                        *)
LEMMA TotalIs ==
  ASSUME NEW U, IsFiniteSet(U), NEW g, Sums(g, U), NEW S \in SUBSET U
  PROVE  Total(S) = g[S]
<1>0. IsFiniteSet(S)
  BY FS_Subset
<1> DEFINE h == CHOOSE h : h = [s \in SUBSET S |-> SumOf(h, s)]
<1>1. h = [s \in SUBSET S |-> SumOf(h, s)]
  BY <1>0, SumExists
<1>2. Total(S) = h[S]
  BY DEF Total, FoldSet, MapThenFoldSet, SumOf, One
<1>3. Sums(h, S)
  BY <1>1 DEF Sums
<1> QED BY <1>2, <1>3, SumsAgree

(* The sums of a set of rows with quantities, whichever comes last. *)
Quantified(U) == IsFiniteSet(U) /\ \A x \in U : x.qty \in Nat

(* Sums of quantities are natural numbers.                                 *)
LEMMA SumNat ==
  ASSUME NEW U, Quantified(U), NEW g, Sums(g, U)
  PROVE  \A S \in SUBSET U : g[S] \in Nat
<1> DEFINE T == {n \in Nat : \A S \in SUBSET U : Cardinality(S) = n => g[S] \in Nat}
<1>0. IsFiniteSet(U) /\ g[{}] = 0
  BY DEF Quantified, Sums, SumOf
<1>1. 0 \in T
  <2>1. \A S \in SUBSET U : Cardinality(S) = 0 => S = {}
    BY <1>0, FS_Subset, FS_EmptySet
  <2> QED BY <2>1, <1>0
<1>2. \A n \in Nat : n \in T => n + 1 \in T
  <2> SUFFICES ASSUME NEW n \in Nat, n \in T, NEW S \in SUBSET U, Cardinality(S) = n + 1
               PROVE  g[S] \in Nat
    OBVIOUS
  <2>1. S # {}
    <3>1. Cardinality(S) # 0
      BY ONLY Cardinality(S) = n + 1, n \in Nat
    <3> QED BY <3>1, FS_EmptySet
  <2>2. /\ One(S) \in S /\ S \ {One(S)} \in SUBSET U /\ Cardinality(S \ {One(S)}) = n
        /\ One(S).qty \in Nat
    BY <1>0, <2>1, OneIs DEF Quantified
  <2>3. g[S] = g[S \ {One(S)}] + One(S).qty
    BY <2>1 DEF Sums, SumOf
  <2> QED BY <2>2, <2>3
<1>3. \A n \in Nat : n \in T
  BY <1>1, <1>2, Induct
<1>4. \A S \in SUBSET U : Cardinality(S) \in Nat
  BY <1>0, FS_Subset, FS_CardinalityType
<1> QED BY <1>3, <1>4

(* Any row of a set can be the one that is counted last.                   *)
AddsUp(g, U) == \A S \in SUBSET U : \A y \in U : y \in S => g[S] = g[S \ {y}] + y.qty

(* The sum of a set of rows is that of the set without a row, plus that    *)
(* row, whichever row that is.                                             *)
LEMMA TakesOne ==
  ASSUME NEW U, Quantified(U), NEW g, Sums(g, U)
  PROVE  AddsUp(g, U)
<1> DEFINE T == {n \in Nat : \A S \in SUBSET U : Cardinality(S) = n =>
                   \A y \in S : g[S] = g[S \ {y}] + y.qty}
<1>0. IsFiniteSet(U) /\ g[{}] = 0
  BY DEF Quantified, Sums, SumOf
<1>1. 0 \in T
  <2>1. \A S \in SUBSET U : Cardinality(S) = 0 => S = {}
    BY <1>0, FS_Subset, FS_EmptySet
  <2> QED BY <2>1, <1>0
<1>2. ASSUME NEW n \in Nat, n \in T PROVE n + 1 \in T
  <2>s. SUFFICES ASSUME NEW S \in SUBSET U, Cardinality(S) = n + 1
                 PROVE  \A y \in S : g[S] = g[S \ {y}] + y.qty
    OBVIOUS
  <2>h. \A R \in SUBSET U : Cardinality(R) = n => \A y \in R : g[R] = g[R \ {y}] + y.qty
    BY <1>2
  <2> HIDE DEF T
  <2>1. S # {}
    <3>1. Cardinality(S) # 0
      BY ONLY Cardinality(S) = n + 1, n \in Nat
    <3> QED BY <3>1, FS_EmptySet
  <2> DEFINE x == One(S)
  <2>2. /\ x \in S /\ S \ {x} \in SUBSET U /\ Cardinality(S \ {x}) = n /\ x.qty \in Nat
        /\ IsFiniteSet(S)
    <3>1. /\ x \in S /\ IsFiniteSet(S) /\ S \ {x} \in SUBSET U /\ Cardinality(S) \in Nat
          /\ Cardinality(S \ {x}) = Cardinality(S) - 1
      BY <1>0, <2>1, OneIs
    <3>2. Cardinality(S \ {x}) = n
      BY ONLY <3>1, Cardinality(S) = n + 1, n \in Nat
    <3> QED BY <3>1, <3>2 DEF Quantified
  <2>3. g[S] = g[S \ {x}] + x.qty
    BY <2>1 DEF Sums, SumOf
  <2>5. ASSUME NEW y \in S, y # x PROVE g[S] = g[S \ {y}] + y.qty
    <3>1. y \in S \ {x} /\ x \in S \ {y} /\ S \ {y} \in SUBSET U /\ y.qty \in Nat
      BY <2>2, <2>5 DEF Quantified
    <3>2. Cardinality(S \ {y}) = n
      BY <2>2, FS_RemoveElement
    <3>3. g[S \ {x}] = g[(S \ {x}) \ {y}] + y.qty
      BY <2>2, <2>h, <3>1
    <3>4. g[S \ {y}] = g[(S \ {y}) \ {x}] + x.qty
      BY <2>h, <3>1, <3>2
    <3>5. (S \ {x}) \ {y} = (S \ {y}) \ {x}
      OBVIOUS
    <3>6. g[(S \ {y}) \ {x}] \in Nat
      BY <3>1, SumNat
    <3>7. x.qty \in Nat /\ y.qty \in Nat
      BY <2>2, <3>1
    <3>8. \A a, b, c, d \in Nat : (c + b) + a = (c + a) + b
      OBVIOUS
    <3>9. g[S] = (g[(S \ {y}) \ {x}] + y.qty) + x.qty
      BY <2>3, <3>3, <3>5
    <3> QED BY ONLY <3>4, <3>6, <3>7, <3>8, <3>9
  <2> QED BY <2>3, <2>5
<1>3. \A n \in Nat : n \in T
  BY <1>1, <1>2, Induct
<1>4. \A S \in SUBSET U : Cardinality(S) \in Nat
  BY <1>0, FS_Subset, FS_CardinalityType
<1>5. \A S \in SUBSET U : \A y \in U : y \in S => g[S] = g[S \ {y}] + y.qty
  BY <1>3, <1>4
<1> QED BY <1>5 DEF AddsUp

(* So a set of rows adds up to what its parts add up to. *)
LEMMA Totals ==
  ASSUME NEW U, Quantified(U)
  PROVE  /\ Total({}) = 0
         /\ \A S \in SUBSET U : Total(S) \in Nat
         /\ \A S \in SUBSET U : \A y \in U : y \in S => Total(S) = Total(S \ {y}) + y.qty
<1>1. IsFiniteSet(U)
  BY DEF Quantified
<1>2. PICK g : g = [s \in SUBSET U |-> SumOf(g, s)]
  BY <1>1, SumExists
<1>3. Sums(g, U)
  BY <1>2 DEF Sums
<1>4. \A S \in SUBSET U : Total(S) = g[S]
  BY <1>1, <1>3, TotalIs
<1>5. g[{}] = 0
  BY <1>3 DEF Sums, SumOf
<1>6. (\A S \in SUBSET U : g[S] \in Nat)
      /\ \A S \in SUBSET U : \A y \in U : y \in S => g[S] = g[S \ {y}] + y.qty
  <2>1. \A S \in SUBSET U : g[S] \in Nat
    BY ONLY Quantified(U), <1>3, SumNat
  <2>2. \A S \in SUBSET U : \A y \in U : y \in S => g[S] = g[S \ {y}] + y.qty
    <3>1. AddsUp(g, U)
      BY <1>3, TakesOne
    <3> QED BY ONLY <3>1 DEF AddsUp
  <2> QED BY <2>1, <2>2
<1>7. \A S \in SUBSET U : \A y \in U : S \ {y} \in SUBSET U
  OBVIOUS
<1>8. {} \in SUBSET U
  OBVIOUS
<1> QED BY ONLY <1>4, <1>5, <1>6, <1>7, <1>8

(* What was sold in some of the sales is no more than what was sold in     *)
(* all.                                                                    *)
LEMMA FewerAreLess ==
  ASSUME NEW U, Quantified(U), NEW S \in SUBSET U
  PROVE  Total(S) <= Total(U)
<1> DEFINE T == {n \in Nat : \A s \in SUBSET U :
                   S \subseteq s /\ Cardinality(s) = n => Total(S) <= Total(s)}
<1>0. IsFiniteSet(U) /\ \A s \in SUBSET U : Total(s) \in Nat
  BY Totals DEF Quantified
<1>1. 0 \in T
  <2>1. \A s \in SUBSET U : Cardinality(s) = 0 => s = {}
    BY <1>0, FS_Subset, FS_EmptySet
  <2> QED BY <2>1, <1>0
<1>2. \A n \in Nat : n \in T => n + 1 \in T
  <2> SUFFICES ASSUME NEW n \in Nat, n \in T, NEW s \in SUBSET U, S \subseteq s,
                      Cardinality(s) = n + 1
               PROVE  Total(S) <= Total(s)
    OBVIOUS
  <2>1. CASE s = S
    BY <1>0, <2>1
  <2>2. CASE s # S
    <3>1. PICK y \in s : y \notin S
      BY <2>2
    <3>2. Cardinality(s \ {y}) = n /\ s \ {y} \in SUBSET U /\ S \subseteq s \ {y}
      <4>1. IsFiniteSet(s)
        BY <1>0, FS_Subset
      <4>2. Cardinality(s \ {y}) = Cardinality(s) - 1
        BY <4>1, FS_RemoveElement
      <4>3. Cardinality(s \ {y}) = n
        BY ONLY <4>2, Cardinality(s) = n + 1, n \in Nat
      <4> QED BY <3>1, <4>3
    <3>3. Total(S) <= Total(s \ {y})
      BY <3>2
    <3>4. Total(s) = Total(s \ {y}) + y.qty /\ y.qty \in Nat
      BY Totals DEF Quantified
    <3> QED BY <1>0, <3>2, <3>3, <3>4
  <2> QED BY <2>1, <2>2
<1>3. \A n \in Nat : n \in T
  BY <1>1, <1>2, Induct
<1>4. Cardinality(U) \in Nat
  BY <1>0, FS_CardinalityType
<1> QED BY <1>3, <1>4

-----------------------------------------------------------------------------
(* The books as requests leave them that come one after another.           *)

Columns ==
  [lots |-> {"qty", "currency"}, sales |-> {"lot", "qty", "currency"},
   reserve_ops |-> {"date", "amount", "currency", "loan"}, reserve_loans |-> {"op", "rate"},
   debts |-> {"kind", "currency", "card"}, debt_ops |-> {"debt", "read"},
   debt_marks |-> {"debt", "date", "read"},
   plan_flows |-> {"kind", "currency"}, plan_receipts |-> {"flow", "month", "currency"},
   term_deposits |-> {"currency"}, deposit_topups |-> {"deposit", "read"},
   npf_accounts |-> {"currency", "note"}, npf_ops |-> {"account", "read"},
   npf_nav |-> {"account", "date"}]

RowsFine ==
  /\ topic \in DOMAIN Tables /\ DOMAIN book = AllTables /\ DOMAIN given = AllTables
  /\ \A t \in AllTables :
       /\ given[t] \in Nat /\ (t \in {"sales", "debts"} => IsFiniteSet(book[t]))
       /\ \A r \in book[t] : DOMAIN r = Columns[t] \cup {"id"} /\ r.id \in 1..given[t]
       /\ \A r, s \in book[t] : r.id = s.id => r = s

PapersFine ==
  /\ \A l \in book["lots"] : l.qty \in Int /\ SoldFrom(l.id, 0) <= l.qty
  /\ \A s \in book["sales"] : s.qty \in Nat /\ s.lot \in 1..given["lots"]

(* No debts lie in each other: of any of them, one lies in none of them.   *)
Grounded ==
  \A C \in SUBSET Ids("debts") : C # {} => \E d \in book["debts"] : d.id \in C /\ d.card \notin C
DebtsFine ==
  /\ \A d \in book["debts"] : /\ d.kind = "card" => d.card = 0
                              /\ d.card = 0 \/ Has("debts", d.card)
  /\ Grounded

ReceiptsFine == \A r \in book["plan_receipts"] : r.flow \in 0..given["plan_flows"]

BookFine == RowsFine /\ PapersFine /\ DebtsFine /\ ReceiptsFine

(* What has been checked of a row that is about to be written. *)
Edit == {"update", "update but for the note"}
Excused(p) == p.do = "update" /\ p.table \in {"debt_marks", "deposit_topups"}
SameLoan(p) ==
  p.do = "update" /\ p.table = "reserve_loans" /\ \A l \in book["reserve_loans"] :
    l.id = p.row.id => l.op = p.row.op
Passes(t, r, except) ==
  /\ t = "lots" => r.qty \in Nat /\ (except # 0 => SoldFrom(except, 0) <= r.qty)
  /\ t = "sales" => /\ r.qty \in Nat /\ r.lot \in 1..given["lots"] /\ Has("lots", r.lot)
                    /\ SoldFrom(r.lot, except) + r.qty <= Row("lots", r.lot).qty
  /\ t = "debts" => (r.kind = "card" => r.card = 0) /\ (except # 0 => r.card # except)
  /\ t = "plan_receipts" => r.flow \in 0..given["plan_flows"]
Ready(p) ==
  /\ p.table \in Tables[topic] /\ p.do \in {"insert", "upsert"} \cup Edit
  /\ p.do = "upsert" => p.table \in {"debt_marks", "npf_nav"}
  /\ IF p.do \in Edit
       THEN /\ DOMAIN p.row = Columns[p.table] \cup {"id"} /\ p.row.id \in Nat \ {0}
            /\ Passes(p.table, p.row, p.row.id)
       ELSE DOMAIN p.row = Columns[p.table] /\ Passes(p.table, p.row, 0)
  /\ Agrees(p.table, p.row) \/ Excused(p) \/ SameLoan(p)
  /\ p.do = "update but for the note" =>
       p.table = "npf_accounts" /\ \A a \in book["npf_accounts"] : a.id = p.row.id => a.note = p.row.note

Waiting ==
  /\ DOMAIN pending = Clients
  /\ \A c \in Clients : pending[c] # Nothing =>
       Ready(pending[c]) /\ \A d \in Clients : pending[d] # Nothing => d = c
LedgerInv == overlapped \in BOOLEAN /\ (~overlapped => BookFine /\ Waiting)

-----------------------------------------------------------------------------
(* Rows and tables. *)

(* The tables of the six topics.                                           *)
LEMMA AllTablesAre ==
  /\ AllTables = {"lots", "sales", "reserve_ops", "reserve_loans", "debts", "debt_ops",
       "debt_marks", "plan_flows", "plan_receipts", "term_deposits", "deposit_topups",
       "npf_accounts", "npf_ops", "npf_nav"}
  /\ \A u \in DOMAIN Tables : Tables[u] \subseteq AllTables
<1>1. DOMAIN Tables = {"papers", "cushion", "debts", "plan", "savings", "pension"}
  BY DEF Tables
<1>2. /\ Tables["papers"] = {"lots", "sales"}
      /\ Tables["cushion"] = {"reserve_ops", "reserve_loans"}
      /\ Tables["debts"] = {"debts", "debt_ops", "debt_marks"}
      /\ Tables["plan"] = {"plan_flows", "plan_receipts"}
      /\ Tables["savings"] = {"term_deposits", "deposit_topups"}
      /\ Tables["pension"] = {"npf_accounts", "npf_ops", "npf_nav"}
  BY DEF Tables
<1>3. AllTables = UNION {Tables["papers"], Tables["cushion"], Tables["debts"], Tables["plan"],
                         Tables["savings"], Tables["pension"]}
  BY <1>1 DEF AllTables
<1>4. AllTables = {"lots", "sales", "reserve_ops", "reserve_loans", "debts", "debt_ops",
       "debt_marks", "plan_flows", "plan_receipts", "term_deposits", "deposit_topups",
       "npf_accounts", "npf_ops", "npf_nav"}
  BY <1>2, <1>3
<1>5. \A u \in DOMAIN Tables : Tables[u] \subseteq AllTables
  BY DEF AllTables
<1> QED BY <1>4, <1>5

(* The row with the id of a row of the table is that row.                  *)
LEMMA RowIs ==
  ASSUME RowsFine, NEW t \in AllTables, NEW r \in book[t]
  PROVE  Has(t, r.id) /\ Row(t, r.id) = r
<1>1. \A s \in book[t] : s.id = r.id => s = r
  BY DEF RowsFine
<1> QED BY <1>1 DEF Has, Row

(* If a table has an id, its row with that id is one of its rows.          *)
LEMMA HasIs ==
  ASSUME NEW t, NEW id, Has(t, id)
  PROVE  Row(t, id) \in book[t] /\ Row(t, id).id = id
BY DEF Has, Row

(* A row that is given an id keeps its other columns.                      *)
LEMMA WithIdIs ==
  ASSUME NEW r, NEW i, "id" \notin DOMAIN r
  PROVE  /\ DOMAIN WithId(r, i) = DOMAIN r \cup {"id"} /\ WithId(r, i).id = i
         /\ \A f \in DOMAIN r : WithId(r, i)[f] = r[f]
BY DEF WithId, With

(* What a request carries has no id yet.                                   *)
LEMMA NoIdColumn == \A t \in AllTables : "id" \notin Columns[t]
BY AllTablesAre DEF Columns

(* An INSERT. *)
LEMMA InsertRows ==
  ASSUME RowsFine, NEW t \in AllTables, NEW r, DOMAIN r = Columns[t], Insert(t, r), topic' = topic
  PROVE  LET n == WithId(r, given[t] + 1) IN
         /\ RowsFine' /\ n.id = given[t] + 1 /\ \A f \in Columns[t] : n[f] = r[f]
         /\ book'[t] = book[t] \cup {n} /\ n \notin book[t] /\ given'[t] = given[t] + 1
         /\ \A u \in AllTables \ {t} : book'[u] = book[u] /\ given'[u] = given[u]
<1> DEFINE n == WithId(r, given[t] + 1)
<1>1. DOMAIN n = Columns[t] \cup {"id"} /\ n.id = given[t] + 1 /\ \A f \in Columns[t] : n[f] = r[f]
  <2>1. "id" \notin DOMAIN r
    BY NoIdColumn
  <2>2. PICK i : i = given[t] + 1
    OBVIOUS
  <2>3. /\ DOMAIN WithId(r, i) = DOMAIN r \cup {"id"} /\ WithId(r, i).id = i
        /\ \A f \in DOMAIN r : WithId(r, i)[f] = r[f]
    BY <2>1 DEF WithId, With
  <2> QED BY ONLY DOMAIN r = Columns[t], <2>2, <2>3
<1>2. DOMAIN book = AllTables /\ DOMAIN given = AllTables /\ given[t] \in Nat
  BY DEF RowsFine
<1>3. /\ DOMAIN book' = AllTables /\ DOMAIN given' = AllTables
      /\ book'[t] = book[t] \cup {n} /\ given'[t] = given[t] + 1
      /\ \A u \in AllTables \ {t} : book'[u] = book[u] /\ given'[u] = given[u]
  BY <1>2 DEF Insert
<1>4. /\ \A s \in book[t] : DOMAIN s = Columns[t] \cup {"id"} /\ s.id \in 1..given[t]
      /\ \A s, q \in book[t] : s.id = q.id => s = q
  BY DEF RowsFine
<1>5. n \notin book[t]
  BY <1>1, <1>2, <1>4
<1> HIDE DEF n
<1>6. ASSUME NEW u \in AllTables
      PROVE  /\ given'[u] \in Nat /\ (u \in {"sales", "debts"} => IsFiniteSet(book'[u]))
             /\ \A s \in book'[u] : DOMAIN s = Columns[u] \cup {"id"} /\ s.id \in 1..given'[u]
             /\ \A s, q \in book'[u] : s.id = q.id => s = q
  <2>1. CASE u # t
    BY <1>3, <2>1 DEF RowsFine
  <2>2. CASE u = t
    <3>1. given'[u] \in Nat
      BY <1>2, <1>3, <2>2
    <3>2. u \in {"sales", "debts"} => IsFiniteSet(book'[u])
      <4>1. u \in {"sales", "debts"} => IsFiniteSet(book[t])
        BY <2>2 DEF RowsFine
      <4> QED BY <1>3, <2>2, <4>1, FS_AddElement
    <3>3. \A s \in book'[u] : DOMAIN s = Columns[u] \cup {"id"} /\ s.id \in 1..given'[u]
      <4> SUFFICES ASSUME NEW s \in book'[t]
                   PROVE  DOMAIN s = Columns[t] \cup {"id"} /\ s.id \in 1..given'[t]
        BY <2>2
      <4>1. s = n \/ s \in book[t]
        BY <1>3
      <4>2. CASE s = n
        BY <1>1, <1>2, <1>3, <4>2
      <4>3. CASE s \in book[t]
        <5>1. DOMAIN s = Columns[t] \cup {"id"} /\ s.id \in 1..given[t]
          BY <1>4, <4>3
        <5>2. 1..given[t] \subseteq 1..(given[t] + 1)
          BY <1>2
        <5> QED BY ONLY <1>3, <5>1, <5>2
      <4> QED BY <4>1, <4>2, <4>3
    <3>4. \A s, q \in book'[u] : s.id = q.id => s = q
      <4> SUFFICES ASSUME NEW s \in book'[t], NEW q \in book'[t], s.id = q.id PROVE s = q
        BY <2>2
      <4>1. (s = n \/ s \in book[t]) /\ (q = n \/ q \in book[t])
        BY <1>3
      <4>2. \A x \in book[t] : x.id # n.id
        BY <1>1, <1>2, <1>4
      <4> QED BY <1>4, <4>1, <4>2
    <3> QED BY <3>1, <3>2, <3>3, <3>4
  <2> QED BY <2>1, <2>2
<1>7. RowsFine'
  BY <1>3, <1>6 DEF RowsFine
<1> QED BY <1>1, <1>3, <1>5, <1>7 DEF n

(* An UPDATE. *)
LEMMA ReplaceRows ==
  ASSUME RowsFine, NEW t \in AllTables, NEW n, DOMAIN n = Columns[t] \cup {"id"}, Has(t, n.id),
         book' = Replace(t, n), given' = given, topic' = topic
  PROVE  /\ RowsFine' /\ book'[t] = (book[t] \ {Row(t, n.id)}) \cup {n}
         /\ \A s \in book'[t] : s = n \/ (s \in book[t] /\ s.id # n.id)
         /\ \A u \in AllTables \ {t} : book'[u] = book[u]
<1> DEFINE o == Row(t, n.id)
<1>1. o \in book[t] /\ o.id = n.id
  BY HasIs
<1>2. DOMAIN book = AllTables
  BY DEF RowsFine
<1>3. /\ DOMAIN book' = AllTables
      /\ book'[t] = {IF s.id = n.id THEN n ELSE s : s \in book[t]}
      /\ \A u \in AllTables \ {t} : book'[u] = book[u]
  BY <1>2 DEF Replace
<1>4. \A s \in book[t] : s.id = n.id <=> s = o
  BY <1>1 DEF RowsFine
<1> HIDE DEF o
<1>5. book'[t] = (book[t] \ {o}) \cup {n}
  BY <1>1, <1>3, <1>4
<1>6. ASSUME NEW u \in AllTables
      PROVE  /\ given[u] \in Nat /\ (u \in {"sales", "debts"} => IsFiniteSet(book'[u]))
             /\ \A s \in book'[u] : DOMAIN s = Columns[u] \cup {"id"} /\ s.id \in 1..given[u]
             /\ \A s, q \in book'[u] : s.id = q.id => s = q
  <2>1. CASE u # t
    BY <1>3, <2>1 DEF RowsFine
  <2>2. CASE u = t
    <3>1. given[u] \in Nat
      BY DEF RowsFine
    <3>2. u \in {"sales", "debts"} => IsFiniteSet(book'[u])
      <4>1. u \in {"sales", "debts"} => IsFiniteSet(book[t])
        BY <2>2 DEF RowsFine
      <4>2. IsFiniteSet(book[t]) => IsFiniteSet((book[t] \ {o}) \cup {n})
        <5>1. ASSUME IsFiniteSet(book[t]) PROVE IsFiniteSet(book[t] \ {o})
          BY <5>1, FS_RemoveElement
        <5>2. ASSUME IsFiniteSet(book[t] \ {o}) PROVE IsFiniteSet((book[t] \ {o}) \cup {n})
          BY <5>2, FS_AddElement
        <5> QED BY <5>1, <5>2
      <4> QED BY ONLY <1>5, <2>2, <4>1, <4>2
    <3>3. \A s \in book'[u] : DOMAIN s = Columns[u] \cup {"id"} /\ s.id \in 1..given[u]
      BY <1>1, <1>5, <2>2 DEF RowsFine
    <3>4. \A s, q \in book'[u] : s.id = q.id => s = q
      BY <1>1, <1>4, <1>5, <2>2 DEF RowsFine
    <3> QED BY <3>1, <3>2, <3>3, <3>4
  <2> QED BY <2>1, <2>2
<1>7. RowsFine'
  BY <1>3, <1>6 DEF RowsFine
<1>8. \A s \in book'[t] : s = n \/ (s \in book[t] /\ s.id # n.id)
  BY <1>4, <1>5
<1> QED BY <1>3, <1>5, <1>7, <1>8 DEF o

(* A DELETE. *)
LEMMA FewerRows ==
  ASSUME RowsFine, DOMAIN book' = AllTables, given' = given, topic' = topic,
         \A t \in AllTables : book'[t] \subseteq book[t]
  PROVE  RowsFine'
<1> SUFFICES ASSUME NEW u \in AllTables
             PROVE  /\ given[u] \in Nat /\ (u \in {"sales", "debts"} => IsFiniteSet(book'[u]))
                    /\ \A s \in book'[u] : DOMAIN s = Columns[u] \cup {"id"} /\ s.id \in 1..given[u]
                    /\ \A s, q \in book'[u] : s.id = q.id => s = q
  BY DEF RowsFine
<1>1. book'[u] \subseteq book[u]
  OBVIOUS
<1>2. u \in {"sales", "debts"} => IsFiniteSet(book'[u])
  <2>1. u \in {"sales", "debts"} => IsFiniteSet(book[u])
    BY DEF RowsFine
  <2> QED BY <1>1, <2>1, FS_Subset
<1> QED BY <1>1, <1>2 DEF RowsFine

-----------------------------------------------------------------------------
(* A row agrees with the row it refers to, as long as that is the same.    *)

(* The table a row refers to, the column that does, the row's parent, and  *)
(* the tables rows refer to.                                               *)
OwnerOf ==
  [sales |-> "lots", reserve_loans |-> "reserve_ops", debts |-> "debts", debt_ops |-> "debts",
   debt_marks |-> "debts", deposit_topups |-> "term_deposits", npf_ops |-> "npf_accounts",
   plan_receipts |-> "plan_flows"]
RefOf ==
  [sales |-> "lot", reserve_loans |-> "op", debts |-> "card", debt_ops |-> "debt",
   debt_marks |-> "debt", deposit_topups |-> "deposit", npf_ops |-> "account",
   plan_receipts |-> "flow"]
Owner(t, r) == r[RefOf[t]]
OwnerTables ==
  {"lots", "reserve_ops", "debts", "plan_flows", "term_deposits", "npf_accounts"}

(* Which tables refer to which.                                            *)
LEMMA Owners ==
  /\ DOMAIN OwnerOf = {"sales", "reserve_loans", "debts", "debt_ops", "debt_marks",
                       "deposit_topups", "npf_ops", "plan_receipts"}
  /\ \A t \in DOMAIN OwnerOf : OwnerOf[t] \in OwnerTables
  /\ OwnerTables \subseteq AllTables /\ DOMAIN OwnerOf \subseteq AllTables
<1>1. DOMAIN OwnerOf = {"sales", "reserve_loans", "debts", "debt_ops", "debt_marks",
                       "deposit_topups", "npf_ops", "plan_receipts"}
  BY DEF OwnerOf
<1>2. \A t \in DOMAIN OwnerOf : OwnerOf[t] \in OwnerTables
  BY DEF OwnerOf, OwnerTables
<1> QED BY <1>1, <1>2, AllTablesAre DEF OwnerTables

(* A parent that is there before and after a step that edits no such row   *)
(* is the same row.                                                        *)
LEMMA OwnerSame ==
  ASSUME RowsFine, RowsFine', ~EditsARowOthersReferTo, NEW t \in OwnerTables,
         NEW id \in Ids(t), id \in Ids(t)'
  PROVE  Has(t, id) /\ Has(t, id)' /\ Row(t, id)' = Row(t, id)
<1>1. t \in AllTables
  BY Owners
<1>2. PICK o \in book[t] : o.id = id
  BY DEF Ids
<1>3. PICK n \in book'[t] : n.id = id
  BY DEF Ids
<1>4. o = n
  BY <1>2, <1>3 DEF EditsARowOthersReferTo, OwnerTables
<1>5. \A s \in book[t] : s.id = id => s = o
  BY <1>1, <1>2 DEF RowsFine
<1>6. \A s \in book'[t] : s.id = id => s = n
  BY <1>1, <1>3 DEF RowsFine
<1>7. Row(t, id) = o
  BY <1>2, <1>5 DEF Row
<1>8. Row(t, id)' = n
  BY <1>3, <1>6 DEF Row
<1> QED BY <1>2, <1>3, <1>4, <1>7, <1>8 DEF Has

(* A table has the ids of its rows.                                        *)
LEMMA HasIds == \A t, id : Has(t, id) <=> id \in Ids(t)
BY DEF Has, Ids

(* A row that agrees with its parent goes on doing so while no parent is   *)
(* edited and none that is named goes; a receipt's source of income may    *)
(* go, but must not come.                                                  *)
LEMMA AgreesStays ==
  ASSUME RowsFine, RowsFine', ~EditsARowOthersReferTo, NEW t \in AllTables, NEW r, Agrees(t, r),
         t \in DOMAIN OwnerOf /\ t # "plan_receipts" =>
           (Owner(t, r) \in Ids(OwnerOf[t]) => Owner(t, r) \in Ids(OwnerOf[t])'),
         t = "plan_receipts" =>
           (r.flow \in Ids("plan_flows")' => r.flow \in Ids("plan_flows"))
  PROVE  Agrees(t, r)'
<1>1. CASE t = "sales"
  <2>1. OwnerOf[t] = "lots" /\ Owner(t, r) = r.lot /\ t \in DOMAIN OwnerOf
    BY <1>1 DEF OwnerOf, RefOf, Owner
  <2>2. Has("lots", r.lot) /\ r.currency = Row("lots", r.lot).currency
    BY <1>1 DEF Agrees
  <2>3. r.lot \in Ids("lots") /\ r.lot \in Ids("lots")'
    BY <1>1, <2>1, <2>2, HasIds
  <2>4. Has("lots", r.lot)' /\ Row("lots", r.lot)' = Row("lots", r.lot)
    BY <2>3, OwnerSame DEF OwnerTables
  <2> QED BY <1>1, <2>2, <2>4 DEF Agrees
<1>2. CASE t = "reserve_loans"
  <2>1. OwnerOf[t] = "reserve_ops" /\ Owner(t, r) = r.op /\ t \in DOMAIN OwnerOf
    BY <1>2 DEF OwnerOf, RefOf, Owner
  <2>2. Has("reserve_ops", r.op) /\ Row("reserve_ops", r.op).amount < 0
    BY <1>2 DEF Agrees, IsWithdrawal
  <2>3. r.op \in Ids("reserve_ops") /\ r.op \in Ids("reserve_ops")'
    BY <1>2, <2>1, <2>2, HasIds
  <2>4. Has("reserve_ops", r.op)' /\ Row("reserve_ops", r.op)' = Row("reserve_ops", r.op)
    BY <2>3, OwnerSame DEF OwnerTables
  <2> QED BY <1>2, <2>2, <2>4 DEF Agrees, IsWithdrawal
<1>3. CASE t = "debts"
  <2>1. OwnerOf[t] = "debts" /\ Owner(t, r) = r.card /\ t \in DOMAIN OwnerOf
    BY <1>3 DEF OwnerOf, RefOf, Owner
  <2>2. checkDebtParent(r)
    BY <1>3 DEF Agrees
  <2>3. CASE r.card = 0
    BY <1>3, <2>3 DEF Agrees, checkDebtParent
  <2>4. CASE r.card # 0
    <3>1. Has("debts", r.card) /\ Row("debts", r.card).kind = "card"
          /\ Row("debts", r.card).currency = r.currency
      BY <2>2, <2>4 DEF checkDebtParent, IsCard
    <3>2. r.card \in Ids("debts") /\ r.card \in Ids("debts")'
      BY <1>3, <2>1, <3>1, HasIds
    <3>3. Has("debts", r.card)' /\ Row("debts", r.card)' = Row("debts", r.card)
      BY <3>2, OwnerSame DEF OwnerTables
    <3> QED BY <1>3, <3>1, <3>3 DEF Agrees, checkDebtParent, IsCard
  <2> QED BY <2>3, <2>4
<1>4. CASE t \in {"debt_ops", "debt_marks"}
  <2>1. OwnerOf[t] = "debts" /\ Owner(t, r) = r.debt /\ t \in DOMAIN OwnerOf
    BY <1>4 DEF OwnerOf, RefOf, Owner
  <2>2. Has("debts", r.debt) /\ r.read = Row("debts", r.debt).currency
    BY <1>4 DEF Agrees, debtCurrency
  <2>3. r.debt \in Ids("debts") /\ r.debt \in Ids("debts")'
    BY <1>4, <2>1, <2>2, HasIds
  <2>4. Has("debts", r.debt)' /\ Row("debts", r.debt)' = Row("debts", r.debt)
    BY <2>3, OwnerSame DEF OwnerTables
  <2> QED BY <1>4, <2>2, <2>4 DEF Agrees, debtCurrency
<1>5. CASE t = "deposit_topups"
  <2>1. OwnerOf[t] = "term_deposits" /\ Owner(t, r) = r.deposit /\ t \in DOMAIN OwnerOf
    BY <1>5 DEF OwnerOf, RefOf, Owner
  <2>2. Has("term_deposits", r.deposit) /\ r.read = Row("term_deposits", r.deposit).currency
    BY <1>5 DEF Agrees
  <2>3. r.deposit \in Ids("term_deposits") /\ r.deposit \in Ids("term_deposits")'
    BY <1>5, <2>1, <2>2, HasIds
  <2>4. Has("term_deposits", r.deposit)' /\ Row("term_deposits", r.deposit)' = Row("term_deposits", r.deposit)
    BY <2>3, OwnerSame DEF OwnerTables
  <2> QED BY <1>5, <2>2, <2>4 DEF Agrees
<1>6. CASE t = "npf_ops"
  <2>1. OwnerOf[t] = "npf_accounts" /\ Owner(t, r) = r.account /\ t \in DOMAIN OwnerOf
    BY <1>6 DEF OwnerOf, RefOf, Owner
  <2>2. Has("npf_accounts", r.account) /\ r.read = Row("npf_accounts", r.account).currency
    BY <1>6 DEF Agrees
  <2>3. r.account \in Ids("npf_accounts") /\ r.account \in Ids("npf_accounts")'
    BY <1>6, <2>1, <2>2, HasIds
  <2>4. Has("npf_accounts", r.account)' /\ Row("npf_accounts", r.account)' = Row("npf_accounts", r.account)
    BY <2>3, OwnerSame DEF OwnerTables
  <2> QED BY <1>6, <2>2, <2>4 DEF Agrees
<1>7. CASE t = "plan_receipts"
  <2>1. \A f \in book["plan_flows"] : f.id = r.flow => f.kind = "income" /\ r.currency = f.currency
    BY <1>7 DEF Agrees
  <2>2. ASSUME NEW f \in book'["plan_flows"], f.id = r.flow
        PROVE  f.kind = "income" /\ r.currency = f.currency
    <3>1. r.flow \in Ids("plan_flows")'
      BY <2>2 DEF Ids
    <3>2. PICK g \in book["plan_flows"] : g.id = r.flow
      BY <1>7, <3>1 DEF Ids
    <3>3. g = f
      BY <2>2, <3>2 DEF EditsARowOthersReferTo
    <3> QED BY <2>1, <3>2, <3>3
  <2> QED BY <1>7, <2>2 DEF Agrees
<1>8. CASE t \in {"lots", "reserve_ops", "plan_flows", "term_deposits", "npf_accounts", "npf_nav"}
  BY <1>8 DEF Agrees
<1> QED BY <1>1, <1>2, <1>3, <1>4, <1>5, <1>6, <1>7, <1>8, AllTablesAre

(* Whether a row agrees is told by its columns, not by its id.             *)
LEMMA AgreesSame ==
  ASSUME NEW t \in AllTables, NEW r, NEW n, \A f \in Columns[t] : n[f] = r[f]
  PROVE  Agrees(t, n) <=> Agrees(t, r)
<1>1. CASE t = "sales"
  <2>1. n.lot = r.lot /\ n.currency = r.currency
    BY <1>1 DEF Columns
  <2> QED BY <1>1, <2>1 DEF Agrees
<1>2. CASE t = "reserve_loans"
  <2>1. n.op = r.op
    BY <1>2 DEF Columns
  <2> QED BY <1>2, <2>1 DEF Agrees
<1>3. CASE t = "debts"
  <2>1. n.card = r.card /\ n.currency = r.currency
    BY <1>3 DEF Columns
  <2> QED BY <1>3, <2>1 DEF Agrees, checkDebtParent
<1>4. CASE t \in {"debt_ops", "debt_marks"}
  <2>1. n.debt = r.debt /\ n.read = r.read
    BY <1>4 DEF Columns
  <2> QED BY <1>4, <2>1 DEF Agrees
<1>5. CASE t = "deposit_topups"
  <2>1. n.deposit = r.deposit /\ n.read = r.read
    BY <1>5 DEF Columns
  <2> QED BY <1>5, <2>1 DEF Agrees
<1>6. CASE t = "npf_ops"
  <2>1. n.account = r.account /\ n.read = r.read
    BY <1>6 DEF Columns
  <2> QED BY <1>6, <2>1 DEF Agrees
<1>7. CASE t = "plan_receipts"
  <2>1. n.flow = r.flow /\ n.currency = r.currency
    BY <1>7 DEF Columns
  <2> QED BY <1>7, <2>1 DEF Agrees
<1>8. CASE t \in {"lots", "reserve_ops", "plan_flows", "term_deposits", "npf_accounts", "npf_nav"}
  BY <1>8 DEF Agrees
<1> QED BY <1>1, <1>2, <1>3, <1>4, <1>5, <1>6, <1>7, <1>8, AllTablesAre

(* If whatever does not agree after a step did not agree before it, there  *)
(* is no new misfit.                                                       *)
LEMMA NoNewMisfits ==
  ASSUME topic' = topic, topic \in DOMAIN Tables,
         \A t \in Tables[topic] : \A n \in book'[t] :
           Agrees(t, n)' \/ \E o \in book[t] : o.id = n.id /\ ~Agrees(t, o)
  PROVE  MisfitIds' \subseteq MisfitIds
<1> SUFFICES ASSUME NEW m \in Misfits' PROVE <<m[1], m[2].id>> \in MisfitIds
  BY DEF MisfitIds
<1>0. PICK t \in Tables[topic] : m \in {t} \X book'[t] /\ ~Agrees(m[1], m[2])'
  BY DEF Misfits
<1>1. PICK n \in book'[t] : m = <<t, n>> /\ ~Agrees(t, n)'
  BY <1>0
<1>2. PICK o \in book[t] : o.id = n.id /\ ~Agrees(t, o)
  BY <1>1
<1>3. <<t, o>> \in Misfits
  BY <1>2 DEF Misfits
<1>4. <<t, o.id>> \in MisfitIds
  BY <1>3 DEF MisfitIds
<1> QED BY <1>1, <1>2, <1>4

-----------------------------------------------------------------------------
(* Lots and what was sold of them. *)

(* The sales of a lot, but for one.                                        *)
SalesOf(lot, except) == {s \in book["sales"] : s.lot = lot /\ s.id # except}

(* What was sold of a lot is the sum of a finite set of quantities.        *)
LEMMA SalesCount ==
  ASSUME RowsFine, PapersFine, NEW lot, NEW except
  PROVE  /\ Quantified(SalesOf(lot, except)) /\ SoldFrom(lot, except) = Total(SalesOf(lot, except))
         /\ SoldFrom(lot, except) \in Nat
<1>1. IsFiniteSet(book["sales"])
  BY AllTablesAre DEF RowsFine
<1>2. SalesOf(lot, except) \in SUBSET book["sales"]
  BY DEF SalesOf
<1>3. Quantified(SalesOf(lot, except))
  BY <1>1, <1>2, FS_Subset DEF Quantified, PapersFine
<1>4. SoldFrom(lot, except) = Total(SalesOf(lot, except))
  BY DEF SoldFrom, SalesOf
<1> QED BY <1>3, <1>4, Totals

(* A new row adds its quantity to the sum.                                 *)
LEMMA PlusOne ==
  ASSUME NEW S, Quantified(S), NEW n, n.qty \in Nat, n \notin S
  PROVE  Total(S \cup {n}) = Total(S) + n.qty
<1>1. Quantified(S \cup {n})
  BY FS_AddElement DEF Quantified
<1>2. Total(S \cup {n}) = Total((S \cup {n}) \ {n}) + n.qty
  BY <1>1, Totals
<1>3. (S \cup {n}) \ {n} = S
  OBVIOUS
<1> QED BY <1>2, <1>3

(* Whoever leaves lots and sales alone keeps PapersFine.                   *)
LEMMA PapersSame ==
  ASSUME PapersFine, book'["sales"] = book["sales"], book'["lots"] = book["lots"],
         given'["lots"] = given["lots"]
  PROVE  PapersFine'
BY DEF PapersFine, SoldFrom

(* A new lot has no sales yet, since no sale names an id not given out; a  *)
(* new sale has been found to fit into its lot.                            *)
LEMMA InsertPapers ==
  ASSUME RowsFine, PapersFine, NEW t \in AllTables, NEW r, DOMAIN r = Columns[t],
         Insert(t, r), topic' = topic, Passes(t, r, 0)
  PROVE  PapersFine'
<1> DEFINE n == WithId(r, given[t] + 1)
<1>1. /\ RowsFine' /\ n.id = given[t] + 1 /\ \A f \in Columns[t] : n[f] = r[f]
      /\ book'[t] = book[t] \cup {n} /\ n \notin book[t] /\ given'[t] = given[t] + 1
      /\ \A u \in AllTables \ {t} : book'[u] = book[u] /\ given'[u] = given[u]
  BY InsertRows
<1>2. given["lots"] \in Nat /\ "lots" \in AllTables /\ "sales" \in AllTables
  BY AllTablesAre DEF RowsFine
<1> HIDE DEF n
<1>3. CASE t = "lots"
  <2>1. n.qty = r.qty /\ r.qty \in Nat
    BY <1>1, <1>3 DEF Columns, Passes
  <2>2. book'["sales"] = book["sales"]
    BY <1>1, <1>2, <1>3
  <2>3. \A id : SoldFrom(id, 0)' = SoldFrom(id, 0)
    BY <2>2 DEF SoldFrom
  <2>4. SoldFrom(n.id, 0) = 0
    <3>1. SalesOf(n.id, 0) = {}
      BY <1>1, <1>2, <1>3 DEF SalesOf, PapersFine
    <3> QED BY <3>1, SalesCount, Totals
  <2>5. ASSUME NEW l \in book'["lots"] PROVE l.qty \in Int /\ SoldFrom(l.id, 0)' <= l.qty
    <3>1. CASE l = n
      BY <2>1, <2>3, <2>4, <3>1
    <3>2. CASE l \in book["lots"]
      BY <2>3, <3>2 DEF PapersFine
    <3> QED BY <1>1, <1>3, <3>1, <3>2
  <2>6. ASSUME NEW s \in book'["sales"] PROVE s.qty \in Nat /\ s.lot \in 1..given'["lots"]
    <3>1. s.qty \in Nat /\ s.lot \in 1..given["lots"]
      BY <2>2 DEF PapersFine
    <3> QED BY <1>1, <1>2, <1>3, <3>1
  <2> QED BY <2>5, <2>6 DEF PapersFine
<1>4. CASE t = "sales"
  <2>1. /\ n.qty = r.qty /\ n.lot = r.lot /\ r.qty \in Nat /\ r.lot \in 1..given["lots"]
        /\ SoldFrom(r.lot, 0) + r.qty <= Row("lots", r.lot).qty
    BY <1>1, <1>4 DEF Columns, Passes
  <2>2. book'["lots"] = book["lots"] /\ given'["lots"] = given["lots"]
    BY <1>1, <1>2, <1>4
  <2>3. ASSUME NEW l \in book["lots"] PROVE SoldFrom(l.id, 0)' <= l.qty
    <3>1. SoldFrom(l.id, 0)' = Total({s \in book'["sales"] : s.lot = l.id /\ s.id # 0})
      BY DEF SoldFrom
    <3>2. n.id # 0
      BY <1>1, <1>2, <1>4, AllTablesAre DEF RowsFine
    <3>3. CASE l.id = r.lot
      <4>1. {s \in book'["sales"] : s.lot = l.id /\ s.id # 0} = SalesOf(l.id, 0) \cup {n}
        BY <1>1, <1>4, <2>1, <3>2, <3>3 DEF SalesOf
      <4>2. n \notin SalesOf(l.id, 0)
        BY <1>1, <1>4 DEF SalesOf
      <4>3. SoldFrom(l.id, 0)' = SoldFrom(l.id, 0) + r.qty
        BY <2>1, <3>1, <4>1, <4>2, PlusOne, SalesCount
      <4>4. Row("lots", r.lot) = l
        BY <1>2, <3>3, RowIs
      <4> QED BY <2>1, <3>3, <4>3, <4>4
    <3>4. CASE l.id # r.lot
      <4>1. {s \in book'["sales"] : s.lot = l.id /\ s.id # 0} = SalesOf(l.id, 0)
        BY <1>1, <1>4, <2>1, <3>4 DEF SalesOf
      <4>2. SoldFrom(l.id, 0)' = SoldFrom(l.id, 0)
        BY <3>1, <4>1, SalesCount
      <4> QED BY <4>2 DEF PapersFine
    <3> QED BY <3>3, <3>4
  <2>4. ASSUME NEW s \in book'["sales"] PROVE s.qty \in Nat /\ s.lot \in 1..given["lots"]
    BY <1>1, <1>4, <2>1 DEF PapersFine
  <2> QED BY <2>2, <2>3, <2>4 DEF PapersFine
<1>5. CASE t \notin {"lots", "sales"}
  BY <1>1, <1>2, <1>5, PapersSame
<1> QED BY <1>3, <1>4, <1>5

(* A lot that is edited still covers what was sold of it, and a sale that  *)
(* is edited has been found to fit with the other sales of its lot.        *)
LEMMA ReplacePapers ==
  ASSUME RowsFine, PapersFine, NEW t \in AllTables, NEW n, DOMAIN n = Columns[t] \cup {"id"},
         Has(t, n.id), book' = Replace(t, n), given' = given, topic' = topic,
         Passes(t, n, n.id), n.id \in Nat \ {0}
  PROVE  PapersFine'
<1>1. /\ RowsFine' /\ book'[t] = (book[t] \ {Row(t, n.id)}) \cup {n}
      /\ \A s \in book'[t] : s = n \/ (s \in book[t] /\ s.id # n.id)
      /\ \A u \in AllTables \ {t} : book'[u] = book[u]
  BY ReplaceRows
<1>2. given["lots"] \in Nat /\ "lots" \in AllTables /\ "sales" \in AllTables
  BY AllTablesAre DEF RowsFine
<1>3. CASE t = "lots"
  <2>1. n.qty \in Nat /\ SoldFrom(n.id, 0) <= n.qty
    BY <1>3 DEF Passes
  <2>2. book'["sales"] = book["sales"]
    BY <1>1, <1>2, <1>3
  <2>3. \A id : SoldFrom(id, 0)' = SoldFrom(id, 0)
    BY <2>2 DEF SoldFrom
  <2>4. ASSUME NEW l \in book'["lots"] PROVE l.qty \in Int /\ SoldFrom(l.id, 0)' <= l.qty
    <3>1. l = n \/ l \in book["lots"]
      BY <1>1, <1>3
    <3> QED BY <2>1, <2>3, <3>1 DEF PapersFine
  <2> QED BY <2>2, <2>4 DEF PapersFine
<1>4. CASE t = "sales"
  <2>1. /\ n.qty \in Nat /\ n.lot \in 1..given["lots"]
        /\ SoldFrom(n.lot, n.id) + n.qty <= Row("lots", n.lot).qty
    BY <1>4 DEF Passes
  <2>2. book'["lots"] = book["lots"]
    BY <1>1, <1>2, <1>4
  <2>3. ASSUME NEW l \in book["lots"] PROVE SoldFrom(l.id, 0)' <= l.qty
    <3>1. SoldFrom(l.id, 0)' = Total({s \in book'["sales"] : s.lot = l.id /\ s.id # 0})
      BY DEF SoldFrom
    <3>2. \A s \in book["sales"] : s.id # 0 /\ (s.id # n.id => s \in book'["sales"])
      <4>1. \A s \in book["sales"] : s.id \in 1..given["sales"]
        BY <1>2 DEF RowsFine
      <4>2. Row(t, n.id).id = n.id
        BY HasIs
      <4> QED BY <1>1, <1>4, <4>1, <4>2
    <3>3. CASE l.id = n.lot
      <4>1. {s \in book'["sales"] : s.lot = l.id /\ s.id # 0} = SalesOf(l.id, n.id) \cup {n}
        BY <1>1, <1>4, <3>2, <3>3 DEF SalesOf
      <4>2. n \notin SalesOf(l.id, n.id)
        BY DEF SalesOf
      <4>3. SoldFrom(l.id, 0)' = SoldFrom(l.id, n.id) + n.qty
        BY <2>1, <3>1, <4>1, <4>2, PlusOne, SalesCount
      <4>4. Row("lots", n.lot) = l
        BY <1>2, <3>3, RowIs
      <4> QED BY <2>1, <3>3, <4>3, <4>4
    <3>4. CASE l.id # n.lot
      <4>1. {s \in book'["sales"] : s.lot = l.id /\ s.id # 0} = SalesOf(l.id, n.id)
        BY <1>1, <1>4, <3>2, <3>4 DEF SalesOf
      <4>2. SalesOf(l.id, n.id) \in SUBSET SalesOf(l.id, 0)
        BY <3>2 DEF SalesOf
      <4>3. Total(SalesOf(l.id, n.id)) <= Total(SalesOf(l.id, 0))
        BY <4>2, SalesCount, FewerAreLess
      <4>4. SoldFrom(l.id, 0)' <= SoldFrom(l.id, 0) /\ SoldFrom(l.id, 0)' \in Nat
        <5>1. SoldFrom(l.id, 0)' = Total(SalesOf(l.id, n.id))
          BY <3>1, <4>1
        <5>2. /\ SoldFrom(l.id, 0) = Total(SalesOf(l.id, 0))
              /\ SoldFrom(l.id, n.id) = Total(SalesOf(l.id, n.id)) /\ SoldFrom(l.id, n.id) \in Nat
          BY SalesCount
        <5> QED BY ONLY <4>3, <5>1, <5>2
      <4>5. l.qty \in Int /\ SoldFrom(l.id, 0) <= l.qty /\ SoldFrom(l.id, 0) \in Nat
        BY SalesCount DEF PapersFine
      <4> QED BY <4>4, <4>5
    <3> QED BY <3>3, <3>4
  <2>4. ASSUME NEW s \in book'["sales"] PROVE s.qty \in Nat /\ s.lot \in 1..given["lots"]
    BY <1>1, <1>4, <2>1 DEF PapersFine
  <2> QED BY <2>2, <2>3, <2>4 DEF PapersFine
<1>5. CASE t \notin {"lots", "sales"}
  BY <1>1, <1>2, <1>5, PapersSame
<1> QED BY <1>3, <1>4, <1>5

(* Fewer lots and fewer sales sell nothing beyond a lot.                   *)
LEMMA FewerPapers ==
  ASSUME RowsFine, PapersFine, given' = given,
         book'["lots"] \subseteq book["lots"], book'["sales"] \subseteq book["sales"]
  PROVE  PapersFine'
<1>1. ASSUME NEW l \in book'["lots"] PROVE SoldFrom(l.id, 0)' <= l.qty
  <2> DEFINE S == {s \in book'["sales"] : s.lot = l.id /\ s.id # 0}
  <2>1. SoldFrom(l.id, 0)' = Total(S) /\ S \in SUBSET SalesOf(l.id, 0)
    BY DEF SoldFrom, SalesOf
  <2>2. Total(S) <= SoldFrom(l.id, 0) /\ Total(S) \in Nat /\ SoldFrom(l.id, 0) \in Nat
    BY <2>1, SalesCount, Totals, FewerAreLess
  <2>3. l.qty \in Int /\ SoldFrom(l.id, 0) <= l.qty
    BY DEF PapersFine
  <2> QED BY <2>1, <2>2, <2>3
<1> QED BY <1>1 DEF PapersFine

-----------------------------------------------------------------------------
(* Debts and the cards they lie in. *)

(* Whoever leaves debts alone keeps DebtsFine.                             *)
LEMMA DebtsSame ==
  ASSUME DebtsFine, book'["debts"] = book["debts"]
  PROVE  DebtsFine'
BY DEF DebtsFine, Grounded, Has, Ids

(* A card lies in nothing, so a debt that comes to lie in a card, or in    *)
(* nothing, closes no circle.                                              *)
LEMMA DebtChanges ==
  ASSUME RowsFine, DebtsFine, RowsFine', NEW n, n \in book'["debts"],
         \A d \in book'["debts"] : d = n \/ (d \in book["debts"] /\ d.id # n.id),
         Ids("debts") \subseteq Ids("debts")',
         n.kind = "card" => n.card = 0,
         n.card # 0 => n.card # n.id /\ \E c \in book["debts"] : c.id = n.card /\ c.kind = "card"
  PROVE  DebtsFine'
<1>1. \A d \in book'["debts"] : d.id # 0
  BY AllTablesAre DEF RowsFine
<1>2. ASSUME NEW d \in book'["debts"] PROVE d.card = 0 \/ Has("debts", d.card)'
  <2>1. CASE d = n
    BY <2>1 DEF Has, Ids
  <2>2. CASE d \in book["debts"]
    BY <2>2 DEF DebtsFine, Has, Ids
  <2> QED BY <2>1, <2>2
<1>3. ASSUME NEW C \in SUBSET Ids("debts")', C # {}, \A d \in book'["debts"] : d.id \in C => d.card \in C
      PROVE  FALSE
  <2>1. 0 \notin C
    BY <1>1 DEF Ids
  <2>2. n.id \notin C
    <3>1. SUFFICES ASSUME n.id \in C PROVE FALSE
      OBVIOUS
    <3>2. n.card \in C /\ n.card # 0
      BY <1>3, <2>1, <3>1
    <3>3. PICK c \in book["debts"] : c.id = n.card /\ c.kind = "card"
      BY <3>2
    <3>4. c.card = 0 /\ c.id # n.id
      BY <3>2, <3>3 DEF DebtsFine
    <3>5. PICK d \in book'["debts"] : d.id = c.id
      BY <3>3 DEF Ids
    <3>6. d \in book["debts"]
      BY <3>4, <3>5
    <3>7. d = c
      BY <3>3, <3>5, <3>6, AllTablesAre DEF RowsFine
    <3> QED BY <1>3, <2>1, <3>2, <3>3, <3>4, <3>5, <3>7
  <2>3. C \in SUBSET Ids("debts")
    BY <2>2 DEF Ids
  <2>4. PICK d \in book["debts"] : d.id \in C /\ d.card \notin C
    BY <1>3, <2>3 DEF DebtsFine, Grounded
  <2>5. PICK e \in book'["debts"] : e.id = d.id
    BY <2>4 DEF Ids
  <2>6. e \in book["debts"]
    BY <2>2, <2>4, <2>5
  <2>7. e = d
    BY <2>5, <2>6, AllTablesAre DEF RowsFine
  <2> QED BY <1>3, <2>4, <2>5, <2>7
<1>4. Grounded'
  BY <1>3 DEF Grounded
<1> QED BY <1>2, <1>4 DEF DebtsFine

(* A new debt lies in nothing or in a card, which lies in nothing, and no  *)
(* debt lies in the new one yet.                                           *)
LEMMA InsertDebts ==
  ASSUME RowsFine, DebtsFine, NEW t \in AllTables, NEW r, DOMAIN r = Columns[t],
         Insert(t, r), topic' = topic, Passes(t, r, 0), Agrees(t, r) \/ t # "debts"
  PROVE  DebtsFine'
<1> DEFINE n == WithId(r, given[t] + 1)
<1>1. /\ RowsFine' /\ n.id = given[t] + 1 /\ \A f \in Columns[t] : n[f] = r[f]
      /\ book'[t] = book[t] \cup {n}
      /\ \A u \in AllTables \ {t} : book'[u] = book[u]
  BY InsertRows
<1> HIDE DEF n
<1>2. CASE t = "debts"
  <2>1. n.card = r.card /\ n.kind = r.kind
    BY <1>1, <1>2 DEF Columns
  <2>2. r.kind = "card" => r.card = 0
    BY <1>2 DEF Passes
  <2>3. checkDebtParent(r)
    BY <1>2 DEF Agrees
  <2>4. given["debts"] \in Nat /\ \A d \in book["debts"] : d.id \in 1..given["debts"]
    BY AllTablesAre DEF RowsFine
  <2>5. \A d \in book["debts"] : d.id # n.id
    BY <1>1, <1>2, <2>4
  <2>6. n.card # 0 => \E c \in book["debts"] : c.id = n.card /\ c.kind = "card"
    BY <2>1, <2>3, HasIs DEF checkDebtParent, IsCard
  <2>7. n.card # 0 => n.card # n.id
    BY <2>5, <2>6
  <2>8. Ids("debts") \subseteq Ids("debts")'
    BY <1>1, <1>2 DEF Ids
  <2> QED BY <1>1, <1>2, <2>1, <2>2, <2>5, <2>6, <2>7, <2>8, DebtChanges
<1>3. CASE t # "debts"
  BY <1>1, <1>3, DebtsSame, AllTablesAre
<1> QED BY <1>2, <1>3

(* A debt that is edited lies in nothing or in a card other than itself;   *)
(* if it has become a card, it lies in nothing itself.                     *)
LEMMA ReplaceDebts ==
  ASSUME RowsFine, DebtsFine, NEW t \in AllTables, NEW n, DOMAIN n = Columns[t] \cup {"id"},
         Has(t, n.id), book' = Replace(t, n), given' = given, topic' = topic,
         Passes(t, n, n.id), n.id \in Nat \ {0}, Agrees(t, n) \/ t # "debts"
  PROVE  DebtsFine'
<1>1. /\ RowsFine' /\ book'[t] = (book[t] \ {Row(t, n.id)}) \cup {n}
      /\ \A s \in book'[t] : s = n \/ (s \in book[t] /\ s.id # n.id)
      /\ \A u \in AllTables \ {t} : book'[u] = book[u]
  BY ReplaceRows
<1>2. CASE t = "debts"
  <2>1. (n.kind = "card" => n.card = 0) /\ n.card # n.id
    BY <1>2 DEF Passes
  <2>2. checkDebtParent(n)
    BY <1>2 DEF Agrees
  <2>3. n.card # 0 => \E c \in book["debts"] : c.id = n.card /\ c.kind = "card"
    BY <2>2, HasIs DEF checkDebtParent, IsCard
  <2>4. Ids("debts") \subseteq Ids("debts")'
    <3>1. Row(t, n.id).id = n.id
      BY HasIs
    <3> QED BY <1>1, <1>2, <3>1 DEF Ids
  <2>5. n \in book'["debts"]
    BY <1>1, <1>2
  <2> QED BY <1>1, <1>2, <2>1, <2>3, <2>4, <2>5, DebtChanges
<1>3. CASE t # "debts"
  BY <1>1, <1>3, DebtsSame, AllTablesAre
<1> QED BY <1>2, <1>3

(* A debt in which no other lies can go.                                   *)
LEMMA FewerDebts ==
  ASSUME RowsFine, DebtsFine, book'["debts"] \subseteq book["debts"],
         \A d \in book["debts"] : d \notin book'["debts"] => \A o \in book["debts"] : o.card # d.id
  PROVE  DebtsFine'
<1>1. ASSUME NEW d \in book'["debts"] PROVE d.card = 0 \/ Has("debts", d.card)'
  BY DEF DebtsFine, Has
<1>2. ASSUME NEW C \in SUBSET Ids("debts")', C # {} PROVE \E d \in book'["debts"] : d.id \in C /\ d.card \notin C
  <2>1. C \in SUBSET Ids("debts")
    BY DEF Ids
  <2>2. PICK d \in book["debts"] : d.id \in C /\ d.card \notin C
    BY <1>2, <2>1 DEF DebtsFine, Grounded
  <2>3. CASE d \in book'["debts"]
    BY <2>2, <2>3
  <2>4. CASE d \notin book'["debts"]
    <3>1. PICK e \in book'["debts"] : e.id = d.id
      BY <2>2 DEF Ids
    <3>2. e = d
      BY <3>1, AllTablesAre DEF RowsFine
    <3> QED BY <2>4, <3>2
  <2> QED BY <2>3, <2>4
<1> QED BY <1>1, <1>2 DEF DebtsFine, Grounded

-----------------------------------------------------------------------------
(* The statements. *)

(* An INSERT of a row that has passed its checks keeps the books in order  *)
(* and makes no misfit.                                                    *)
LEMMA InsertKeeps ==
  ASSUME BookFine, NEW t \in Tables[topic], NEW r, DOMAIN r = Columns[t], Insert(t, r),
         topic' = topic, Passes(t, r, 0), Agrees(t, r)
  PROVE  BookFine' /\ (~EditsARowOthersReferTo => MisfitIds' \subseteq MisfitIds)
<1> DEFINE n == WithId(r, given[t] + 1)
<1>0. /\ t \in AllTables /\ topic \in DOMAIN Tables /\ Tables[topic] \subseteq AllTables
      /\ RowsFine /\ PapersFine /\ DebtsFine /\ ReceiptsFine
  BY AllTablesAre DEF BookFine, RowsFine
<1>1. /\ RowsFine' /\ n.id = given[t] + 1 /\ \A f \in Columns[t] : n[f] = r[f]
      /\ book'[t] = book[t] \cup {n} /\ given'[t] = given[t] + 1
      /\ \A u \in AllTables \ {t} : book'[u] = book[u] /\ given'[u] = given[u]
  BY <1>0, InsertRows
<1> HIDE DEF n
<1>2. /\ given["plan_flows"] \in Nat /\ "plan_flows" \in AllTables /\ "plan_receipts" \in AllTables
      /\ \A f \in book["plan_flows"] : f.id \in 1..given["plan_flows"]
  BY <1>0, AllTablesAre DEF RowsFine
<1>3. ReceiptsFine'
  <2> SUFFICES ASSUME NEW m \in book'["plan_receipts"] PROVE m.flow \in 0..given'["plan_flows"]
    BY DEF ReceiptsFine
  <2>1. m.flow \in 0..given["plan_flows"]
    <3>1. CASE m \in book["plan_receipts"]
      BY <1>0, <3>1 DEF ReceiptsFine
    <3>2. CASE m \notin book["plan_receipts"]
      <4>1. t = "plan_receipts" /\ m = n
        BY <1>1, <1>2, <3>2
      <4>2. m.flow = r.flow
        BY <1>1, <4>1 DEF Columns
      <4> QED BY <4>1, <4>2 DEF Passes
    <3> QED BY <3>1, <3>2
  <2>2. given'["plan_flows"] = given["plan_flows"] \/ given'["plan_flows"] = given["plan_flows"] + 1
    BY <1>1, <1>2
  <2> QED BY <1>2, <2>1, <2>2
<1>4. BookFine'
  BY <1>0, <1>1, <1>3, InsertPapers, InsertDebts DEF BookFine
<1>5. \A u \in AllTables : Ids(u) \subseteq Ids(u)'
  BY <1>1 DEF Ids
<1>6. ASSUME NEW x \in 0..given["plan_flows"], x \in Ids("plan_flows")' PROVE x \in Ids("plan_flows")
  BY <1>1, <1>2, <1>6 DEF Ids
<1>7. ASSUME ~EditsARowOthersReferTo, NEW u \in Tables[topic], NEW m \in book'[u]
      PROVE  Agrees(u, m)' \/ \E o \in book[u] : o.id = m.id /\ ~Agrees(u, o)
  <2>1. CASE m \in book[u] /\ Agrees(u, m)
    <3>1. u = "plan_receipts" => m.flow \in 0..given["plan_flows"]
      BY <1>0, <2>1 DEF ReceiptsFine
    <3>2. u \in AllTables /\ RowsFine'
      BY <1>0, <1>1
    <3>3. u \in DOMAIN OwnerOf => OwnerOf[u] \in AllTables
      BY Owners
    <3> QED BY <1>0, <1>5, <1>6, <1>7, <2>1, <3>1, <3>2, <3>3, AgreesStays
  <2>2. CASE m \in book[u] /\ ~Agrees(u, m)
    BY <2>2
  <2>3. CASE m \notin book[u]
    <3>1. u = t /\ m = n
      BY <1>0, <1>1, <2>3
    <3>2. \A f \in Columns[t] : m[f] = r[f]
      BY <1>1, <3>1
    <3>3. Agrees(t, m)
      BY <1>0, <3>2, AgreesSame
    <3>4. t = "plan_receipts" => m.flow \in 0..given["plan_flows"]
      BY <3>2 DEF Passes, Columns
    <3>5. t \in DOMAIN OwnerOf => Ids(OwnerOf[t]) \subseteq Ids(OwnerOf[t])'
      BY <1>5, Owners
    <3>6. t = "plan_receipts" => (m.flow \in Ids("plan_flows")' => m.flow \in Ids("plan_flows"))
      BY <1>6, <3>4
    <3>7. Agrees(t, m)'
      BY <1>0, <1>1, <1>7, <3>3, <3>5, <3>6, AgreesStays
    <3> QED BY <3>1, <3>7
  <2> QED BY <2>1, <2>2, <2>3
<1>8. ~EditsARowOthersReferTo => MisfitIds' \subseteq MisfitIds
  BY <1>0, <1>7, NoNewMisfits
<1> QED BY <1>4, <1>8

(* So does an UPDATE, as far as misfits are concerned if the row agrees or *)
(* did not agree before.                                                   *)
LEMMA EditKeeps ==
  ASSUME BookFine, NEW t \in Tables[topic], NEW n, DOMAIN n = Columns[t] \cup {"id"},
         Has(t, n.id), book' = Replace(t, n), given' = given, topic' = topic,
         Passes(t, n, n.id), n.id \in Nat \ {0}, Agrees(t, n) \/ t # "debts"
  PROVE  /\ BookFine'
         /\ ~EditsARowOthersReferTo
              /\ (Agrees(t, n) \/ \E o \in book[t] : o.id = n.id /\ ~Agrees(t, o))
              => MisfitIds' \subseteq MisfitIds
<1>0. /\ t \in AllTables /\ topic \in DOMAIN Tables /\ Tables[topic] \subseteq AllTables
      /\ RowsFine /\ PapersFine /\ DebtsFine /\ ReceiptsFine
  BY AllTablesAre DEF BookFine, RowsFine
<1>1. /\ RowsFine' /\ book'[t] = (book[t] \ {Row(t, n.id)}) \cup {n}
      /\ \A s \in book'[t] : s = n \/ (s \in book[t] /\ s.id # n.id)
      /\ \A u \in AllTables \ {t} : book'[u] = book[u]
  BY <1>0, ReplaceRows
<1>2. Row(t, n.id) \in book[t] /\ Row(t, n.id).id = n.id
  BY HasIs
<1>3. ReceiptsFine'
  <2> SUFFICES ASSUME NEW m \in book'["plan_receipts"] PROVE m.flow \in 0..given["plan_flows"]
    BY DEF ReceiptsFine
  <2>1. m \in book["plan_receipts"] \/ (t = "plan_receipts" /\ m = n)
    BY <1>1, AllTablesAre
  <2> QED BY <1>0, <2>1 DEF ReceiptsFine, Passes
<1>4. BookFine'
  BY <1>0, <1>1, <1>3, ReplacePapers, ReplaceDebts DEF BookFine
<1>5. \A u \in AllTables : Ids(u)' = Ids(u)
  <2>1. Ids(t)' = Ids(t)
    BY <1>1, <1>2 DEF Ids
  <2> QED BY <1>1, <2>1 DEF Ids
<1>6. ASSUME ~EditsARowOthersReferTo,
             Agrees(t, n) \/ \E o \in book[t] : o.id = n.id /\ ~Agrees(t, o),
             NEW u \in Tables[topic], NEW m \in book'[u]
      PROVE  Agrees(u, m)' \/ \E o \in book[u] : o.id = m.id /\ ~Agrees(u, o)
  <2>1. CASE Agrees(u, m)
    <3>1. u \in DOMAIN OwnerOf => OwnerOf[u] \in AllTables
      BY Owners
    <3>2. Ids("plan_flows")' = Ids("plan_flows")
      BY <1>5, AllTablesAre
    <3> QED BY <1>0, <1>1, <1>5, <1>6, <2>1, <3>1, <3>2, AgreesStays
  <2>2. CASE ~Agrees(u, m)
    <3>1. CASE m \in book[u]
      BY <2>2, <3>1
    <3>2. CASE m \notin book[u]
      BY <1>0, <1>1, <1>6, <2>2, <3>2
    <3> QED BY <3>1, <3>2
  <2> QED BY <2>1, <2>2
<1>7. ~EditsARowOthersReferTo /\ (Agrees(t, n) \/ \E o \in book[t] : o.id = n.id /\ ~Agrees(t, o))
        => MisfitIds' \subseteq MisfitIds
  BY <1>0, <1>6, NoNewMisfits
<1> QED BY <1>4, <1>7

(* So does the UPDATE an INSERT turns into when the row for the day is     *)
(* there already (ON CONFLICT DO UPDATE).                                  *)
LEMMA OverwriteKeeps ==
  ASSUME BookFine, NEW t \in Tables[topic], NEW r, DOMAIN r = Columns[t], NEW o \in book[t],
         book' = Replace(t, WithId(r, o.id)), given' = given, topic' = topic,
         t \in {"debt_marks", "npf_nav"}, Agrees(t, r)
  PROVE  BookFine' /\ (~EditsARowOthersReferTo => MisfitIds' \subseteq MisfitIds)
<1>0. t \in AllTables /\ RowsFine
  BY AllTablesAre DEF BookFine, RowsFine
<1>1. PICK n : n = WithId(r, o.id)
  OBVIOUS
<1>2. /\ DOMAIN n = Columns[t] \cup {"id"} /\ n.id = o.id
      /\ \A f \in Columns[t] : n[f] = r[f]
  BY <1>0, <1>1, NoIdColumn, WithIdIs
<1>3. Agrees(t, n)
  BY <1>0, <1>2, AgreesSame
<1>4. Has(t, n.id)
  BY <1>2 DEF Has
<1>5. n.id \in Nat \ {0}
  <2>1. given[t] \in Nat /\ o.id \in 1..given[t]
    BY <1>0 DEF RowsFine
  <2> QED BY <1>2, <2>1
<1>6. Passes(t, n, n.id)
  BY DEF Passes
<1> QED BY <1>1, <1>2, <1>3, <1>4, <1>5, <1>6, EditKeeps

(* Whatever of a row is ready to be written, its statement keeps the books *)
(* in order, and makes no misfit that the edit does not account for.       *)
LEMMA StatementKeeps ==
  ASSUME BookFine, NEW p, Ready(p), Statement(p), topic' = topic
  PROVE  /\ BookFine'
         /\ ~EditsARowOthersReferTo /\ ~NamesAnotherParent(p) => MisfitIds' \subseteq MisfitIds
<1> DEFINE t == p.table
           r == p.row
<1>0. /\ t \in AllTables /\ t \in Tables[topic] /\ topic \in DOMAIN Tables
      /\ RowsFine
  BY AllTablesAre DEF BookFine, RowsFine, Ready
<1>1. CASE p.do = "insert"
  <2>1. Insert(t, r)
    BY <1>1 DEF Statement
  <2>2. DOMAIN r = Columns[t] /\ Passes(t, r, 0) /\ Agrees(t, r)
    BY <1>1 DEF Ready, Edit, Excused, SameLoan
  <2> QED BY <1>0, <2>1, <2>2, InsertKeeps
<1>2. CASE p.do = "upsert"
  <2>1. Upsert(t, r)
    BY <1>2 DEF Statement
  <2>2. /\ DOMAIN r = Columns[t] /\ Passes(t, r, 0) /\ Agrees(t, r)
        /\ t \in {"debt_marks", "npf_nav"}
    BY <1>2 DEF Ready, Edit, Excused, SameLoan
  <2>3. CASE Insert(t, r)
    BY <1>0, <2>2, <2>3, InsertKeeps
  <2>4. ASSUME NEW o \in book[t], book' = Replace(t, WithId(r, o.id)), given' = given
        PROVE  BookFine' /\ (~EditsARowOthersReferTo => MisfitIds' \subseteq MisfitIds)
    BY <1>0, <2>2, <2>4, OverwriteKeeps
  <2> QED BY <2>1, <2>3, <2>4 DEF Upsert
<1>3. CASE p.do \in Edit
  <2>1. Update(t, r)
    BY <1>3 DEF Statement, Edit
  <2>2. /\ DOMAIN r = Columns[t] \cup {"id"} /\ r.id \in Nat \ {0} /\ Passes(t, r, r.id)
        /\ Agrees(t, r) \/ Excused(p) \/ SameLoan(p)
    BY <1>3 DEF Ready
  <2>3. Has(t, r.id) /\ KeysHold(t, r) /\ book' = Replace(t, r) /\ given' = given
    BY <2>1 DEF Update
  <2>4. Agrees(t, r) \/ t # "debts"
    BY <2>2 DEF Excused, SameLoan
  <2>5. ASSUME ~NamesAnotherParent(p)
        PROVE  Agrees(t, r) \/ \E o \in book[t] : o.id = r.id /\ ~Agrees(t, o)
    <3>1. CASE Excused(p)
      BY <2>3, <2>5, <3>1 DEF Excused, NamesAnotherParent, KeysHold, Agrees
    <3>2. CASE SameLoan(p)
      <4>1. t = "reserve_loans" /\ \A l \in book["reserve_loans"] : l.id = r.id => l.op = r.op
        BY <3>2 DEF SameLoan
      <4>2. PICK o \in book[t] : o.id = r.id
        BY <2>3 DEF Has
      <4>3. o.op = r.op
        BY <4>1, <4>2
      <4>4. Agrees(t, o) <=> Agrees(t, r)
        BY <4>1, <4>3 DEF Agrees
      <4> QED BY <4>2, <4>4
    <3> QED BY <2>2, <3>1, <3>2
  <2> QED BY <1>0, <2>2, <2>3, <2>4, <2>5, EditKeeps
<1> QED BY <1>1, <1>2, <1>3 DEF Ready

-----------------------------------------------------------------------------
(* Deletions. *)

(* Deleting rows keeps the books in order and makes no misfit if no row    *)
(* that stays loses the row it refers to.                                  *)
LEMMA FewerKeeps ==
  ASSUME BookFine, DOMAIN book' = AllTables, given' = given, topic' = topic,
         \A t \in AllTables : book'[t] \subseteq book[t],
         \A d \in book["debts"] : d \notin book'["debts"] => \A o \in book["debts"] : o.card # d.id,
         \A t \in DOMAIN OwnerOf \ {"plan_receipts"} : \A r \in book'[t] :
           Owner(t, r) \in Ids(OwnerOf[t]) => Owner(t, r) \in Ids(OwnerOf[t])'
  PROVE  BookFine' /\ (~EditsARowOthersReferTo => MisfitIds' \subseteq MisfitIds)
<1>0. /\ topic \in DOMAIN Tables /\ Tables[topic] \subseteq AllTables
      /\ RowsFine /\ PapersFine /\ DebtsFine /\ ReceiptsFine
  BY AllTablesAre DEF BookFine, RowsFine
<1>1. RowsFine'
  BY <1>0, FewerRows
<1>2. PapersFine'
  BY <1>0, FewerPapers, AllTablesAre
<1>3. DebtsFine'
  BY <1>0, FewerDebts, AllTablesAre
<1>4. ReceiptsFine'
  BY <1>0, AllTablesAre DEF ReceiptsFine
<1>5. ASSUME ~EditsARowOthersReferTo, NEW u \in Tables[topic], NEW m \in book'[u]
      PROVE  Agrees(u, m)' \/ \E o \in book[u] : o.id = m.id /\ ~Agrees(u, o)
  <2>0. u \in AllTables /\ m \in book[u]
    BY <1>0
  <2>1. CASE Agrees(u, m)
    <3>1. Ids("plan_flows")' \subseteq Ids("plan_flows")
      BY AllTablesAre DEF Ids
    <3>2. u \in DOMAIN OwnerOf /\ u # "plan_receipts" =>
            (Owner(u, m) \in Ids(OwnerOf[u]) => Owner(u, m) \in Ids(OwnerOf[u])')
      OBVIOUS
    <3> QED BY <1>0, <1>1, <1>5, <2>0, <2>1, <3>1, <3>2, AgreesStays
  <2>2. CASE ~Agrees(u, m)
    BY <2>0, <2>2
  <2> QED BY <2>1, <2>2
<1>6. ~EditsARowOthersReferTo => MisfitIds' \subseteq MisfitIds
  BY <1>0, <1>5, NoNewMisfits
<1> QED BY <1>1, <1>2, <1>3, <1>4, <1>6 DEF BookFine

(* A table that no other table refers to. *)
LEMMA LeafKeeps ==
  ASSUME BookFine, NEW t \in AllTables, t \notin OwnerTables \ {"plan_flows"},
         NEW r, book' = [book EXCEPT ![t] = @ \ {r}], given' = given, topic' = topic
  PROVE  BookFine' /\ (~EditsARowOthersReferTo => MisfitIds' \subseteq MisfitIds)
<1>0. DOMAIN book = AllTables
  BY DEF BookFine, RowsFine
<1>1. /\ DOMAIN book' = AllTables /\ book'[t] = book[t] \ {r}
      /\ \A u \in AllTables \ {t} : book'[u] = book[u]
  BY <1>0
<1>2. "debts" \in AllTables /\ t # "debts"
  BY AllTablesAre DEF OwnerTables
<1>3. ASSUME NEW u \in DOMAIN OwnerOf \ {"plan_receipts"} PROVE Ids(OwnerOf[u])' = Ids(OwnerOf[u])
  <2>1. OwnerOf[u] \in AllTables /\ OwnerOf[u] # t
    <3>1. OwnerOf[u] \in OwnerTables /\ OwnerOf[u] \in AllTables
      BY Owners
    <3>2. OwnerOf[u] # "plan_flows"
      BY DEF OwnerOf
    <3> QED BY <3>1, <3>2
  <2> QED BY <1>1, <2>1 DEF Ids
<1>4. \A u \in AllTables : book'[u] \subseteq book[u]
  BY <1>1
<1>5. book'["debts"] = book["debts"]
  BY <1>1, <1>2
<1> QED BY <1>1, <1>3, <1>4, <1>5, FewerKeeps

(* Of a table that others refer to, a row that no row of theirs names. *)
LEMMA OwnerKeeps ==
  ASSUME BookFine, NEW t \in OwnerTables, NEW r \in book[t], DOMAIN book' = AllTables,
         book'[t] = book[t] \ {r}, given' = given, topic' = topic,
         \A u \in AllTables \ {t} : book'[u] \subseteq book[u],
         \A u \in OwnerTables \ {t} : book'[u] = book[u],
         \A u \in DOMAIN OwnerOf \ {"plan_receipts"} : OwnerOf[u] = t =>
           \A s \in book'[u] : Owner(u, s) # r.id,
         t = "debts" => \A o \in book["debts"] : o.card # r.id
  PROVE  BookFine' /\ (~EditsARowOthersReferTo => MisfitIds' \subseteq MisfitIds)
<1>1. ASSUME NEW u \in DOMAIN OwnerOf \ {"plan_receipts"}, NEW s \in book'[u],
             Owner(u, s) \in Ids(OwnerOf[u])
      PROVE  Owner(u, s) \in Ids(OwnerOf[u])'
  <2>1. CASE OwnerOf[u] = t
    <3>1. PICK o \in book[t] : o.id = Owner(u, s)
      BY <1>1, <2>1 DEF Ids
    <3>2. o # r
      BY <1>1, <2>1, <3>1
    <3>3. Owner(u, s) \in Ids(t)'
      BY <3>1, <3>2 DEF Ids
    <3> QED BY <2>1, <3>3
  <2>2. CASE OwnerOf[u] # t
    <3>1. book'[OwnerOf[u]] = book[OwnerOf[u]]
      BY <2>2, Owners
    <3> QED BY <1>1, <3>1 DEF Ids
  <2> QED BY <2>1, <2>2
<1>2. t \in AllTables /\ "debts" \in OwnerTables
  BY Owners DEF OwnerTables
<1>3. \A d \in book["debts"] : d \notin book'["debts"] => \A o \in book["debts"] : o.card # d.id
  BY <1>2
<1>4. \A u \in AllTables : book'[u] \subseteq book[u]
  BY <1>2
<1> QED BY <1>1, <1>3, <1>4, FewerKeeps

(* Movements of the reserve that name no loan any more stay as they were    *)
(* otherwise.                                                              *)
LEMMA UnlinkKeeps ==
  ASSUME BookFine, NEW O \in SUBSET book["reserve_ops"], NEW R \in SUBSET book["reserve_loans"],
         NEW gone, given' = given, topic' = topic,
         book' = [book EXCEPT !["reserve_ops"] = Unlink(O, gone), !["reserve_loans"] = R],
         \A l \in R : \A o \in book["reserve_ops"] : o.id = l.op => o \in O
  PROVE  BookFine' /\ (~EditsARowOthersReferTo => MisfitIds' \subseteq MisfitIds)
<1>0. /\ topic \in DOMAIN Tables /\ Tables[topic] \subseteq AllTables
      /\ RowsFine /\ PapersFine /\ DebtsFine /\ ReceiptsFine /\ DOMAIN book = AllTables
  BY AllTablesAre DEF BookFine, RowsFine
<1>1. /\ DOMAIN book' = AllTables /\ book'["reserve_ops"] = Unlink(O, gone)
      /\ book'["reserve_loans"] = R
      /\ \A u \in AllTables \ {"reserve_ops", "reserve_loans"} : book'[u] = book[u]
  BY <1>0, AllTablesAre
<1>2. "reserve_ops" \in AllTables /\ "reserve_loans" \in AllTables /\ "debts" \in AllTables
      /\ "lots" \in AllTables /\ "sales" \in AllTables /\ "plan_receipts" \in AllTables
      /\ "plan_flows" \in AllTables
  BY AllTablesAre
<1>2a. \A o \in book["reserve_ops"] :
        DOMAIN o = Columns["reserve_ops"] \cup {"id"} /\ "id" \in DOMAIN o
  BY <1>0, <1>2 DEF RowsFine
<1>3. \A n \in Unlink(O, gone) : \E o \in O : n.id = o.id /\ DOMAIN n = DOMAIN o
  <2> SUFFICES ASSUME NEW n \in Unlink(O, gone) PROVE \E o \in O : n.id = o.id /\ DOMAIN n = DOMAIN o
    OBVIOUS
  <2>1. PICK o \in O : n = IF o.loan \in gone THEN [o EXCEPT !.loan = 0] ELSE o
    BY DEF Unlink
  <2>2. "id" \in DOMAIN o
    BY <1>2a
  <2> QED BY <2>1, <2>2
<1>4. \A n, m \in Unlink(O, gone) : n.id = m.id => n = m
  <2> SUFFICES ASSUME NEW n \in Unlink(O, gone), NEW m \in Unlink(O, gone), n.id = m.id PROVE n = m
    OBVIOUS
  <2>1. PICK o \in O : n = IF o.loan \in gone THEN [o EXCEPT !.loan = 0] ELSE o
    BY DEF Unlink
  <2>2. PICK q \in O : m = IF q.loan \in gone THEN [q EXCEPT !.loan = 0] ELSE q
    BY DEF Unlink
  <2>3. "id" \in DOMAIN o /\ "id" \in DOMAIN q
    BY <1>2a
  <2>4. o.id = q.id
    BY <2>1, <2>2, <2>3
  <2>5. o = q
    BY <1>0, <1>2, <2>4 DEF RowsFine
  <2> QED BY <2>1, <2>2, <2>5
<1>5. RowsFine'
  <2> SUFFICES ASSUME NEW u \in AllTables
               PROVE  /\ given[u] \in Nat /\ (u \in {"sales", "debts"} => IsFiniteSet(book'[u]))
                      /\ \A s \in book'[u] : DOMAIN s = Columns[u] \cup {"id"} /\ s.id \in 1..given[u]
                      /\ \A s, q \in book'[u] : s.id = q.id => s = q
    BY <1>0, <1>1 DEF RowsFine
  <2>1. /\ given[u] \in Nat /\ (u \in {"sales", "debts"} => IsFiniteSet(book[u]))
        /\ \A s \in book[u] : DOMAIN s = Columns[u] \cup {"id"} /\ s.id \in 1..given[u]
        /\ \A s, q \in book[u] : s.id = q.id => s = q
    BY <1>0 DEF RowsFine
  <2>2. CASE u = "reserve_ops"
    <3>1. \A s \in book'[u] : DOMAIN s = Columns[u] \cup {"id"} /\ s.id \in 1..given[u]
      <4> SUFFICES ASSUME NEW s \in book'[u]
                   PROVE  DOMAIN s = Columns[u] \cup {"id"} /\ s.id \in 1..given[u]
        OBVIOUS
      <4>1. PICK o \in O : s.id = o.id /\ DOMAIN s = DOMAIN o
        BY <1>1, <1>3, <2>2
      <4>2. o \in book[u]
        BY <2>2
      <4> QED BY <2>1, <4>1, <4>2
    <3>2. \A s, q \in book'[u] : s.id = q.id => s = q
      BY <1>1, <1>4, <2>2
    <3>3. u \notin {"sales", "debts"}
      BY <2>2
    <3> QED BY <2>1, <3>1, <3>2, <3>3
  <2>3. CASE u = "reserve_loans"
    BY <1>1, <2>1, <2>3
  <2>4. CASE u \notin {"reserve_ops", "reserve_loans"}
    BY <1>1, <2>1, <2>4
  <2> QED BY <2>2, <2>3, <2>4
<1>6. PapersFine'
  BY <1>0, <1>1, <1>2, PapersSame
<1>7. DebtsFine' /\ ReceiptsFine'
  BY <1>0, <1>1, <1>2, DebtsSame DEF ReceiptsFine
<1>8. ASSUME ~EditsARowOthersReferTo, NEW u \in Tables[topic], NEW m \in book'[u]
      PROVE  Agrees(u, m)' \/ \E o \in book[u] : o.id = m.id /\ ~Agrees(u, o)
  <2>0. u \in AllTables /\ (u = "reserve_ops" \/ m \in book[u])
    BY <1>0, <1>1
  <2>1. CASE u = "reserve_ops"
    BY <2>1 DEF Agrees
  <2>2. CASE m \in book[u] /\ Agrees(u, m) /\ u # "reserve_ops"
    <3>1. Ids("plan_flows")' = Ids("plan_flows")
      BY <1>1, <1>2 DEF Ids
    <3>2. ASSUME u \in DOMAIN OwnerOf, u # "plan_receipts", Owner(u, m) \in Ids(OwnerOf[u])
          PROVE  Owner(u, m) \in Ids(OwnerOf[u])'
      <4>1. CASE u = "reserve_loans"
        <5>1. OwnerOf[u] = "reserve_ops" /\ Owner(u, m) = m.op /\ m \in R
          BY <1>1, <4>1 DEF OwnerOf, RefOf, Owner
        <5>2. PICK o \in book["reserve_ops"] : o.id = m.op
          BY <3>2, <5>1 DEF Ids
        <5>3. o \in O /\ "id" \in DOMAIN o
          BY <1>2a, <5>1, <5>2
        <5>4. PICK n : n = IF o.loan \in gone THEN [o EXCEPT !.loan = 0] ELSE o
          OBVIOUS
        <5>5. n \in Unlink(O, gone) /\ n.id = o.id
          BY <5>3, <5>4 DEF Unlink
        <5>6. m.op \in Ids("reserve_ops")'
          BY <1>1, <5>2, <5>5 DEF Ids
        <5> QED BY <5>1, <5>6
      <4>2. CASE u # "reserve_loans"
        <5>1. OwnerOf[u] \in AllTables \ {"reserve_ops", "reserve_loans"}
          BY <3>2, <4>2, AllTablesAre DEF OwnerOf
        <5> QED BY <1>1, <3>2, <5>1 DEF Ids
      <4> QED BY <4>1, <4>2
    <3> QED BY <1>0, <1>5, <1>8, <2>0, <2>2, <3>1, <3>2, AgreesStays
  <2>3. CASE m \in book[u] /\ ~Agrees(u, m)
    BY <2>3
  <2> QED BY <2>0, <2>1, <2>2, <2>3
<1>9. ~EditsARowOthersReferTo => MisfitIds' \subseteq MisfitIds
  BY <1>0, <1>8, NoNewMisfits
<1> QED BY <1>5, <1>6, <1>7, <1>9 DEF BookFine

(* The handlers that delete.                                               *)
Deletion ==
  \/ DeleteLot \/ DeleteSale \/ DeleteReserveOp \/ DeleteReserveLoan
  \/ DeleteDebt \/ DeleteDebtOp \/ DeleteDebtMark
  \/ DeletePlanFlow \/ DeletePlanReceipt \/ DeleteTermDeposit \/ DeleteDepositTopup
  \/ DeleteNPFAccount \/ DeleteNPFOp \/ DeleteNPFNavPoint

(* Each of them deletes, with the row, the rows that refer to it, refuses, *)
(* or cuts the references, so that none of them makes a misfit.            *)
LEMMA DeletionKeeps ==
  ASSUME BookFine, Deletion
  PROVE  BookFine' /\ (~EditsARowOthersReferTo => MisfitIds' \subseteq MisfitIds)
<1>0. /\ RowsFine /\ DOMAIN book = AllTables
  BY DEF BookFine, RowsFine
<1> DEFINE Done == BookFine' /\ (~EditsARowOthersReferTo => MisfitIds' \subseteq MisfitIds)
<1>a. ASSUME NEW t \in {"sales", "debt_ops", "debt_marks", "plan_flows", "plan_receipts",
                        "deposit_topups", "npf_ops", "npf_nav"},
             \E r \in book[t] : Erase(t) /\ book' = [book EXCEPT ![t] = @ \ {r}]
      PROVE  Done
  <2>1. PICK r \in book[t] : given' = given /\ topic' = topic /\ book' = [book EXCEPT ![t] = @ \ {r}]
    BY <1>a DEF Erase
  <2>2. t \in AllTables /\ t \notin OwnerTables \ {"plan_flows"}
    BY AllTablesAre DEF OwnerTables
  <2> QED BY <2>1, <2>2, LeafKeeps
<1>1. CASE DeleteLot
  <2>1. PICK l \in book["lots"] :
          /\ \A s \in book["sales"] : s.lot # l.id
          /\ book' = [book EXCEPT !["lots"] = @ \ {l}] /\ given' = given /\ topic' = topic
    BY <1>1 DEF DeleteLot, Erase
  <2>2. /\ "lots" \in OwnerTables /\ "lots" \in AllTables /\ "sales" \in AllTables
        /\ OwnerTables \subseteq AllTables
    BY AllTablesAre, Owners DEF OwnerTables
  <2>3. /\ DOMAIN book' = AllTables /\ book'["lots"] = book["lots"] \ {l}
        /\ \A u \in AllTables \ {"lots"} : book'[u] = book[u]
    BY <1>0, <2>1, <2>2
  <2>4. ASSUME NEW u \in DOMAIN OwnerOf, OwnerOf[u] = "lots", NEW s \in book'[u] PROVE Owner(u, s) # l.id
    <3>1. u = "sales"
      BY <2>4, Owners DEF OwnerOf
    <3>2. Owner(u, s) = s.lot /\ s \in book["sales"]
      BY <2>2, <2>3, <3>1 DEF Owner, RefOf
    <3> QED BY <2>1, <3>2
  <2> QED BY <2>1, <2>2, <2>3, <2>4, OwnerKeeps
<1>2. CASE DeleteDebt
  <2>1. PICK d \in book["debts"] :
          /\ \A o \in book["debts"] : o.card # d.id
          /\ \A o \in book["debt_ops"] \cup book["debt_marks"] : o.debt # d.id
          /\ book' = [book EXCEPT !["debts"] = @ \ {d}] /\ given' = given /\ topic' = topic
    BY <1>2 DEF DeleteDebt, Erase
  <2>2. /\ "debts" \in OwnerTables /\ "debts" \in AllTables /\ "debt_ops" \in AllTables
        /\ "debt_marks" \in AllTables /\ OwnerTables \subseteq AllTables
    BY AllTablesAre, Owners DEF OwnerTables
  <2>3. /\ DOMAIN book' = AllTables /\ book'["debts"] = book["debts"] \ {d}
        /\ \A u \in AllTables \ {"debts"} : book'[u] = book[u]
    BY <1>0, <2>1, <2>2
  <2>4. ASSUME NEW u \in DOMAIN OwnerOf, OwnerOf[u] = "debts", NEW s \in book'[u] PROVE Owner(u, s) # d.id
    <3>1. u \in {"debts", "debt_ops", "debt_marks"}
      BY <2>4, Owners DEF OwnerOf
    <3>2. CASE u = "debts"
      <4>1. Owner(u, s) = s.card /\ s \in book["debts"]
        BY <2>3, <2>4, <3>2 DEF Owner, RefOf
      <4> QED BY <2>1, <4>1
    <3>3. CASE u \in {"debt_ops", "debt_marks"}
      <4>1. Owner(u, s) = s.debt /\ s \in book["debt_ops"] \cup book["debt_marks"]
        BY <2>2, <2>3, <2>4, <3>3 DEF Owner, RefOf
      <4> QED BY <2>1, <4>1
    <3> QED BY <3>1, <3>2, <3>3
  <2> QED BY <2>1, <2>2, <2>3, <2>4, OwnerKeeps
<1>3. CASE DeleteTermDeposit
  <2>1. PICK d \in book["term_deposits"] :
          /\ book' = [book EXCEPT !["term_deposits"] = @ \ {d},
                                  !["deposit_topups"] = {t \in @ : t.deposit # d.id}]
          /\ given' = given /\ topic' = topic
    BY <1>3 DEF DeleteTermDeposit, Erase
  <2>2. /\ "term_deposits" \in OwnerTables /\ "term_deposits" \in AllTables
        /\ "deposit_topups" \in AllTables /\ "deposit_topups" \notin OwnerTables
        /\ OwnerTables \subseteq AllTables
    BY AllTablesAre, Owners DEF OwnerTables
  <2>3. /\ DOMAIN book' = AllTables /\ book'["term_deposits"] = book["term_deposits"] \ {d}
        /\ book'["deposit_topups"] = {t \in book["deposit_topups"] : t.deposit # d.id}
        /\ \A u \in AllTables \ {"term_deposits", "deposit_topups"} : book'[u] = book[u]
    BY <1>0, <2>1, <2>2
  <2>4. ASSUME NEW u \in DOMAIN OwnerOf, OwnerOf[u] = "term_deposits", NEW s \in book'[u]
        PROVE  Owner(u, s) # d.id
    <3>1. u = "deposit_topups"
      BY <2>4, Owners DEF OwnerOf
    <3>2. Owner(u, s) = s.deposit /\ s.deposit # d.id
      BY <2>3, <2>4, <3>1 DEF Owner, RefOf
    <3> QED BY <3>2
  <2>5. \A u \in AllTables \ {"term_deposits"} : book'[u] \subseteq book[u]
    <3> SUFFICES ASSUME NEW u \in AllTables \ {"term_deposits"} PROVE book'[u] \subseteq book[u]
      OBVIOUS
    <3>1. CASE u = "deposit_topups"
      BY <2>3, <3>1
    <3>2. CASE u # "deposit_topups"
      BY <2>3, <3>2
    <3> QED BY <3>1, <3>2
  <2>6. \A u \in OwnerTables \ {"term_deposits"} : book'[u] = book[u]
    BY <2>2, <2>3
  <2>7. /\ \A u \in DOMAIN OwnerOf \ {"plan_receipts"} : OwnerOf[u] = "term_deposits" =>
             \A s \in book'[u] : Owner(u, s) # d.id
        /\ given' = given /\ topic' = topic
    BY <2>1, <2>4
  <2> QED BY ONLY <2>2, <2>3, <2>5, <2>6, <2>7, BookFine, OwnerKeeps
<1>4. CASE DeleteNPFAccount
  <2>1. PICK a \in book["npf_accounts"] :
          /\ book' = [book EXCEPT !["npf_accounts"] = @ \ {a},
                                  !["npf_ops"] = {o \in @ : o.account # a.id},
                                  !["npf_nav"] = {o \in @ : o.account # a.id}]
          /\ given' = given /\ topic' = topic
    BY <1>4 DEF DeleteNPFAccount, Erase
  <2>2. /\ "npf_accounts" \in OwnerTables /\ "npf_accounts" \in AllTables
        /\ "npf_ops" \in AllTables /\ "npf_ops" \notin OwnerTables
        /\ "npf_nav" \in AllTables /\ "npf_nav" \notin OwnerTables
        /\ OwnerTables \subseteq AllTables
    BY AllTablesAre, Owners DEF OwnerTables
  <2>3. /\ DOMAIN book' = AllTables /\ book'["npf_accounts"] = book["npf_accounts"] \ {a}
        /\ book'["npf_ops"] = {o \in book["npf_ops"] : o.account # a.id}
        /\ book'["npf_nav"] = {o \in book["npf_nav"] : o.account # a.id}
        /\ \A u \in AllTables \ {"npf_accounts", "npf_ops", "npf_nav"} : book'[u] = book[u]
    BY <1>0, <2>1, <2>2
  <2>4. ASSUME NEW u \in DOMAIN OwnerOf, OwnerOf[u] = "npf_accounts", NEW s \in book'[u]
        PROVE  Owner(u, s) # a.id
    <3>1. u = "npf_ops"
      BY <2>4, Owners DEF OwnerOf
    <3>2. Owner(u, s) = s.account /\ s.account # a.id
      BY <2>3, <2>4, <3>1 DEF Owner, RefOf
    <3> QED BY <3>2
  <2>5. \A u \in AllTables \ {"npf_accounts"} : book'[u] \subseteq book[u]
    <3> SUFFICES ASSUME NEW u \in AllTables \ {"npf_accounts"} PROVE book'[u] \subseteq book[u]
      OBVIOUS
    <3>1. CASE u \in {"npf_ops", "npf_nav"}
      BY <2>3, <3>1
    <3>2. CASE u \notin {"npf_ops", "npf_nav"}
      BY <2>3, <3>2
    <3> QED BY <3>1, <3>2
  <2>6. \A u \in OwnerTables \ {"npf_accounts"} : book'[u] = book[u]
    BY <2>2, <2>3
  <2> QED BY <2>1, <2>2, <2>3, <2>4, <2>5, <2>6, OwnerKeeps
<1>5. CASE DeleteReserveOp
  <2>1. PICK o \in book["reserve_ops"] :
          /\ book' = [book EXCEPT
               !["reserve_ops"] =
                 Unlink(@ \ {o}, {l.id : l \in {k \in book["reserve_loans"] : k.op = o.id}}),
               !["reserve_loans"] = @ \ {k \in book["reserve_loans"] : k.op = o.id}]
          /\ given' = given /\ topic' = topic
    BY <1>5 DEF DeleteReserveOp, Erase
  <2>2. PICK gone : gone = {l.id : l \in {k \in book["reserve_loans"] : k.op = o.id}}
    OBVIOUS
  <2>3. PICK O : O = book["reserve_ops"] \ {o}
    OBVIOUS
  <2>4. PICK R : R = book["reserve_loans"] \ {k \in book["reserve_loans"] : k.op = o.id}
    OBVIOUS
  <2>5. book' = [book EXCEPT !["reserve_ops"] = Unlink(O, gone), !["reserve_loans"] = R]
    BY <2>1, <2>2, <2>3, <2>4
  <2>6. \A l \in R : \A q \in book["reserve_ops"] : q.id = l.op => q \in O
    BY <2>3, <2>4
  <2>7. O \in SUBSET book["reserve_ops"] /\ R \in SUBSET book["reserve_loans"]
        /\ given' = given /\ topic' = topic
    BY <2>1, <2>3, <2>4
  <2> QED BY ONLY <2>5, <2>6, <2>7, BookFine, UnlinkKeeps
<1>6. CASE DeleteReserveLoan
  <2>1. PICK l \in book["reserve_loans"] :
          /\ book' = [book EXCEPT !["reserve_ops"] = Unlink(@, {l.id}), !["reserve_loans"] = @ \ {l}]
          /\ given' = given /\ topic' = topic
    BY <1>6 DEF DeleteReserveLoan, Erase
  <2>2. PICK R : R = book["reserve_loans"] \ {l}
    OBVIOUS
  <2>3. PICK O : O = book["reserve_ops"]
    OBVIOUS
  <2>4. book' = [book EXCEPT !["reserve_ops"] = Unlink(O, {l.id}), !["reserve_loans"] = R]
    BY <2>1, <2>2, <2>3
  <2> QED BY <2>1, <2>2, <2>3, <2>4, UnlinkKeeps
<1>7. CASE DeleteSale \/ DeleteDebtOp \/ DeleteDebtMark \/ DeletePlanFlow
  BY <1>7, <1>a DEF DeleteSale, DeleteDebtOp, DeleteDebtMark, DeletePlanFlow
<1>8. CASE DeletePlanReceipt \/ DeleteDepositTopup \/ DeleteNPFOp \/ DeleteNPFNavPoint
  BY <1>8, <1>a DEF DeletePlanReceipt, DeleteDepositTopup, DeleteNPFOp, DeleteNPFNavPoint
<1> QED BY <1>1, <1>2, <1>3, <1>4, <1>5, <1>6, <1>7, <1>8 DEF Deletion

-----------------------------------------------------------------------------
(* What the handlers have checked makes a row ready.                       *)

(* An id of a table has been given out, and is not 0.                      *)
LEMMA KnownId ==
  ASSUME RowsFine, NEW t \in AllTables, NEW id \in Ids(t)
  PROVE  id \in Nat \ {0} /\ id \in 1..given[t] /\ given[t] \in Nat /\ Has(t, id)
<1>1. PICK r \in book[t] : r.id = id
  BY DEF Ids
<1>2. given[t] \in Nat /\ r.id \in 1..given[t]
  BY DEF RowsFine
<1> QED BY <1>1, <1>2 DEF Has

(* A row that has passed its checks may be inserted.                       *)
LEMMA InsertIsReady ==
  ASSUME NEW t \in Tables[topic], NEW r, DOMAIN r = Columns[t], Passes(t, r, 0), Agrees(t, r),
         NEW p, p = [do |-> "insert", table |-> t, row |-> r]
  PROVE  Ready(p) /\ (Insert(t, r) => Statement(p)) /\ ~NamesAnotherParent(p)
<1>1. p.do = "insert" /\ p.table = t /\ p.row = r
  OBVIOUS
<1> QED BY <1>1 DEF Ready, Edit, Statement, NamesAnotherParent

(* A mark of a debt, or a value of a pension unit, may also overwrite that *)
(* of the day.                                                             *)
LEMMA UpsertIsReady ==
  ASSUME NEW t \in Tables[topic], NEW r, DOMAIN r = Columns[t], Passes(t, r, 0), Agrees(t, r),
         t \in {"debt_marks", "npf_nav"}, NEW p, p = [do |-> "upsert", table |-> t, row |-> r]
  PROVE  Ready(p) /\ (Upsert(t, r) => Statement(p)) /\ ~NamesAnotherParent(p)
<1>1. p.do = "upsert" /\ p.table = t /\ p.row = r
  OBVIOUS
<1> QED BY <1>1 DEF Ready, Edit, Statement, NamesAnotherParent

(* A row that has passed its checks, the row it replaces left out of       *)
(* account, may be written over that row.                                  *)
LEMMA UpdateIsReady ==
  ASSUME NEW t \in Tables[topic], NEW r, DOMAIN r = Columns[t] \cup {"id"}, r.id \in Nat \ {0},
         Passes(t, r, r.id), NEW p, p = [do |-> "update", table |-> t, row |-> r],
         Agrees(t, r) \/ Excused(p) \/ SameLoan(p)
  PROVE  /\ Ready(p) /\ (Update(t, r) => Statement(p))
         /\ t \notin {"debt_marks", "deposit_topups"} => ~NamesAnotherParent(p)
<1>1. p.do = "update" /\ p.table = t /\ p.row = r
  OBVIOUS
<1> QED BY <1>1 DEF Ready, Edit, Statement, NamesAnotherParent

(* A statement that may be made.                                           *)
ReadyToDo(do, t, r) == \E p : p = [do |-> do, table |-> t, row |-> r] /\ Ready(p)

(* The columns of the tables.                                              *)
LEMMA ColumnsAre ==
  /\ Columns["lots"] = {"qty", "currency"} /\ Columns["sales"] = {"lot", "qty", "currency"}
  /\ Columns["reserve_ops"] = {"date", "amount", "currency", "loan"}
  /\ Columns["reserve_loans"] = {"op", "rate"} /\ Columns["debts"] = {"kind", "currency", "card"}
  /\ Columns["debt_ops"] = {"debt", "read"} /\ Columns["debt_marks"] = {"debt", "date", "read"}
  /\ Columns["plan_flows"] = {"kind", "currency"}
  /\ Columns["plan_receipts"] = {"flow", "month", "currency"}
  /\ Columns["term_deposits"] = {"currency"} /\ Columns["deposit_topups"] = {"deposit", "read"}
  /\ Columns["npf_accounts"] = {"currency", "note"} /\ Columns["npf_ops"] = {"account", "read"}
  /\ Columns["npf_nav"] = {"account", "date"}
BY DEF Columns

(* A row with the id of the row it replaces. *)
LEMMA Identified ==
  ASSUME RowsFine, NEW t \in AllTables, NEW id \in Ids(t), NEW r, DOMAIN r = Columns[t]
  PROVE  /\ DOMAIN WithId(r, id) = Columns[t] \cup {"id"} /\ WithId(r, id).id = id /\ id \in Nat \ {0}
         /\ \A f \in Columns[t] : WithId(r, id)[f] = r[f]
         /\ Agrees(t, WithId(r, id)) <=> Agrees(t, r)
<1>0. PICK n : n = WithId(r, id)
  OBVIOUS
<1>1. /\ DOMAIN n = Columns[t] \cup {"id"} /\ n.id = id /\ \A f \in Columns[t] : n[f] = r[f]
  BY <1>0, NoIdColumn, WithIdIs
<1>2. id \in Nat \ {0}
  BY KnownId
<1>3. Agrees(t, n) <=> Agrees(t, r)
  BY <1>1, AgreesSame
<1> QED BY <1>0, <1>1, <1>2, <1>3

(* What handleAddLot and handleUpdateLot accept has a positive quantity.   *)
LEMMA LotReady ==
  ASSUME Quantities \subseteq Int, NEW q \in LotRequests, NEW l \in LotFromReq(q)
  PROVE  DOMAIN l = Columns["lots"] /\ l.qty \in Nat \ {0}
<1>1. PICK cur : l = [qty |-> q.qty, currency |-> cur] /\ q.qty > 0
  BY DEF LotFromReq
<1>2. q.qty \in Int
  BY DEF LotRequests
<1> QED BY <1>1, <1>2, ColumnsAre

(* handleUpdateLot: a lot that covers what was sold of it may be written.  *)
LEMMA LotEditReady ==
  ASSUME Quantities \subseteq Int, BookFine, "lots" \in Tables[topic], NEW id \in Ids("lots"),
         NEW q \in LotRequests, NEW l \in LotFromReq(q), LotStillCovers(l, id)
  PROVE  ReadyToDo("update", "lots", WithId(l, id))
<1>0. RowsFine /\ "lots" \in AllTables
  BY AllTablesAre DEF BookFine
<1>1. PICK n : n = WithId(l, id)
  OBVIOUS
<1>2. DOMAIN l = Columns["lots"] /\ l.qty \in Nat \ {0}
  BY LotReady
<1>2b. DOMAIN l = Columns["lots"]
  BY <1>2
<1>2c. /\ DOMAIN WithId(l, id) = Columns["lots"] \cup {"id"} /\ WithId(l, id).id = id /\ id \in Nat \ {0}
       /\ \A f \in Columns["lots"] : WithId(l, id)[f] = l[f]
       /\ Agrees("lots", WithId(l, id)) <=> Agrees("lots", l)
  BY ONLY <1>0, <1>2b, id \in Ids("lots"), Identified
<1>2a. /\ DOMAIN n = Columns["lots"] \cup {"id"} /\ n.id = id /\ n.id \in Nat \ {0}
       /\ \A f \in Columns["lots"] : n[f] = l[f]
       /\ Agrees("lots", n) <=> Agrees("lots", l)
  BY <1>1, <1>2c
<1>3. n.qty = l.qty
  BY <1>2a, ColumnsAre
<1>4. Passes("lots", n, n.id) /\ Agrees("lots", n)
  BY <1>2, <1>2a, <1>3 DEF Passes, LotStillCovers, Agrees
<1> QED BY <1>1, <1>2, <1>2a, <1>4, UpdateIsReady DEF ReadyToDo

(* What saleFits lets through names a lot that is there, is in its         *)
(* currency and fits into it with the other sales.                         *)
LEMMA SaleReady ==
  ASSUME Quantities \subseteq Int, BookFine, NEW s \in SaleRequests, NEW except, saleFits(s, except)
  PROVE  DOMAIN s = Columns["sales"] /\ Passes("sales", s, except) /\ Agrees("sales", s)
<1>0. RowsFine /\ "lots" \in AllTables
  BY AllTablesAre DEF BookFine
<1>1. s.lot \in Ids("lots") /\ s.qty \in Int /\ DOMAIN s = {"lot", "qty", "currency"}
  BY DEF SaleRequests
<1>2. s.lot \in 1..given["lots"]
  BY <1>0, <1>1, KnownId
<1>3. Passes("sales", s, except)
  BY <1>1, <1>2 DEF saleFits, Passes
<1>4. Agrees("sales", s)
  BY DEF saleFits, Agrees
<1> QED BY <1>1, <1>3, <1>4, ColumnsAre

(* UpdateSale: a sale that fits without its former self may be written.    *)
LEMMA SaleEditReady ==
  ASSUME Quantities \subseteq Int, BookFine, "sales" \in Tables[topic], NEW id \in Ids("sales"),
         NEW s \in SaleRequests, saleFits(s, id)
  PROVE  ReadyToDo("update", "sales", WithId(s, id))
<1>0. RowsFine /\ "sales" \in AllTables
  BY AllTablesAre DEF BookFine
<1>1. PICK n : n = WithId(s, id)
  OBVIOUS
<1>2. DOMAIN s = Columns["sales"] /\ Passes("sales", s, id) /\ Agrees("sales", s)
  BY SaleReady
<1>2b. DOMAIN s = Columns["sales"]
  BY <1>2
<1>2c. /\ DOMAIN WithId(s, id) = Columns["sales"] \cup {"id"} /\ WithId(s, id).id = id /\ id \in Nat \ {0}
       /\ \A f \in Columns["sales"] : WithId(s, id)[f] = s[f]
       /\ Agrees("sales", WithId(s, id)) <=> Agrees("sales", s)
  BY ONLY <1>0, <1>2b, id \in Ids("sales"), Identified
<1>2a. /\ DOMAIN n = Columns["sales"] \cup {"id"} /\ n.id = id /\ n.id \in Nat \ {0}
       /\ \A f \in Columns["sales"] : n[f] = s[f]
       /\ Agrees("sales", n) <=> Agrees("sales", s)
  BY <1>1, <1>2c
<1>3. n.qty = s.qty /\ n.lot = s.lot
  BY <1>2a, ColumnsAre
<1>4. Passes("sales", n, n.id)
  BY <1>2, <1>2a, <1>3 DEF Passes
<1> QED BY <1>1, <1>2, <1>2a, <1>4, UpdateIsReady DEF ReadyToDo

(* What checkDebtParent lets through lies in nothing or in a card of its   *)
(* currency, and in nothing if it is a card itself.                        *)
LEMMA DebtReady ==
  ASSUME NEW q \in DebtRequests, NEW d \in DebtFromReq(q), checkDebtParent(d)
  PROVE  /\ DOMAIN d = Columns["debts"] /\ (d.kind = "card" => d.card = 0)
         /\ Passes("debts", d, 0) /\ Agrees("debts", d)
<1>1. d = q /\ ~(q.kind = "card" /\ q.card # 0)
  BY DEF DebtFromReq
<1>2. DOMAIN q = {"kind", "currency", "card"}
  BY DEF DebtRequests
<1> QED BY <1>1, <1>2, ColumnsAre DEF Passes, Agrees

(* handleUpdateDebt: such a debt may be written if it does not lie in      *)
(* itself.                                                                 *)
LEMMA DebtEditReady ==
  ASSUME BookFine, "debts" \in Tables[topic], NEW id \in Ids("debts"), NEW q \in DebtRequests,
         NEW d \in DebtFromReq(q), checkDebtParent(d), d.card # id
  PROVE  ReadyToDo("update", "debts", WithId(d, id))
<1>0. RowsFine /\ "debts" \in AllTables
  BY AllTablesAre DEF BookFine
<1>1. PICK n : n = WithId(d, id)
  OBVIOUS
<1>2. DOMAIN d = Columns["debts"] /\ (d.kind = "card" => d.card = 0) /\ Agrees("debts", d)
  BY DebtReady
<1>2b. DOMAIN d = Columns["debts"]
  BY <1>2
<1>2c. /\ DOMAIN WithId(d, id) = Columns["debts"] \cup {"id"} /\ WithId(d, id).id = id /\ id \in Nat \ {0}
       /\ \A f \in Columns["debts"] : WithId(d, id)[f] = d[f]
       /\ Agrees("debts", WithId(d, id)) <=> Agrees("debts", d)
  BY ONLY <1>0, <1>2b, id \in Ids("debts"), Identified
<1>2a. /\ DOMAIN n = Columns["debts"] \cup {"id"} /\ n.id = id /\ n.id \in Nat \ {0}
       /\ \A f \in Columns["debts"] : n[f] = d[f]
       /\ Agrees("debts", n) <=> Agrees("debts", d)
  BY <1>1, <1>2c
<1>3. n.kind = d.kind /\ n.card = d.card
  BY <1>2a, ColumnsAre
<1>4. Passes("debts", n, n.id)
  BY <1>2, <1>2a, <1>3 DEF Passes
<1> QED BY <1>1, <1>2, <1>2a, <1>4, UpdateIsReady DEF ReadyToDo

(* The tables of a topic are tables.                                       *)
LEMMA InTopic ==
  ASSUME RowsFine, NEW t \in Tables[topic]
  PROVE  t \in AllTables
BY AllTablesAre DEF RowsFine

(* A row that has passed its checks may be inserted.                       *)
LEMMA InsertReadyToDo ==
  ASSUME NEW t \in Tables[topic], NEW r, DOMAIN r = Columns[t], Agrees(t, r), Passes(t, r, 0)
  PROVE  ReadyToDo("insert", t, r)
BY InsertIsReady DEF ReadyToDo

(* Rows of a table that has no rule of several rows of its own. *)
LEMMA EditReadyToDo ==
  ASSUME BookFine, NEW t \in Tables[topic], t \notin {"lots", "sales", "debts", "plan_receipts"},
         NEW id \in Ids(t), NEW r, DOMAIN r = Columns[t], Agrees(t, r)
  PROVE  ReadyToDo("update", t, WithId(r, id))
<1>0. RowsFine /\ t \in AllTables
  BY InTopic DEF BookFine
<1>1. PICK n : n = WithId(r, id)
  OBVIOUS
<1>2. /\ DOMAIN WithId(r, id) = Columns[t] \cup {"id"} /\ WithId(r, id).id = id /\ id \in Nat \ {0}
      /\ Agrees(t, WithId(r, id)) <=> Agrees(t, r)
  BY ONLY <1>0, DOMAIN r = Columns[t], id \in Ids(t), Identified
<1>3. DOMAIN n = Columns[t] \cup {"id"} /\ n.id \in Nat \ {0} /\ Agrees(t, n)
  BY <1>1, <1>2
<1>4. Passes(t, n, n.id)
  BY DEF Passes
<1> QED BY <1>1, <1>3, <1>4, UpdateIsReady DEF ReadyToDo

(* handleAddDebtOp, handleUpdateDebtOp: an operation is read in the        *)
(* currency of its debt.                                                   *)
LEMMA DebtOpReady ==
  ASSUME BookFine, NEW id \in Ids("debts"), NEW q, q.debt = id, DOMAIN q = {"debt"},
         NEW o \in InCurrencyOfDebt(q)
  PROVE  DOMAIN o = Columns["debt_ops"] /\ Agrees("debt_ops", o) /\ Passes("debt_ops", o, 0)
<1>1. o = With(q, "read", debtCurrency(q.debt))
  BY DEF InCurrencyOfDebt
<1>2. DOMAIN o = {"debt", "read"} /\ o.debt = q.debt /\ o.read = debtCurrency(q.debt)
  BY <1>1 DEF With
<1>3. Has("debts", q.debt)
  BY HasIds
<1> QED BY <1>2, <1>3, ColumnsAre DEF Agrees, Passes

(* handleAddDebtMark: a mark is read in the currency of its debt.          *)
LEMMA DebtMarkReady ==
  ASSUME BookFine, NEW q \in DebtMarkRequests, NEW m \in InCurrencyOfDebt(q)
  PROVE  DOMAIN m = Columns["debt_marks"] /\ Agrees("debt_marks", m) /\ Passes("debt_marks", m, 0)
<1>1. m = With(q, "read", debtCurrency(q.debt))
  BY DEF InCurrencyOfDebt
<1>2. DOMAIN q = {"debt", "date"} /\ q.debt \in Ids("debts")
  BY DEF DebtMarkRequests
<1>3. DOMAIN m = {"debt", "date", "read"} /\ m.debt = q.debt /\ m.read = debtCurrency(q.debt)
  BY <1>1, <1>2 DEF With
<1>4. Has("debts", q.debt)
  BY <1>2, HasIds
<1> QED BY <1>3, <1>4, ColumnsAre DEF Agrees, Passes

(* handleUpdateDebtMark: the mark is read in the currency of the debt the  *)
(* request names and written under the debt it had.                        *)
LEMMA DebtMarkEditReady ==
  ASSUME BookFine, "debt_marks" \in Tables[topic], NEW old \in book["debt_marks"],
         NEW q \in DebtMarkRequests, NEW m \in InCurrencyOfDebt(q)
  PROVE  ReadyToDo("update", "debt_marks", WithId([m EXCEPT !.debt = old.debt], old.id))
<1>0. RowsFine /\ "debt_marks" \in AllTables /\ old.id \in Ids("debt_marks")
  BY AllTablesAre DEF BookFine, Ids
<1>1. PICK r : r = [m EXCEPT !.debt = old.debt]
  OBVIOUS
<1>2. DOMAIN m = Columns["debt_marks"]
  BY DebtMarkReady
<1>3. DOMAIN r = Columns["debt_marks"]
  BY <1>1, <1>2
<1>4. DOMAIN WithId(r, old.id) = Columns["debt_marks"] \cup {"id"}
      /\ WithId(r, old.id).id = old.id /\ old.id \in Nat \ {0}
  BY ONLY <1>0, <1>3, Identified
<1>5. PICK n : n = WithId(r, old.id)
  OBVIOUS
<1>6. PICK p : p = [do |-> "update", table |-> "debt_marks", row |-> n]
  OBVIOUS
<1>7. Passes("debt_marks", n, n.id) /\ Excused(p)
  BY <1>6 DEF Passes, Excused
<1>8. DOMAIN n = Columns["debt_marks"] \cup {"id"} /\ n.id \in Nat \ {0}
  BY <1>4, <1>5
<1>9. Ready(p)
  BY ONLY "debt_marks" \in Tables[topic], <1>6, <1>7, <1>8, UpdateIsReady
<1> QED BY <1>1, <1>5, <1>6, <1>9 DEF ReadyToDo

(* A receipt that names a source of income is in its currency.             *)
LEMMA ReceiptReady ==
  ASSUME BookFine, NEW q \in ReceiptRequests, NEW r \in PlanReceiptFromReq(q), NEW except
  PROVE  /\ DOMAIN r = Columns["plan_receipts"] /\ r.flow \in 0..given["plan_flows"]
         /\ Agrees("plan_receipts", r) /\ Passes("plan_receipts", r, except)
<1>0. RowsFine /\ "plan_flows" \in AllTables
  BY AllTablesAre DEF BookFine
<1>1. DOMAIN q = {"flow", "month", "currency"} /\ q.flow \in Ids("plan_flows") \cup {0}
  BY DEF ReceiptRequests, IdsOrNone
<1>2. given["plan_flows"] \in Nat /\ \A f \in book["plan_flows"] : f.id \in 1..given["plan_flows"]
  BY <1>0 DEF RowsFine
<1>3. q.flow \in 0..given["plan_flows"]
  BY <1>1, <1>2 DEF Ids
<1>4. CASE q.flow = 0
  <2>1. r = [q EXCEPT !.currency = OrHryvnia(@)]
    BY <1>4 DEF PlanReceiptFromReq
  <2>2. DOMAIN r = DOMAIN q /\ r.flow = q.flow
    BY <1>1, <2>1
  <2>3. \A f \in book["plan_flows"] : f.id # r.flow
    BY <1>2, <1>4, <2>2
  <2> QED BY <1>1, <1>3, <2>2, <2>3, ColumnsAre DEF Agrees, Passes
<1>5. CASE q.flow # 0
  <2>1. PICK f \in book["plan_flows"] :
          r = [q EXCEPT !.currency = f.currency] /\ f.id = q.flow /\ f.kind = "income"
    BY <1>5 DEF PlanReceiptFromReq
  <2>2. DOMAIN r = DOMAIN q /\ r.flow = q.flow /\ r.currency = f.currency
    BY <1>1, <2>1
  <2>3. \A g \in book["plan_flows"] : g.id = r.flow => g = f
    BY <1>0, <2>1, <2>2 DEF RowsFine
  <2>4. Agrees("plan_receipts", r)
    BY <2>1, <2>2, <2>3 DEF Agrees
  <2> QED BY <1>1, <1>3, <2>2, <2>4, ColumnsAre DEF Passes
<1> QED BY <1>4, <1>5

(* handleUpdatePlanReceipt: such a receipt may be written.                 *)
LEMMA ReceiptEditReady ==
  ASSUME BookFine, "plan_receipts" \in Tables[topic], NEW id \in Ids("plan_receipts"),
         NEW q \in ReceiptRequests, NEW r \in PlanReceiptFromReq(q)
  PROVE  ReadyToDo("update", "plan_receipts", WithId(r, id))
<1>0. RowsFine /\ "plan_receipts" \in AllTables
  BY AllTablesAre DEF BookFine
<1>1. /\ DOMAIN r = Columns["plan_receipts"] /\ r.flow \in 0..given["plan_flows"]
      /\ Agrees("plan_receipts", r)
  BY ReceiptReady
<1>2. PICK n : n = WithId(r, id)
  OBVIOUS
<1>3. /\ DOMAIN WithId(r, id) = Columns["plan_receipts"] \cup {"id"} /\ WithId(r, id).id = id
      /\ id \in Nat \ {0} /\ \A f \in Columns["plan_receipts"] : WithId(r, id)[f] = r[f]
      /\ Agrees("plan_receipts", WithId(r, id)) <=> Agrees("plan_receipts", r)
  <2>1. DOMAIN r = Columns["plan_receipts"]
    BY <1>1
  <2>2. ASSUME NEW t \in AllTables, DOMAIN r = Columns[t], id \in Ids(t)
        PROVE  /\ DOMAIN WithId(r, id) = Columns[t] \cup {"id"} /\ WithId(r, id).id = id
               /\ id \in Nat \ {0} /\ \A f \in Columns[t] : WithId(r, id)[f] = r[f]
               /\ Agrees(t, WithId(r, id)) <=> Agrees(t, r)
    BY ONLY <1>0, <2>2, Identified
  <2> QED BY ONLY <1>0, <2>1, <2>2, id \in Ids("plan_receipts")
<1>4. /\ DOMAIN n = Columns["plan_receipts"] \cup {"id"} /\ n.id \in Nat \ {0}
      /\ Agrees("plan_receipts", n)
  BY <1>1, <1>2, <1>3
<1>5. n.flow = r.flow
  BY <1>2, <1>3, ColumnsAre
<1>6. Passes("plan_receipts", n, n.id)
  BY <1>1, <1>5 DEF Passes
<1> QED BY <1>2, <1>4, <1>6, UpdateIsReady DEF ReadyToDo

(* handleAddDepositTopup: a top-up is read in the currency of its deposit. *)
LEMMA TopupReady ==
  ASSUME BookFine, NEW id \in Ids("term_deposits"), NEW t \in topupFromReq(id)
  PROVE  /\ DOMAIN t = Columns["deposit_topups"]
         /\ Agrees("deposit_topups", t) /\ Passes("deposit_topups", t, 0)
<1>0. RowsFine /\ "term_deposits" \in AllTables
  BY AllTablesAre DEF BookFine
<1>1. PICK d \in book["term_deposits"] : t = [deposit |-> d.id, read |-> d.currency]
  BY DEF topupFromReq
<1>2. Has("term_deposits", d.id) /\ Row("term_deposits", d.id) = d
  BY <1>0, RowIs
<1> QED BY <1>1, <1>2, ColumnsAre DEF Agrees, Passes

(* handleUpdateDepositTopup: a top-up stays with the deposit it had, in    *)
(* whatever currency it was read.                                          *)
LEMMA TopupEditReady ==
  ASSUME BookFine, "deposit_topups" \in Tables[topic], NEW old \in book["deposit_topups"], NEW read
  PROVE  ReadyToDo("update", "deposit_topups", [old EXCEPT !.read = read])
<1>0. RowsFine /\ "deposit_topups" \in AllTables /\ old.id \in Ids("deposit_topups")
  BY AllTablesAre DEF BookFine, Ids
<1>1. PICK n : n = [old EXCEPT !.read = read]
  OBVIOUS
<1>2. DOMAIN old = Columns["deposit_topups"] \cup {"id"} /\ old.id \in Nat \ {0}
  BY <1>0, KnownId DEF RowsFine
<1>3. DOMAIN n = Columns["deposit_topups"] \cup {"id"} /\ n.id \in Nat \ {0}
  BY <1>1, <1>2, ColumnsAre
<1>4. PICK p : p = [do |-> "update", table |-> "deposit_topups", row |-> n]
  OBVIOUS
<1>5. Passes("deposit_topups", n, n.id) /\ Excused(p)
  BY <1>4 DEF Passes, Excused
<1>6. Ready(p)
  BY ONLY "deposit_topups" \in Tables[topic], <1>3, <1>4, <1>5, UpdateIsReady
<1> QED BY <1>1, <1>4, <1>6 DEF ReadyToDo

(* handleAddNPFOp, handleUpdateNPFOp: a movement is read in the currency   *)
(* of its account.                                                         *)
LEMMA PensionOpReady ==
  ASSUME BookFine, NEW id \in Ids("npf_accounts"), NEW o \in NPFOpFromReq(id)
  PROVE  DOMAIN o = Columns["npf_ops"] /\ Agrees("npf_ops", o) /\ Passes("npf_ops", o, 0)
<1>0. RowsFine /\ "npf_accounts" \in AllTables
  BY AllTablesAre DEF BookFine
<1>1. PICK a \in book["npf_accounts"] : o = [account |-> a.id, read |-> a.currency]
  BY DEF NPFOpFromReq
<1>2. Has("npf_accounts", a.id) /\ Row("npf_accounts", a.id) = a
  BY <1>0, RowIs
<1> QED BY <1>1, <1>2, ColumnsAre DEF Agrees, Passes

(* UpdateNPFNavPoint: nothing of the account matters to a value of its     *)
(* unit.                                                                   *)
LEMMA NavEditReady ==
  ASSUME BookFine, "npf_nav" \in Tables[topic], NEW o \in book["npf_nav"], NEW d
  PROVE  ReadyToDo("update", "npf_nav", [o EXCEPT !.date = d])
<1>0. RowsFine /\ "npf_nav" \in AllTables /\ o.id \in Ids("npf_nav")
  BY AllTablesAre DEF BookFine, Ids
<1>1. PICK n : n = [o EXCEPT !.date = d]
  OBVIOUS
<1>2. DOMAIN o = Columns["npf_nav"] \cup {"id"} /\ o.id \in Nat \ {0}
  BY <1>0, KnownId DEF RowsFine
<1>3. DOMAIN n = Columns["npf_nav"] \cup {"id"} /\ n.id \in Nat \ {0}
  BY <1>1, <1>2, ColumnsAre
<1>4. Passes("npf_nav", n, n.id) /\ Agrees("npf_nav", n)
  BY DEF Passes, Agrees
<1> QED BY ONLY "npf_nav" \in Tables[topic], <1>1, <1>3, <1>4, UpdateIsReady DEF ReadyToDo

(* An account refers to no other row.                                      *)
LEMMA AccountReady ==
  ASSUME NEW a \in NPFAccountRequests
  PROVE  DOMAIN a = Columns["npf_accounts"] /\ Agrees("npf_accounts", a) /\ Passes("npf_accounts", a, 0)
BY ColumnsAre DEF NPFAccountRequests, Agrees, Passes

(* An edit without a note carries the note it has read. *)
LEMMA NoteReady ==
  ASSUME BookFine, "npf_accounts" \in Tables[topic], NEW id \in Ids("npf_accounts"),
         NEW a \in NPFAccountRequests
  PROVE  ReadyToDo("update but for the note", "npf_accounts",
                   WithId([a EXCEPT !.note = NoteKept(id)], id))
<1>0. RowsFine /\ "npf_accounts" \in AllTables
  BY AllTablesAre DEF BookFine
<1>1. PICK r : r = [a EXCEPT !.note = NoteKept(id)]
  OBVIOUS
<1>2. DOMAIN a = {"currency", "note"}
  BY DEF NPFAccountRequests
<1>3. DOMAIN r = Columns["npf_accounts"] /\ r.note = NoteKept(id)
  BY <1>1, <1>2, ColumnsAre
<1>4. PICK n : n = WithId(r, id)
  OBVIOUS
<1>5. /\ DOMAIN WithId(r, id) = Columns["npf_accounts"] \cup {"id"} /\ WithId(r, id).id = id
      /\ id \in Nat \ {0} /\ \A f \in Columns["npf_accounts"] : WithId(r, id)[f] = r[f]
  <2>1. DOMAIN r = Columns["npf_accounts"]
    BY <1>3
  <2> QED BY ONLY <1>0, <2>1, id \in Ids("npf_accounts"), Identified
<1>6. /\ DOMAIN n = Columns["npf_accounts"] \cup {"id"} /\ n.id = id /\ id \in Nat \ {0}
      /\ n.note = NoteKept(id)
  BY <1>3, <1>4, <1>5, ColumnsAre
<1>7. \A b \in book["npf_accounts"] : b.id = id => b.note = NoteKept(id)
  BY <1>0, RowIs DEF NoteKept
<1>8. PICK p : p = [do |-> "update but for the note", table |-> "npf_accounts", row |-> n]
  OBVIOUS
<1>9. Passes("npf_accounts", n, n.id) /\ Agrees("npf_accounts", n)
  BY DEF Passes, Agrees
<1>10. Ready(p)
  BY <1>6, <1>7, <1>8, <1>9 DEF Ready, Edit
<1> QED BY <1>1, <1>4, <1>8, <1>10 DEF ReadyToDo

(* The requests that look at other rows before they write.                 *)
CheckedRequest(c) ==
  \/ handleUpdateLot(c) \/ AddSale(c) \/ UpdateSale(c) \/ handleAddReserveLoan(c)
  \/ handleAddDebt(c) \/ handleUpdateDebt(c) \/ handleAddDebtOp(c) \/ handleUpdateDebtOp(c)
  \/ handleAddDebtMark(c) \/ handleUpdateDebtMark(c)
  \/ handleAddPlanReceipt(c) \/ handleUpdatePlanReceipt(c)
  \/ handleAddDepositTopup(c) \/ handleUpdateDepositTopup(c)
  \/ handleUpdateNPFAccount(c) \/ handleAddNPFOp(c) \/ handleUpdateNPFOp(c)
  \/ UpdateNPFNavPoint(c)

(* What such a request is about to write has passed the checks of the row. *)
LEMMA CheckedReady ==
  ASSUME Quantities \subseteq Int, BookFine, NEW c, CheckedRequest(c)
  PROVE  \E do, t, r : Checked(c, do, t, r) /\ ReadyToDo(do, t, r)
<1> DEFINE Goal == \E do, t, r : Checked(c, do, t, r) /\ ReadyToDo(do, t, r)
<1>0. \A do, t, r : Checked(c, do, t, r) => t \in Tables[topic]
  BY DEF Checked
<1>g. ASSUME NEW do, NEW t, NEW r, Checked(c, do, t, r), ReadyToDo(do, t, r) PROVE Goal
  BY <1>g
<1> SUFFICES Goal
  OBVIOUS
<1> HIDE DEF Goal
<1>1. CASE handleUpdateLot(c)
  <2>1. PICK id \in Ids("lots"), q \in LotRequests : \E l \in LotFromReq(q) :
          LotStillCovers(l, id) /\ Checked(c, "update", "lots", WithId(l, id))
    BY <1>1 DEF handleUpdateLot
  <2>2. PICK l \in LotFromReq(q) :
          LotStillCovers(l, id) /\ Checked(c, "update", "lots", WithId(l, id))
    BY <2>1
  <2> QED BY <1>0, <1>g, <2>2, LotEditReady
<1>2. CASE AddSale(c)
  <2>1. PICK s \in SaleRequests : saleFits(s, 0) /\ Checked(c, "insert", "sales", s)
    BY <1>2 DEF AddSale
  <2> QED BY <1>0, <1>g, <2>1, SaleReady, InsertReadyToDo
<1>3. CASE UpdateSale(c)
  <2>1. PICK id \in Ids("sales"), s \in SaleRequests :
          saleFits(s, id) /\ Checked(c, "update", "sales", WithId(s, id))
    BY <1>3 DEF UpdateSale
  <2> QED BY <1>0, <1>g, <2>1, SaleEditReady
<1>4. CASE handleAddReserveLoan(c)
  <2>1. PICK id \in Ids("reserve_ops"), rate \in LoanRates :
          IsWithdrawal(id) /\ Checked(c, "insert", "reserve_loans", [op |-> id, rate |-> rate])
    BY <1>4 DEF handleAddReserveLoan
  <2>2. PICK r : r = [op |-> id, rate |-> rate]
    OBVIOUS
  <2>3. /\ DOMAIN r = Columns["reserve_loans"] /\ Agrees("reserve_loans", r)
        /\ Passes("reserve_loans", r, 0)
    BY <2>1, <2>2, ColumnsAre DEF Agrees, Passes
  <2> QED BY <1>0, <1>g, <2>1, <2>2, <2>3, InsertReadyToDo
<1>5. CASE handleAddDebt(c)
  <2>1. PICK q \in DebtRequests : \E d \in DebtFromReq(q) :
          checkDebtParent(d) /\ Checked(c, "insert", "debts", d)
    BY <1>5 DEF handleAddDebt
  <2>2. PICK d \in DebtFromReq(q) : checkDebtParent(d) /\ Checked(c, "insert", "debts", d)
    BY <2>1
  <2> QED BY <1>0, <1>g, <2>2, DebtReady, InsertReadyToDo
<1>6. CASE handleUpdateDebt(c)
  <2>1. PICK id \in Ids("debts"), q \in DebtRequests : \E d \in DebtFromReq(q) :
          d.card # id /\ checkDebtParent(d) /\ Checked(c, "update", "debts", WithId(d, id))
    BY <1>6 DEF handleUpdateDebt
  <2>2. PICK d \in DebtFromReq(q) :
          d.card # id /\ checkDebtParent(d) /\ Checked(c, "update", "debts", WithId(d, id))
    BY <2>1
  <2> QED BY <1>0, <1>g, <2>2, DebtEditReady
<1>7. CASE handleAddDebtOp(c)
  <2>1. PICK q \in DebtOpRequests : \E o \in InCurrencyOfDebt(q) : Checked(c, "insert", "debt_ops", o)
    BY <1>7 DEF handleAddDebtOp
  <2>2. PICK o \in InCurrencyOfDebt(q) : Checked(c, "insert", "debt_ops", o)
    BY <2>1
  <2>3. q.debt \in Ids("debts") /\ DOMAIN q = {"debt"}
    BY DEF DebtOpRequests
  <2>4. DOMAIN o = Columns["debt_ops"] /\ Agrees("debt_ops", o) /\ Passes("debt_ops", o, 0)
    BY <2>3, DebtOpReady
  <2> QED BY <1>0, <1>g, <2>2, <2>4, InsertReadyToDo
<1>8. CASE handleUpdateDebtOp(c)
  <2>1. PICK id \in Ids("debt_ops"), q \in DebtOpRequests : \E o \in InCurrencyOfDebt(q) :
          Checked(c, "update", "debt_ops", WithId(o, id))
    BY <1>8 DEF handleUpdateDebtOp
  <2>2. PICK o \in InCurrencyOfDebt(q) : Checked(c, "update", "debt_ops", WithId(o, id))
    BY <2>1
  <2>3. q.debt \in Ids("debts") /\ DOMAIN q = {"debt"}
    BY DEF DebtOpRequests
  <2>4. DOMAIN o = Columns["debt_ops"] /\ Agrees("debt_ops", o)
    BY <2>3, DebtOpReady
  <2> QED BY <1>0, <1>g, <2>2, <2>4, EditReadyToDo
<1>9. CASE handleAddDebtMark(c)
  <2>1. PICK q \in DebtMarkRequests : \E m \in InCurrencyOfDebt(q) : Checked(c, "upsert", "debt_marks", m)
    BY <1>9 DEF handleAddDebtMark
  <2>2. PICK m \in InCurrencyOfDebt(q) : Checked(c, "upsert", "debt_marks", m)
    BY <2>1
  <2>3. DOMAIN m = Columns["debt_marks"] /\ Agrees("debt_marks", m) /\ Passes("debt_marks", m, 0)
    BY DebtMarkReady
  <2>4. ReadyToDo("upsert", "debt_marks", m)
    BY <1>0, <2>2, <2>3, UpsertIsReady DEF ReadyToDo
  <2> QED BY <1>g, <2>2, <2>4
<1>10. CASE handleUpdateDebtMark(c)
  <2>1. PICK old \in book["debt_marks"], q \in DebtMarkRequests : \E m \in InCurrencyOfDebt(q) :
          Checked(c, "update", "debt_marks", WithId([m EXCEPT !.debt = old.debt], old.id))
    BY <1>10 DEF handleUpdateDebtMark
  <2>2. PICK m \in InCurrencyOfDebt(q) :
          Checked(c, "update", "debt_marks", WithId([m EXCEPT !.debt = old.debt], old.id))
    BY <2>1
  <2> QED BY <1>0, <1>g, <2>2, DebtMarkEditReady
<1>11. CASE handleAddPlanReceipt(c)
  <2>1. PICK q \in ReceiptRequests : \E r \in PlanReceiptFromReq(q) : Checked(c, "insert", "plan_receipts", r)
    BY <1>11 DEF handleAddPlanReceipt
  <2>2. PICK r \in PlanReceiptFromReq(q) : Checked(c, "insert", "plan_receipts", r)
    BY <2>1
  <2> QED BY <1>0, <1>g, <2>2, ReceiptReady, InsertReadyToDo
<1>12. CASE handleUpdatePlanReceipt(c)
  <2>1. PICK id \in Ids("plan_receipts"), q \in ReceiptRequests : \E r \in PlanReceiptFromReq(q) :
          Checked(c, "update", "plan_receipts", WithId(r, id))
    BY <1>12 DEF handleUpdatePlanReceipt
  <2>2. PICK r \in PlanReceiptFromReq(q) : Checked(c, "update", "plan_receipts", WithId(r, id))
    BY <2>1
  <2> QED BY <1>0, <1>g, <2>2, ReceiptEditReady
<1>13. CASE handleAddDepositTopup(c)
  <2>1. PICK id \in Ids("term_deposits") : \E t \in topupFromReq(id) :
          Checked(c, "insert", "deposit_topups", t)
    BY <1>13 DEF handleAddDepositTopup
  <2>2. PICK t \in topupFromReq(id) : Checked(c, "insert", "deposit_topups", t)
    BY <2>1
  <2> QED BY <1>0, <1>g, <2>2, TopupReady, InsertReadyToDo
<1>14. CASE handleUpdateDepositTopup(c)
  <2>1. PICK old \in book["deposit_topups"], id \in Ids("term_deposits") : \E t \in topupFromReq(id) :
          Checked(c, "update", "deposit_topups", [old EXCEPT !.read = t.read])
    BY <1>14 DEF handleUpdateDepositTopup
  <2>2. PICK t \in topupFromReq(id) : Checked(c, "update", "deposit_topups", [old EXCEPT !.read = t.read])
    BY <2>1
  <2> QED BY <1>0, <1>g, <2>2, TopupEditReady
<1>15. CASE handleUpdateNPFAccount(c)
  <2>1. PICK id \in Ids("npf_accounts"), a \in NPFAccountRequests :
          \/ Checked(c, "update", "npf_accounts", WithId(a, id))
          \/ Checked(c, "update but for the note", "npf_accounts",
                     WithId([a EXCEPT !.note = NoteKept(id)], id))
    BY <1>15 DEF handleUpdateNPFAccount
  <2>2. CASE Checked(c, "update", "npf_accounts", WithId(a, id))
    BY <1>0, <1>g, <2>2, AccountReady, EditReadyToDo
  <2>3. CASE Checked(c, "update but for the note", "npf_accounts",
                     WithId([a EXCEPT !.note = NoteKept(id)], id))
    BY <1>0, <1>g, <2>3, NoteReady
  <2> QED BY <2>1, <2>2, <2>3
<1>16. CASE handleAddNPFOp(c)
  <2>1. PICK id \in Ids("npf_accounts") : \E o \in NPFOpFromReq(id) : Checked(c, "insert", "npf_ops", o)
    BY <1>16 DEF handleAddNPFOp
  <2>2. PICK o \in NPFOpFromReq(id) : Checked(c, "insert", "npf_ops", o)
    BY <2>1
  <2> QED BY <1>0, <1>g, <2>2, PensionOpReady, InsertReadyToDo
<1>17. CASE handleUpdateNPFOp(c)
  <2>1. PICK old \in Ids("npf_ops"), id \in Ids("npf_accounts") : \E o \in NPFOpFromReq(id) :
          Checked(c, "update", "npf_ops", WithId(o, old))
    BY <1>17 DEF handleUpdateNPFOp
  <2>2. PICK o \in NPFOpFromReq(id) : Checked(c, "update", "npf_ops", WithId(o, old))
    BY <2>1
  <2> QED BY <1>0, <1>g, <2>2, PensionOpReady, EditReadyToDo
<1>18. CASE UpdateNPFNavPoint(c)
  <2>1. PICK o \in book["npf_nav"], d \in Days : Checked(c, "update", "npf_nav", [o EXCEPT !.date = d])
    BY <1>18 DEF UpdateNPFNavPoint
  <2> QED BY <1>0, <1>g, <2>1, NavEditReady
<1> QED BY ONLY <1>1, <1>2, <1>3, <1>4, <1>5, <1>6, <1>7, <1>8, <1>9, <1>10, <1>11, <1>12, <1>13,
               <1>14, <1>15, <1>16, <1>17, <1>18, CheckedRequest(c) DEF CheckedRequest

(* The requests that write at once.                                        *)
OneStatement ==
  \/ AddLot \/ UpdateReserveOp \/ UpdateReserveLoan \/ AddPlanFlow \/ UpdatePlanFlow
  \/ AddTermDeposit \/ UpdateTermDeposit \/ AddNPFAccount \/ AddNPFNavPoints

(* Each of them keeps the books in order, and makes a misfit only by       *)
(* editing a row that others refer to.                                     *)
LEMMA OneStatementKeeps ==
  ASSUME Quantities \subseteq Int, BookFine, OneStatement
  PROVE  BookFine' /\ (~EditsARowOthersReferTo => MisfitIds' \subseteq MisfitIds)
<1> DEFINE Done == BookFine' /\ (~EditsARowOthersReferTo => MisfitIds' \subseteq MisfitIds)
<1> SUFFICES Done
  OBVIOUS
<1>0. RowsFine
  BY DEF BookFine
<1>i. ASSUME NEW t \in Tables[topic], NEW r, DOMAIN r = Columns[t], Passes(t, r, 0), Agrees(t, r),
             topic' = topic, Insert(t, r)
      PROVE  Done
  BY <1>i, InsertKeeps
<1>u. ASSUME NEW t \in Tables[topic], t \notin {"lots", "sales", "debts", "plan_receipts"},
             NEW id \in Ids(t), NEW r, DOMAIN r = Columns[t], Agrees(t, r),
             topic' = topic, Update(t, WithId(r, id))
      PROVE  Done
  <2>0. t \in AllTables
    BY <1>0, InTopic
  <2>1. PICK n : n = WithId(r, id)
    OBVIOUS
  <2>2. /\ DOMAIN WithId(r, id) = Columns[t] \cup {"id"} /\ WithId(r, id).id = id /\ id \in Nat \ {0}
        /\ Agrees(t, WithId(r, id)) <=> Agrees(t, r)
    BY ONLY <1>0, <2>0, DOMAIN r = Columns[t], id \in Ids(t), Identified
  <2>3. DOMAIN n = Columns[t] \cup {"id"} /\ n.id \in Nat \ {0} /\ Agrees(t, n)
    BY <1>u, <2>1, <2>2
  <2>4. Has(t, n.id) /\ book' = Replace(t, n) /\ given' = given
    BY <1>u, <2>1 DEF Update
  <2>5. Passes(t, n, n.id)
    BY <1>u DEF Passes
  <2> QED BY <1>u, <2>3, <2>4, <2>5, EditKeeps
<1> HIDE DEF Done
<1>1. CASE AddLot
  <2>1. PICK q \in LotRequests : \E l \in LotFromReq(q) : AtOnce("lots", Insert("lots", l))
    BY <1>1 DEF AddLot
  <2>2. PICK l \in LotFromReq(q) : AtOnce("lots", Insert("lots", l))
    BY <2>1
  <2>3. "lots" \in Tables[topic] /\ Insert("lots", l) /\ topic' = topic
    BY <2>2 DEF AtOnce
  <2>4. DOMAIN l = Columns["lots"] /\ l.qty \in Nat \ {0}
    BY LotReady
  <2>5. Passes("lots", l, 0) /\ Agrees("lots", l)
    BY <2>4 DEF Passes, Agrees
  <2> QED BY <1>i, <2>3, <2>4, <2>5
<1>2. CASE UpdateReserveOp
  <2>1. PICK id \in Ids("reserve_ops"), q \in ReserveRequests : \E o \in ReserveFromReq(q) :
          AtOnce("reserve_ops", Update("reserve_ops", WithId(o, id)))
    BY <1>2 DEF UpdateReserveOp
  <2>2. PICK o \in ReserveFromReq(q) : AtOnce("reserve_ops", Update("reserve_ops", WithId(o, id)))
    BY <2>1
  <2>3. "reserve_ops" \in Tables[topic] /\ Update("reserve_ops", WithId(o, id)) /\ topic' = topic
    BY <2>2 DEF AtOnce
  <2>4. DOMAIN o = Columns["reserve_ops"]
    BY ColumnsAre DEF ReserveFromReq, ReserveRequests
  <2>5. Agrees("reserve_ops", o)
    BY DEF Agrees
  <2> QED BY <1>u, <2>3, <2>4, <2>5
<1>3. CASE UpdateReserveLoan
  <2>1. PICK l \in book["reserve_loans"], rate \in LoanRates :
          AtOnce("reserve_loans", Update("reserve_loans", [l EXCEPT !.rate = rate]))
    BY <1>3 DEF UpdateReserveLoan
  <2>2. "reserve_loans" \in Tables[topic] /\ "reserve_loans" \in AllTables /\ topic' = topic
        /\ Update("reserve_loans", [l EXCEPT !.rate = rate])
    BY <2>1, AllTablesAre DEF AtOnce
  <2>3. DOMAIN l = Columns["reserve_loans"] \cup {"id"} /\ l.id \in Nat \ {0}
    <3>1. DOMAIN l = Columns["reserve_loans"] \cup {"id"}
      BY <1>0, <2>2 DEF RowsFine
    <3>2. l.id \in Ids("reserve_loans")
      BY DEF Ids
    <3> QED BY <1>0, <2>2, <3>1, <3>2, KnownId
  <2>4. PICK n : n = [l EXCEPT !.rate = rate]
    OBVIOUS
  <2>5. DOMAIN n = Columns["reserve_loans"] \cup {"id"} /\ n.id = l.id /\ n.op = l.op
    BY <2>3, <2>4, ColumnsAre
  <2>6. Agrees("reserve_loans", n) <=> Agrees("reserve_loans", l)
    BY <2>5 DEF Agrees
  <2>7. Has("reserve_loans", n.id) /\ book' = Replace("reserve_loans", n) /\ given' = given
    BY <2>2, <2>4 DEF Update
  <2>8. Passes("reserve_loans", n, n.id)
    BY DEF Passes
  <2>9. Agrees("reserve_loans", n) \/ \E o \in book["reserve_loans"] : o.id = n.id /\ ~Agrees("reserve_loans", o)
    BY <2>5, <2>6
  <2>10. n.id \in Nat \ {0} /\ topic' = topic /\ "reserve_loans" \in Tables[topic]
    BY <2>2, <2>3, <2>5
  <2>11. /\ BookFine'
         /\ ~EditsARowOthersReferTo
              /\ (Agrees("reserve_loans", n)
                    \/ \E o \in book["reserve_loans"] : o.id = n.id /\ ~Agrees("reserve_loans", o))
              => MisfitIds' \subseteq MisfitIds
    BY ONLY BookFine, <2>5, <2>7, <2>8, <2>10, EditKeeps
  <2> QED BY <2>9, <2>11 DEF Done
<1>4. CASE AddPlanFlow
  <2>1. PICK f \in PlanFlowRequests : AtOnce("plan_flows", Insert("plan_flows", f))
    BY <1>4 DEF AddPlanFlow
  <2>2. "plan_flows" \in Tables[topic] /\ Insert("plan_flows", f) /\ topic' = topic
    BY <2>1 DEF AtOnce
  <2>3. DOMAIN f = Columns["plan_flows"] /\ Passes("plan_flows", f, 0) /\ Agrees("plan_flows", f)
    BY ColumnsAre DEF PlanFlowRequests, Passes, Agrees
  <2> QED BY <1>i, <2>2, <2>3
<1>5. CASE UpdatePlanFlow
  <2>1. PICK id \in Ids("plan_flows"), f \in PlanFlowRequests :
          AtOnce("plan_flows", Update("plan_flows", WithId(f, id)))
    BY <1>5 DEF UpdatePlanFlow
  <2>2. "plan_flows" \in Tables[topic] /\ Update("plan_flows", WithId(f, id)) /\ topic' = topic
    BY <2>1 DEF AtOnce
  <2>3. DOMAIN f = Columns["plan_flows"] /\ Agrees("plan_flows", f)
    BY ColumnsAre DEF PlanFlowRequests, Agrees
  <2> QED BY <1>u, <2>2, <2>3
<1>6. CASE AddTermDeposit
  <2>1. PICK d \in TermDepositRequests : AtOnce("term_deposits", Insert("term_deposits", d))
    BY <1>6 DEF AddTermDeposit
  <2>2. "term_deposits" \in Tables[topic] /\ Insert("term_deposits", d) /\ topic' = topic
    BY <2>1 DEF AtOnce
  <2>3. /\ DOMAIN d = Columns["term_deposits"] /\ Passes("term_deposits", d, 0)
        /\ Agrees("term_deposits", d)
    BY ColumnsAre DEF TermDepositRequests, Passes, Agrees
  <2> QED BY <1>i, <2>2, <2>3
<1>7. CASE UpdateTermDeposit
  <2>1. PICK id \in Ids("term_deposits"), d \in TermDepositRequests :
          AtOnce("term_deposits", Update("term_deposits", WithId(d, id)))
    BY <1>7 DEF UpdateTermDeposit
  <2>2. "term_deposits" \in Tables[topic] /\ Update("term_deposits", WithId(d, id)) /\ topic' = topic
    BY <2>1 DEF AtOnce
  <2>3. DOMAIN d = Columns["term_deposits"] /\ Agrees("term_deposits", d)
    BY ColumnsAre DEF TermDepositRequests, Agrees
  <2> QED BY <1>u, <2>2, <2>3
<1>8. CASE AddNPFAccount
  <2>1. PICK a \in NPFAccountRequests : AtOnce("npf_accounts", Insert("npf_accounts", a))
    BY <1>8 DEF AddNPFAccount
  <2>2. "npf_accounts" \in Tables[topic] /\ Insert("npf_accounts", a) /\ topic' = topic
    BY <2>1 DEF AtOnce
  <2> QED BY <1>i, <2>2, AccountReady
<1>9. CASE AddNPFNavPoints
  <2>1. PICK id \in Ids("npf_accounts"), d \in Days :
          AtOnce("npf_nav", Upsert("npf_nav", [account |-> id, date |-> d]))
    BY <1>9 DEF AddNPFNavPoints
  <2>2. PICK r : r = [account |-> id, date |-> d]
    OBVIOUS
  <2>3. "npf_nav" \in Tables[topic] /\ Upsert("npf_nav", r) /\ topic' = topic
    BY <2>1, <2>2 DEF AtOnce
  <2>4. DOMAIN r = Columns["npf_nav"] /\ Passes("npf_nav", r, 0) /\ Agrees("npf_nav", r)
    BY <2>2, ColumnsAre DEF Passes, Agrees
  <2>5. CASE Insert("npf_nav", r)
    BY <1>i, <2>3, <2>4, <2>5
  <2>6. ASSUME NEW o \in book["npf_nav"], book' = Replace("npf_nav", WithId(r, o.id)), given' = given
        PROVE  Done
    <3>1. "npf_nav" \in {"debt_marks", "npf_nav"}
      OBVIOUS
    <3> QED BY ONLY BookFine, <2>3, <2>4, <2>6, <3>1, OverwriteKeeps DEF Done
  <2> QED BY <2>3, <2>5, <2>6 DEF Upsert
<1> QED BY ONLY <1>1, <1>2, <1>3, <1>4, <1>5, <1>6, <1>7, <1>8, <1>9, OneStatement DEF OneStatement

-----------------------------------------------------------------------------
(* A step.                                                                 *)

(* What was ready stays so while the books stay as they are.               *)
LEMMA ReadyStays ==
  ASSUME topic' = topic, book' = book, given' = given, NEW p, Ready(p)
  PROVE  Ready(p)'
BY DEF Ready, Passes, Agrees, SameLoan, Excused, SoldFrom, Has, Row, IsWithdrawal, IsCard,
       checkDebtParent, debtCurrency

(* Whoever leaves the books alone keeps them in order.                     *)
LEMMA BooksSame ==
  ASSUME topic' = topic, book' = book, given' = given, BookFine
  PROVE  BookFine' /\ MisfitIds' \subseteq MisfitIds
<1>1. RowsFine' /\ PapersFine' /\ DebtsFine' /\ ReceiptsFine'
  BY DEF BookFine, RowsFine, PapersFine, DebtsFine, Grounded, ReceiptsFine, SoldFrom, Has, Ids
<1>2. \A t, r : Agrees(t, r)' <=> Agrees(t, r)
  BY DEF Agrees, Has, Row, IsWithdrawal, IsCard, checkDebtParent, debtCurrency
<1>3. topic \in DOMAIN Tables
  BY DEF BookFine, RowsFine
<1>4. MisfitIds' \subseteq MisfitIds
  BY <1>2, <1>3, NoNewMisfits
<1> QED BY <1>1, <1>4 DEF BookFine

(* An edit that may put a row under another parent than the one it was     *)
(* read for.                                                               *)
EditExcused == \E c \in Clients : Carries(c, "update") /\ NamesAnotherParent(pending[c])

(* A request's look at other rows: alone among the requests, it leaves     *)
(* ready what it is about to write.                                        *)
LEMMA CheckedKeeps ==
  ASSUME LedgerInv, Quantities \subseteq Int, NEW c \in Clients, CheckedRequest(c), ~overlapped'
  PROVE  ~overlapped /\ BookFine' /\ Waiting' /\ MisfitIds' \subseteq MisfitIds
<1>1. ~overlapped /\ BookFine /\ Waiting
  <2>1. PICK do, t, r : Checked(c, do, t, r)
    BY DEF CheckedRequest, handleUpdateLot, AddSale, UpdateSale, handleAddReserveLoan, handleAddDebt,
      handleUpdateDebt, handleAddDebtOp, handleUpdateDebtOp, handleAddDebtMark,
      handleUpdateDebtMark, handleAddPlanReceipt, handleUpdatePlanReceipt, handleAddDepositTopup,
      handleUpdateDepositTopup, handleUpdateNPFAccount, handleAddNPFOp, handleUpdateNPFOp,
      UpdateNPFNavPoint
  <2> QED BY <2>1 DEF Checked, Among, LedgerInv
<1>2. PICK do, t, r : Checked(c, do, t, r) /\ ReadyToDo(do, t, r)
  BY <1>1, CheckedReady
<1>3. PICK p : p = [do |-> do, table |-> t, row |-> r] /\ Ready(p)
  BY <1>2 DEF ReadyToDo
<1>4. /\ \A d \in Clients \ {c} : pending[d] = Nothing
      /\ pending' = [pending EXCEPT ![c] = p] /\ topic' = topic /\ book' = book /\ given' = given
  BY <1>1, <1>2, <1>3 DEF Checked, Among
<1>5. Ready(p)'
  BY <1>3, <1>4, ReadyStays
<1>6. DOMAIN pending' = Clients /\ pending'[c] = p /\ \A d \in Clients \ {c} : pending'[d] = Nothing
  BY <1>1, <1>4 DEF Waiting
<1>7. Waiting'
  <2>1. ASSUME NEW d \in Clients, pending'[d] # Nothing
        PROVE  Ready(pending[d])' /\ \A e \in Clients : pending'[e] # Nothing => e = d
    <3>1. d = c /\ pending'[d] = p
      BY <1>6, <2>1
    <3>2. Ready(pending[d])'
      BY <1>5, <3>1 DEF Ready, Passes, Agrees, SameLoan, Excused, SoldFrom, Has, Row, IsWithdrawal,
         IsCard, checkDebtParent, debtCurrency
    <3> QED BY <1>6, <3>1, <3>2
  <2> QED BY <1>6, <2>1 DEF Waiting
<1> QED BY <1>1, <1>4, <1>7, BooksSame

(* A withdrawal taken as a loan at once leaves the loan to be written: the *)
(* movement it names has just been written, and is a withdrawal.           *)
LEMMA ReserveOpKeeps ==
  ASSUME LedgerInv, NEW c \in Clients, handleAddReserveOp(c), ~overlapped'
  PROVE  /\ ~overlapped /\ BookFine' /\ Waiting'
         /\ ~EditsARowOthersReferTo => MisfitIds' \subseteq MisfitIds
<1>1. PICK q \in ReserveRequests : \E o \in ReserveFromReq(q), asLoan \in BOOLEAN :
        /\ "reserve_ops" \in Tables[topic] /\ pending[c] = Nothing
        /\ Insert("reserve_ops", o) /\ Among(Clients \ {c})
        /\ \E rate \in LoanRates :
             pending' = IF asLoan /\ o.amount < 0
                          THEN [pending EXCEPT ![c] = [do |-> "insert", table |-> "reserve_loans",
                                  row |-> [op |-> given["reserve_ops"] + 1, rate |-> rate]]]
                          ELSE pending
        /\ UNCHANGED topic
  BY DEF handleAddReserveOp
<1>2. PICK o \in ReserveFromReq(q), asLoan \in BOOLEAN :
        /\ "reserve_ops" \in Tables[topic] /\ pending[c] = Nothing
        /\ Insert("reserve_ops", o) /\ Among(Clients \ {c})
        /\ \E rate \in LoanRates :
             pending' = IF asLoan /\ o.amount < 0
                          THEN [pending EXCEPT ![c] = [do |-> "insert", table |-> "reserve_loans",
                                  row |-> [op |-> given["reserve_ops"] + 1, rate |-> rate]]]
                          ELSE pending
        /\ topic' = topic
  BY <1>1
<1>3. ~overlapped /\ BookFine /\ Waiting /\ \A d \in Clients : pending[d] = Nothing
  BY <1>2 DEF Among, LedgerInv
<1>4. RowsFine /\ "reserve_ops" \in AllTables /\ topic \in DOMAIN Tables
  BY <1>3, AllTablesAre DEF BookFine, RowsFine
<1>5. DOMAIN o = Columns["reserve_ops"] /\ Passes("reserve_ops", o, 0) /\ Agrees("reserve_ops", o)
  BY ColumnsAre DEF ReserveFromReq, ReserveRequests, Passes, Agrees
<1>6. BookFine' /\ (~EditsARowOthersReferTo => MisfitIds' \subseteq MisfitIds)
  BY <1>2, <1>3, <1>5, InsertKeeps
<1>7. PICK rate \in LoanRates :
        pending' = IF asLoan /\ o.amount < 0
                     THEN [pending EXCEPT ![c] = [do |-> "insert", table |-> "reserve_loans",
                             row |-> [op |-> given["reserve_ops"] + 1, rate |-> rate]]]
                     ELSE pending
  BY <1>2
<1>8. CASE ~(asLoan /\ o.amount < 0)
  <2>1. pending' = pending
    BY <1>7, <1>8
  <2> QED BY <1>3, <1>6, <2>1 DEF Waiting
<1>9. CASE asLoan /\ o.amount < 0
  <2>1. PICK id : id = given["reserve_ops"] + 1
    OBVIOUS
  <2>2. PICK r : r = [op |-> id, rate |-> rate]
    OBVIOUS
  <2>3. PICK p : p = [do |-> "insert", table |-> "reserve_loans", row |-> r]
    OBVIOUS
  <2>4. pending' = [pending EXCEPT ![c] = p]
    BY <1>7, <1>9, <2>1, <2>2, <2>3
  <2>5. PICK n : n = WithId(o, id)
    OBVIOUS
  <2>6. n.id = id /\ (\A f \in Columns["reserve_ops"] : n[f] = o[f]) /\ n \in book'["reserve_ops"]
    BY <1>2, <1>4, <1>5, <2>1, <2>5, InsertRows
  <2>7. n.amount < 0
    BY <1>9, <2>6, ColumnsAre
  <2>8. RowsFine'
    BY <1>6 DEF BookFine
  <2>9. \A s \in book'["reserve_ops"] : s.id = id => s = n
    BY <1>4, <2>6, <2>8 DEF RowsFine
  <2>10. IsWithdrawal(id)'
    BY <2>6, <2>7, <2>9 DEF IsWithdrawal, Has, Row
  <2>11. topic = "cushion"
    BY <1>2, <1>4 DEF Tables
  <2>12. "reserve_loans" \in Tables[topic]'
    BY <1>2, <2>11 DEF Tables
  <2>13. p.do = "insert" /\ p.table = "reserve_loans" /\ p.row = r /\ r.op = id
         /\ DOMAIN r = Columns["reserve_loans"]
    BY <2>2, <2>3, ColumnsAre
  <2>14. DOMAIN pending' = Clients /\ pending'[c] = p
         /\ \A d \in Clients \ {c} : pending'[d] = Nothing
    BY <1>3, <2>4 DEF Waiting
  <2>15. Ready(pending[c])'
    BY <2>10, <2>12, <2>13, <2>14 DEF Ready, Edit, Passes, Agrees
  <2>16. ASSUME NEW d \in Clients, pending'[d] # Nothing
         PROVE  Ready(pending[d])' /\ \A e \in Clients : pending'[e] # Nothing => e = d
    <3>1. d = c
      BY <2>14, <2>16
    <3> QED BY <2>14, <2>15, <3>1
  <2> QED BY <1>3, <1>6, <2>14, <2>16 DEF Waiting
<1> QED BY <1>8, <1>9

(* A request's write, when no other request came in between: what was      *)
(* ready still is, and keeps the books in order.                           *)
LEMMA WriteKeeps ==
  ASSUME LedgerInv, NEW c \in Clients, Write(c), ~overlapped'
  PROVE  /\ ~overlapped /\ BookFine' /\ Waiting'
         /\ EditsARowOthersReferTo \/ EditExcused \/ MisfitIds' \subseteq MisfitIds
<1>1. /\ pending[c] # Nothing /\ Statement(pending[c]) /\ topic' = topic
      /\ pending' = [pending EXCEPT ![c] = Nothing] /\ overlapped' = overlapped
  BY DEF Write
<1>2. ~overlapped /\ BookFine /\ Waiting
  BY <1>1 DEF LedgerInv
<1>3. PICK p : p = pending[c]
  OBVIOUS
<1>4. Ready(p) /\ \A d \in Clients : pending[d] # Nothing => d = c
  BY <1>1, <1>2, <1>3 DEF Waiting
<1>5. /\ BookFine'
      /\ ~EditsARowOthersReferTo /\ ~NamesAnotherParent(p) => MisfitIds' \subseteq MisfitIds
  BY <1>1, <1>2, <1>3, <1>4, StatementKeeps
<1>6. DOMAIN pending' = Clients /\ \A d \in Clients : pending'[d] = Nothing
  BY <1>1, <1>2, <1>4 DEF Waiting
<1>7. Waiting'
  BY <1>6 DEF Waiting
<1>8. NamesAnotherParent(p) => EditExcused
  BY <1>3, <1>6 DEF NamesAnotherParent, EditExcused, Carries
<1> QED BY <1>2, <1>5, <1>7, <1>8

(* As long as no two requests overlapped, every step keeps the books in    *)
(* order and what waits ready, and makes a misfit only by an edit that the *)
(* property names.                                                         *)
LEMMA StepKeeps ==
  ASSUME LedgerInv, Quantities \subseteq Int, Next, ~overlapped'
  PROVE  /\ ~overlapped /\ BookFine' /\ Waiting'
         /\ EditsARowOthersReferTo \/ EditExcused \/ MisfitIds' \subseteq MisfitIds
<1> DEFINE Goal == /\ ~overlapped /\ BookFine' /\ Waiting'
                   /\ EditsARowOthersReferTo \/ EditExcused \/ MisfitIds' \subseteq MisfitIds
<1> SUFFICES Goal
  OBVIOUS
<1>a. ASSUME Among(Clients), pending' = pending,
             BookFine => BookFine' /\ (~EditsARowOthersReferTo => MisfitIds' \subseteq MisfitIds)
      PROVE  Goal
  <2>1. ~overlapped /\ BookFine /\ Waiting /\ \A d \in Clients : pending[d] = Nothing
    BY <1>a DEF Among, LedgerInv
  <2>2. Waiting'
    BY <1>a, <2>1 DEF Waiting
  <2> QED BY <1>a, <2>1, <2>2
<1> HIDE DEF Goal
<1>1. ASSUME NEW c \in Clients, CheckedRequest(c) PROVE Goal
  BY <1>1, CheckedKeeps DEF Goal
<1>2. ASSUME NEW c \in Clients, handleAddReserveOp(c) PROVE Goal
  BY <1>2, ReserveOpKeeps DEF Goal
<1>3. ASSUME NEW c \in Clients, Write(c) PROVE Goal
  BY <1>3, WriteKeeps DEF Goal
<1>4. ASSUME NEW c \in Clients, GiveUp(c) PROVE Goal
  <2>1. /\ pending' = [pending EXCEPT ![c] = Nothing] /\ overlapped' = overlapped
        /\ topic' = topic /\ book' = book /\ given' = given /\ pending[c] # Nothing
    BY <1>4 DEF GiveUp
  <2>2. ~overlapped /\ BookFine /\ Waiting
    BY <2>1 DEF LedgerInv
  <2>3. DOMAIN pending' = Clients /\ \A d \in Clients : pending'[d] = Nothing
    BY <2>1, <2>2 DEF Waiting
  <2>4. Waiting'
    BY <2>3 DEF Waiting
  <2> QED BY <2>1, <2>2, <2>4, BooksSame DEF Goal
<1>5. CASE Deletion
  <2>1. Among(Clients) /\ pending' = pending
    BY <1>5 DEF Deletion, DeleteLot, DeleteSale, DeleteReserveOp, DeleteReserveLoan, DeleteDebt,
      DeleteDebtOp, DeleteDebtMark, DeletePlanFlow, DeletePlanReceipt, DeleteTermDeposit,
      DeleteDepositTopup, DeleteNPFAccount, DeleteNPFOp, DeleteNPFNavPoint, Erase
  <2> QED BY <1>5, <1>a, <2>1, DeletionKeeps
<1>6. CASE OneStatement
  <2>1. Among(Clients) /\ pending' = pending
    BY <1>6 DEF OneStatement, AddLot, UpdateReserveOp, UpdateReserveLoan, AddPlanFlow,
      UpdatePlanFlow, AddTermDeposit, UpdateTermDeposit, AddNPFAccount, AddNPFNavPoints, AtOnce
  <2> QED BY <1>6, <1>a, <2>1, OneStatementKeeps
<1>7. ASSUME NEW c \in Clients, Request(c) PROVE Goal
  <2>1. CheckedRequest(c) \/ handleAddReserveOp(c) \/ Write(c) \/ GiveUp(c)
    BY <1>7 DEF Request, CheckedRequest
  <2> QED BY <1>1, <1>2, <1>3, <1>4, <2>1
<1>8. (\E c \in Clients : Request(c)) \/ Deletion \/ OneStatement
  BY DEF Next, Deletion, OneStatement
<1> QED BY ONLY <1>5, <1>6, <1>7, <1>8

-----------------------------------------------------------------------------
(* From card to card one never comes back to a debt.                       *)

(* The debts above a debt: the card it lies in, the card that one lies in, *)
(* and so on.                                                              *)
Climb(f, n, d) ==
  f = [i \in 0..n |-> IF i = 0 THEN d.card
                      ELSE IF f[i - 1] = 0 THEN 0 ELSE Row("debts", f[i - 1]).card]

(* The climb is a function, at any length.                                 *)
LEMMA ClimbExists ==
  ASSUME NEW n \in Nat, NEW d
  PROVE  \E f : Climb(f, n, d)
<1> DEFINE Up(x) == IF x = 0 THEN 0 ELSE Row("debts", x).card
           T == {k \in Nat : \E f : Climb(f, k, d)}
<1>1. 0 \in T
  <2> DEFINE f == [i \in 0..0 |-> d.card]
  <2>1. \A i \in 0..0 : i = 0
    OBVIOUS
  <2>2. Climb(f, 0, d)
    BY <2>1 DEF Climb
  <2> QED BY <2>2
<1>2. ASSUME NEW k \in Nat, k \in T PROVE k + 1 \in T
  <2>1. PICK f : Climb(f, k, d)
    BY <1>2
  <2> DEFINE h == [i \in 0..(k + 1) |-> IF i = k + 1 THEN Up(f[k]) ELSE f[i]]
  <2>2. ASSUME NEW i \in 0..(k + 1)
        PROVE  h[i] = IF i = 0 THEN d.card ELSE Up(h[i - 1])
    <3>1. CASE i = k + 1
      <4>1. h[i - 1] = f[k]
        BY <3>1
      <4> QED BY <3>1, <4>1
    <3>2. CASE i # k + 1
      <4>1. i \in 0..k /\ h[i] = f[i]
        BY <3>2
      <4>2. f[i] = IF i = 0 THEN d.card ELSE Up(f[i - 1])
        BY <2>1, <4>1 DEF Climb
      <4>3. i # 0 => h[i - 1] = f[i - 1]
        BY <3>2
      <4> QED BY <4>1, <4>2, <4>3
    <3> QED BY <3>1, <3>2
  <2>3. Climb(h, k + 1, d)
    BY <2>2 DEF Climb
  <2> HIDE DEF h
  <2> QED BY <2>3
<1> HIDE DEF T
<1>3. n \in T
  BY <1>1, <1>2, Induct
<1> QED BY <1>3 DEF T

(* A circle would be a set of debts each of which lies in one of them.     *)
LEMMA NoCircle ==
  ASSUME BookFine, NEW d \in book["debts"], NEW n \in Nat, NEW f, Climb(f, n, d)
  PROVE  \A i \in 0..n : f[i] # d.id
<1> SUFFICES ASSUME NEW m \in 0..n, f[m] = d.id PROVE FALSE
  OBVIOUS
<1>0. RowsFine /\ DebtsFine /\ "debts" \in AllTables
  BY AllTablesAre DEF BookFine
<1>1. /\ f[0] = d.card
      /\ \A i \in 1..n : f[i] = IF f[i - 1] = 0 THEN 0 ELSE Row("debts", f[i - 1]).card
  BY DEF Climb
<1>2. d.id # 0 /\ \A e \in book["debts"] : e.id # 0
  BY <1>0, KnownId DEF Ids
<1>3. \A i \in 0..m : f[i] # 0
  <2> DEFINE T == {k \in Nat : k <= m => f[m - k] # 0}
  <2>1. 0 \in T
    BY <1>2
  <2>2. ASSUME NEW k \in Nat, k \in T PROVE k + 1 \in T
    <3>1. SUFFICES ASSUME k + 1 <= m PROVE f[m - (k + 1)] # 0
      OBVIOUS
    <3>2. m - k \in 1..n /\ (m - k) - 1 = m - (k + 1) /\ f[m - k] # 0
      BY <2>2, <3>1
    <3> QED BY <1>1, <3>2
  <2> HIDE DEF T
  <2>3. \A k \in Nat : k \in T
    BY <2>1, <2>2, Induct
  <2>4. ASSUME NEW i \in 0..m PROVE f[i] # 0
    <3>1. m - i \in Nat /\ m - i <= m /\ m - (m - i) = i
      OBVIOUS
    <3> QED BY <2>3, <3>1 DEF T
  <2> QED BY <2>4
<1>4. \A e \in book["debts"] : e.card # 0 => e.card \in Ids("debts")
  BY <1>0, HasIds DEF DebtsFine
<1>5. \A i \in 0..m : f[i] \in Ids("debts")
  <2> DEFINE T == {k \in Nat : k <= m => f[k] \in Ids("debts")}
  <2>1. 0 \in T
    BY <1>1, <1>3, <1>4
  <2>2. ASSUME NEW k \in Nat, k \in T PROVE k + 1 \in T
    <3>1. SUFFICES ASSUME k + 1 <= m PROVE f[k + 1] \in Ids("debts")
      OBVIOUS
    <3>2. k + 1 \in 1..n /\ (k + 1) - 1 = k /\ k \in 0..m /\ k + 1 \in 0..m /\ f[k] \in Ids("debts")
      BY <2>2, <3>1
    <3>3. Row("debts", f[k]) \in book["debts"]
      BY <3>2, HasIds, HasIs
    <3>4. f[k + 1] = Row("debts", f[k]).card /\ f[k + 1] # 0
      BY <1>1, <1>3, <3>2
    <3> QED BY <1>4, <3>3, <3>4
  <2> HIDE DEF T
  <2>3. \A k \in Nat : k \in T
    BY <2>1, <2>2, Induct
  <2> QED BY <2>3 DEF T
<1>6. PICK C : C = {f[i] : i \in 0..m}
  OBVIOUS
<1>7. C \in SUBSET Ids("debts") /\ C # {}
  BY <1>5, <1>6
<1>8. PICK e \in book["debts"] : e.id \in C /\ e.card \notin C
  BY <1>0, <1>7 DEF DebtsFine, Grounded
<1>9. PICK j \in 0..m : e.id = f[j]
  BY <1>6, <1>8
<1>10. CASE j = m
  <2>1. e = d
    BY <1>0, <1>9, <1>10 DEF RowsFine
  <2>2. d.card \in C
    BY <1>1, <1>6
  <2> QED BY <1>8, <2>1, <2>2
<1>11. CASE j # m
  <2>1. j + 1 \in 1..n /\ j + 1 \in 0..m /\ (j + 1) - 1 = j
    BY <1>11
  <2>2. Row("debts", f[j]) = e
    BY <1>0, <1>9, RowIs
  <2>3. f[j + 1] = e.card
    BY <1>1, <1>3, <2>1, <2>2
  <2> QED BY <1>6, <1>8, <2>1, <2>3
<1> QED BY <1>10, <1>11

(* Books in order are not sold beyond their lots, and have no debt that    *)
(* lies in itself.                                                         *)
LEMMA FineBooksHold ==
  ASSUME LedgerInv
  PROVE  OnlyRacesOversell
<1> SUFFICES ASSUME ~overlapped
             PROVE  /\ \A l \in book["lots"] : SoldFrom(l.id, 0) <= l.qty
                    /\ \A d \in book["debts"] :
                         LET above[i \in 0..Cardinality(book["debts"])] ==
                               IF i = 0 THEN d.card
                               ELSE IF above[i-1] = 0 THEN 0 ELSE Row("debts", above[i-1]).card
                         IN \A i \in DOMAIN above : above[i] # d.id
  BY DEF OnlyRacesOversell
<1>1. BookFine
  BY DEF LedgerInv
<1>2. \A l \in book["lots"] : SoldFrom(l.id, 0) <= l.qty
  BY <1>1 DEF BookFine, PapersFine
<1>3. Cardinality(book["debts"]) \in Nat
  BY <1>1, AllTablesAre, FS_CardinalityType DEF BookFine, RowsFine
<1>4. PICK n \in Nat : n = Cardinality(book["debts"])
  BY <1>3
<1>5. ASSUME NEW d \in book["debts"]
      PROVE  LET above[i \in 0..Cardinality(book["debts"])] ==
                   IF i = 0 THEN d.card
                   ELSE IF above[i-1] = 0 THEN 0 ELSE Row("debts", above[i-1]).card
             IN \A i \in DOMAIN above : above[i] # d.id
  <2> DEFINE above == CHOOSE f : Climb(f, n, d)
  <2>1. Climb(above, n, d)
    BY ClimbExists
  <2>2. \A i \in 0..n : above[i] # d.id
    BY <1>1, <2>1, NoCircle
  <2>3. DOMAIN above = 0..n
    BY <2>1 DEF Climb
  <2> HIDE DEF above
  <2>4. \A i \in DOMAIN above : above[i] # d.id
    BY <2>2, <2>3
  <2> USE DEF above
  <2> QED BY <1>4, <2>4 DEF Climb
<1> QED BY <1>2, <1>5

-----------------------------------------------------------------------------
(* The theorems.                                                           *)

(* Empty books are in order, and nobody waits.                             *)
LEMMA LedgerStarts == Init => LedgerInv
<1> SUFFICES ASSUME Init PROVE LedgerInv
  OBVIOUS
<1>1. /\ topic \in DOMAIN Tables /\ overlapped = FALSE /\ pending = [c \in Clients |-> Nothing]
      /\ DOMAIN book = AllTables /\ DOMAIN given = AllTables
      /\ \A t \in AllTables : book[t] = {} /\ given[t] = 0
  BY DEF Init
<1>2. RowsFine
  BY <1>1, FS_EmptySet DEF RowsFine
<1>3. PapersFine /\ DebtsFine /\ ReceiptsFine
  BY <1>1, AllTablesAre DEF PapersFine, DebtsFine, Grounded, ReceiptsFine, Ids
<1>4. Waiting
  BY <1>1 DEF Waiting
<1> QED BY <1>1, <1>2, <1>3, <1>4 DEF LedgerInv, BookFine

(* Every request but the last step of one says whether it began among      *)
(* others.                                                                 *)
LEMMA OverlapTold ==
  ASSUME LedgerInv, Next
  PROVE  overlapped' \in BOOLEAN
<1>0. overlapped \in BOOLEAN
  BY DEF LedgerInv
<1>a. ASSUME NEW S, Among(S) PROVE overlapped' \in BOOLEAN
  BY <1>0, <1>a DEF Among
<1>1. ASSUME NEW c \in Clients, CheckedRequest(c) PROVE overlapped' \in BOOLEAN
  <2>1. PICK do, t, r : Checked(c, do, t, r)
    BY <1>1 DEF CheckedRequest, handleUpdateLot, AddSale, UpdateSale, handleAddReserveLoan,
      handleAddDebt, handleUpdateDebt, handleAddDebtOp, handleUpdateDebtOp, handleAddDebtMark,
      handleUpdateDebtMark, handleAddPlanReceipt, handleUpdatePlanReceipt, handleAddDepositTopup,
      handleUpdateDepositTopup, handleUpdateNPFAccount, handleAddNPFOp, handleUpdateNPFOp,
      UpdateNPFNavPoint
  <2>2. Among(Clients \ {c})
    BY <2>1 DEF Checked
  <2> QED BY <1>a, <2>2
<1>2. ASSUME NEW c \in Clients, handleAddReserveOp(c) PROVE overlapped' \in BOOLEAN
  <2>1. Among(Clients \ {c})
    BY <1>2 DEF handleAddReserveOp
  <2> QED BY <1>a, <2>1
<1>3. ASSUME NEW c \in Clients, Write(c) \/ GiveUp(c) PROVE overlapped' \in BOOLEAN
  BY <1>0, <1>3 DEF Write, GiveUp
<1>4. CASE Deletion
  <2>1. Among(Clients)
    BY <1>4 DEF Deletion, DeleteLot, DeleteSale, DeleteReserveOp, DeleteReserveLoan, DeleteDebt,
      DeleteDebtOp, DeleteDebtMark, DeletePlanFlow, DeletePlanReceipt, DeleteTermDeposit,
      DeleteDepositTopup, DeleteNPFAccount, DeleteNPFOp, DeleteNPFNavPoint, Erase
  <2> QED BY <1>a, <2>1
<1>5. CASE OneStatement
  <2>1. Among(Clients)
    BY <1>5 DEF OneStatement, AddLot, UpdateReserveOp, UpdateReserveLoan, AddPlanFlow,
      UpdatePlanFlow, AddTermDeposit, UpdateTermDeposit, AddNPFAccount, AddNPFNavPoints, AtOnce
  <2> QED BY <1>a, <2>1
<1>6. ASSUME NEW c \in Clients, Request(c) PROVE overlapped' \in BOOLEAN
  <2>1. CheckedRequest(c) \/ handleAddReserveOp(c) \/ Write(c) \/ GiveUp(c)
    BY <1>6 DEF Request, CheckedRequest
  <2> QED BY <1>1, <1>2, <1>3, <2>1
<1>7. (\E c \in Clients : Request(c)) \/ Deletion \/ OneStatement
  BY DEF Next, Deletion, OneStatement
<1> QED BY ONLY <1>4, <1>5, <1>6, <1>7

(* LedgerInv is inductive.                                                 *)
LEMMA LedgerKept ==
  ASSUME Quantities \subseteq Int
  PROVE  LedgerInv /\ [Next]_vars => LedgerInv'
<1>1. ASSUME LedgerInv, Next PROVE LedgerInv'
  BY <1>1, OverlapTold, StepKeeps DEF LedgerInv
<1>2. ASSUME LedgerInv, UNCHANGED vars PROVE LedgerInv'
  <2>1. /\ topic' = topic /\ book' = book /\ given' = given /\ pending' = pending
        /\ overlapped' = overlapped
    BY <1>2 DEF vars
  <2>2. CASE overlapped
    BY <1>2, <2>1, <2>2 DEF LedgerInv
  <2>3. CASE ~overlapped
    <3>1. BookFine /\ Waiting
      BY <1>2, <2>3 DEF LedgerInv
    <3>2. BookFine'
      BY <2>1, <3>1, BooksSame
    <3>3. ASSUME NEW c \in Clients, pending[c] # Nothing PROVE Ready(pending[c])'
      <4>1. Ready(pending[c])
        BY <3>1, <3>3 DEF Waiting
      <4> QED BY <2>1, <4>1 DEF Ready, Passes, Agrees, SameLoan, Excused, SoldFrom, Has, Row,
               IsWithdrawal, IsCard, checkDebtParent, debtCurrency
    <3>4. Waiting'
      BY <2>1, <3>1, <3>3 DEF Waiting
    <3> QED BY <1>2, <2>1, <3>2, <3>4 DEF LedgerInv
  <2> QED BY <1>2, <2>2, <2>3 DEF LedgerInv
<1> QED BY <1>1, <1>2

(* As long as no two requests have overlapped, the books are in order, and *)
(* whatever a request has checked still holds when it writes               *)
(* (handlers_lots.go, handlers_debts.go, handlers_reserve.go,              *)
(* handlers_npf.go: the checks and the write are separate statements).     *)
THEOREM LedgerInvariant ==
  ASSUME Quantities \subseteq Int
  PROVE  Spec => []LedgerInv
<1>1. LedgerInv /\ [Next]_vars => LedgerInv'
  BY LedgerKept
<1> QED BY <1>1, LedgerStarts, PTL DEF Spec

(* Requests one after another never sell a lot beyond its quantity,        *)
(* whatever is added, edited or deleted in whichever order, and never let  *)
(* a debt lie, through others, in itself: the checks of lots, of sales and *)
(* of debts, each of which looks at one row, fit together (store.go        *)
(* saleFits, handlers_lots.go, handlers_debts.go).                         *)
THEOREM OnlyRacesCanOversell ==
  ASSUME Quantities \subseteq Int
  PROVE  Spec => []OnlyRacesOversell
<1>1. LedgerInv => OnlyRacesOversell
  BY FineBooksHold
<1> QED BY <1>1, LedgerInvariant, PTL

(* The two parts of the property, as statements about a step.              *)
MisfitStep ==
  \/ overlapped' \/ EditsARowOthersReferTo
  \/ \E c \in Clients : Carries(c, "update") /\ NamesAnotherParent(pending[c])
  \/ MisfitIds' \subseteq MisfitIds
NoteStep ==
  \A c \in Clients : Carries(c, "update but for the note") /\ ~overlapped =>
    \A a \in book["npf_accounts"] : \A b \in book'["npf_accounts"] :
      a.id = b.id => a.note = b.note

(* Only the end of a request takes away what it has checked.               *)
LEMMA OnlyItsEndTakes ==
  ASSUME LedgerInv, ~overlapped, NEW c \in Clients, pending[c] # Nothing, pending'[c] = Nothing, Next
  PROVE  Write(c) \/ GiveUp(c)
<1>0. DOMAIN pending = Clients /\ \A d \in Clients : pending[d] # Nothing => d = c
  BY DEF LedgerInv, Waiting
<1>1. ASSUME NEW d \in Clients, CheckedRequest(d) PROVE FALSE
  <2>1. PICK do, t, r : Checked(d, do, t, r)
    BY <1>1 DEF CheckedRequest, handleUpdateLot, AddSale, UpdateSale, handleAddReserveLoan,
      handleAddDebt, handleUpdateDebt, handleAddDebtOp, handleUpdateDebtOp, handleAddDebtMark,
      handleUpdateDebtMark, handleAddPlanReceipt, handleUpdatePlanReceipt, handleAddDepositTopup,
      handleUpdateDepositTopup, handleUpdateNPFAccount, handleAddNPFOp, handleUpdateNPFOp,
      UpdateNPFNavPoint
  <2>2. PICK p : pending[d] = Nothing /\ pending' = [pending EXCEPT ![d] = p]
    BY <2>1 DEF Checked
  <2>3. d # c
    BY <2>2
  <2> QED BY <1>0, <2>2, <2>3
<1>2. ASSUME NEW d \in Clients, handleAddReserveOp(d) PROVE FALSE
  <2>1. pending[d] = Nothing /\ \E p : pending' = pending \/ pending' = [pending EXCEPT ![d] = p]
    BY <1>2 DEF handleAddReserveOp
  <2>2. PICK p : pending' = pending \/ pending' = [pending EXCEPT ![d] = p]
    BY <2>1
  <2>3. d # c
    BY <2>1
  <2> QED BY <1>0, <2>2, <2>3
<1>3. ASSUME NEW d \in Clients, Write(d) \/ GiveUp(d) PROVE Write(c) \/ GiveUp(c)
  <2>1. d = c
    BY <1>0, <1>3 DEF Write, GiveUp
  <2> QED BY <1>3, <2>1
<1>4. CASE Deletion
  <2>1. pending' = pending
    BY <1>4 DEF Deletion, DeleteLot, DeleteSale, DeleteReserveOp, DeleteReserveLoan, DeleteDebt,
      DeleteDebtOp, DeleteDebtMark, DeletePlanFlow, DeletePlanReceipt, DeleteTermDeposit,
      DeleteDepositTopup, DeleteNPFAccount, DeleteNPFOp, DeleteNPFNavPoint, Erase
  <2> QED BY <2>1
<1>5. CASE OneStatement
  <2>1. pending' = pending
    BY <1>5 DEF OneStatement, AddLot, UpdateReserveOp, UpdateReserveLoan, AddPlanFlow,
      UpdatePlanFlow, AddTermDeposit, UpdateTermDeposit, AddNPFAccount, AddNPFNavPoints, AtOnce
  <2> QED BY <2>1
<1>6. ASSUME NEW d \in Clients, Request(d) PROVE Write(c) \/ GiveUp(c)
  <2>1. CheckedRequest(d) \/ handleAddReserveOp(d) \/ Write(d) \/ GiveUp(d)
    BY <1>6 DEF Request, CheckedRequest
  <2> QED BY <1>1, <1>2, <1>3, <2>1
<1>7. (\E d \in Clients : Request(d)) \/ Deletion \/ OneStatement
  BY DEF Next, Deletion, OneStatement
<1> QED BY <1>4, <1>5, <1>6, <1>7

(* An edit of a pension account that leaves out the note carries the note  *)
(* it has read, so the note stays.                                         *)
LEMMA NotesKept ==
  ASSUME LedgerInv, [Next]_vars
  PROVE  NoteStep
<1> SUFFICES ASSUME NEW c \in Clients, Carries(c, "update but for the note"), ~overlapped,
                    NEW a \in book["npf_accounts"], NEW b \in book'["npf_accounts"], a.id = b.id
             PROVE  a.note = b.note
  BY DEF NoteStep
<1>0. BookFine /\ Waiting /\ "npf_accounts" \in AllTables
  BY AllTablesAre DEF LedgerInv
<1>1. pending[c] # Nothing /\ pending'[c] = Nothing /\ pending[c].do = "update but for the note"
  <2>1. Nothing.do = "nothing" /\ "nothing" # "update but for the note"
    BY DEF Nothing
  <2>2. pending[c].do = "update but for the note" /\ pending'[c] = Nothing
    BY DEF Carries
  <2> QED BY <2>1, <2>2
<1>2. Next
  BY <1>1 DEF vars
<1>3. Write(c) \/ GiveUp(c)
  BY <1>1, <1>2, OnlyItsEndTakes
<1>4. \A s, r \in book["npf_accounts"] : s.id = r.id => s = r
  BY <1>0 DEF BookFine, RowsFine
<1>5. CASE GiveUp(c)
  BY <1>4, <1>5 DEF GiveUp
<1>6. CASE Write(c)
  <2>1. PICK p : p = pending[c]
    OBVIOUS
  <2>2. Ready(p) /\ Statement(p) /\ p.do = "update but for the note"
    BY <1>0, <1>1, <1>6, <2>1 DEF Waiting, Write
  <2>3. p.table = "npf_accounts" /\ \A s \in book["npf_accounts"] : s.id = p.row.id => s.note = p.row.note
    BY <2>2 DEF Ready
  <2>4. Update("npf_accounts", p.row)
    BY <2>2, <2>3 DEF Statement
  <2>5. book'["npf_accounts"] =
          {IF o.id = p.row.id THEN p.row ELSE o : o \in book["npf_accounts"]}
    BY <1>0, <2>4 DEF Update, Replace, BookFine, RowsFine
  <2>6. PICK o \in book["npf_accounts"] : b = IF o.id = p.row.id THEN p.row ELSE o
    BY <2>5
  <2> QED BY <1>4, <2>3, <2>6
<1> QED BY <1>3, <1>5, <1>6

(* Every new misfit comes from an overlap, from an edit of a row that      *)
(* others refer to, or from an edit that keeps the parent it had.          *)
LEMMA MisfitsExplained ==
  ASSUME Quantities \subseteq Int, LedgerInv, [Next]_vars
  PROVE  MisfitStep
<1>1. CASE overlapped'
  BY <1>1 DEF MisfitStep
<1>2. CASE Next /\ ~overlapped'
  BY <1>2, StepKeeps DEF MisfitStep, EditExcused
<1>3. CASE UNCHANGED vars
  <2>1. MisfitIds' = MisfitIds
    BY <1>3 DEF vars, MisfitIds, Misfits, Agrees, Has, Row, IsWithdrawal, IsCard, checkDebtParent,
       debtCurrency
  <2> QED BY <2>1 DEF MisfitStep
<1> QED BY <1>1, <1>2, <1>3

(* Of requests one after another, a row that disagrees with the row it     *)
(* refers to (another currency, a reserve loan of a movement that is no    *)
(* withdrawal, a debt in what is no card) comes only from an edit of the   *)
(* row referred to or from an edit that puts the row back under the parent *)
(* it had; and an edit that does not mention an account's note does not    *)
(* change it (handlers_debts.go, handlers_reserve.go,                      *)
(* handlers_deposits.go, handlers_npf.go).                                 *)
THEOREM OnlyEditsAndRacesMakeMisfits ==
  ASSUME Quantities \subseteq Int
  PROVE  Spec => OnlyEditsAndRacesDisagree
<1>1. LedgerInv /\ [Next]_vars => MisfitStep /\ NoteStep
  BY NotesKept, MisfitsExplained
<1>2. Spec => [][MisfitStep /\ NoteStep]_vars
  BY <1>1, LedgerInvariant, PTL DEF Spec
<1>3. [][MisfitStep /\ NoteStep]_vars => [][MisfitStep]_vars /\ [][NoteStep]_vars
  BY PTL
<1> QED BY <1>2, <1>3 DEF OnlyEditsAndRacesDisagree, MisfitsComeFromEdits, NotesStay, MisfitStep, NoteStep

=============================================================================
