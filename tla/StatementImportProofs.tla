----------------------- MODULE StatementImportProofs -----------------------
(***************************************************************************)
(* Proofs about StatementImport, for any histories, days and bounds.       *)
(*                                                                         *)
(* First the parser: Parsed says which rows a file holds and in which      *)
(* order, and ParsedAll that ParseInzhur is so, by induction over the      *)
(* events.  Then the journal (Journal): its lines are numbered, a key has  *)
(* at most one leg, and no operation stands in it more often than it       *)
(* happened.  TwiceInv ties it to the import under way: what the journal   *)
(* has, it had when the import read it, or a row behind accounts for it    *)
(* (Accounted).  HiddenInv adds the other direction: every row behind is   *)
(* in the journal or was told to the user (Caught), so that at the end     *)
(* everything before the new mark is settled (FinishSettles).              *)
(* HealInv adds where each conversion stands while imports come and fail:  *)
(* ahead of the row at hand, between its two rows, or behind both (Ahead,  *)
(* Between, Behind), so that a leg without its partner is always one that  *)
(* the next file will find, and no partner is written twice.  It says      *)
(* this of the conversions that nothing was paid on top of (PairEvents): a *)
(* file may show any other with another amount than the file before, and   *)
(* its legs are strangers (Strange) to these.                              *)
(***************************************************************************)
EXTENDS StatementImport, FiniteSetTheorems, WellFoundedInduction, TLAPS

-----------------------------------------------------------------------------
(* Numbers: induction, the smallest and the largest of a set.              *)

(* A set of numbers that holds 0, and with each number the next, holds     *)
(* all.                                                                    *)
LEMMA Induct ==
  ASSUME NEW T, 0 \in T, \A k \in Nat : k \in T => k + 1 \in T
  PROVE  \A k \in Nat : k \in T
<1> DEFINE Bad == Nat \ T
<1>1. SUFFICES ASSUME Bad # {} PROVE FALSE
  OBVIOUS
<1>2. Bad \subseteq Nat
  OBVIOUS
<1>3. PICK k \in Bad : \A c \in Bad : ~ (<<c, k>> \in OpToRel(<, Nat))
  BY ONLY <1>1, <1>2, NatLessThanWellFounded, WFMin
<1>4. \A c \in Bad : ~ (c < k)
  BY <1>3 DEF OpToRel
<1>5. k # 0 /\ k \in Nat
  OBVIOUS
<1>6. k - 1 \in Nat /\ k - 1 < k
  BY <1>5
<1>7. k - 1 \in T
  BY <1>4, <1>6
<1>8. (k - 1) + 1 \in T
  BY <1>6, <1>7
<1> QED BY <1>5, <1>8

(* Least and Greatest are what their names say.                            *)
LEMMA LeastIs ==
  ASSUME NEW S \in SUBSET Nat, S # {}
  PROVE  Least(S) \in S /\ \A x \in S : Least(S) <= x
<1>1. PICK k \in S : \A c \in S : ~ (<<c, k>> \in OpToRel(<, Nat))
  BY ONLY S # {}, S \in SUBSET Nat, NatLessThanWellFounded, WFMin
<1>2. k \in Nat /\ \A c \in S : c \in Nat
  OBVIOUS
<1>3. \A c \in S : ~ (c < k)
  BY <1>1, <1>2 DEF OpToRel
<1>4. \A c \in S : k <= c
  BY <1>2, <1>3
<1> QED BY <1>4 DEF Least

LEMMA GreatestIs ==
  ASSUME NEW S \in SUBSET Nat, S # {}, NEW n \in Nat, \A x \in S : x <= n
  PROVE  Greatest(S) \in S /\ \A x \in S : x <= Greatest(S)
<1> DEFINE Gaps == {k \in Nat : \E x \in S : x + k = n}
<1>1. Gaps # {} /\ Gaps \in SUBSET Nat
  <2>1. PICK x \in S : TRUE
    OBVIOUS
  <2>2. n - x \in Nat /\ x + (n - x) = n
    BY <2>1
  <2> QED BY <2>1, <2>2
<1>2. Least(Gaps) \in Gaps /\ \A k \in Gaps : Least(Gaps) <= k
  BY <1>1, LeastIs
<1>3. PICK x \in S : x + Least(Gaps) = n
  BY <1>2
<1>4. ASSUME NEW y \in S PROVE y <= x
  <2>1. n - y \in Nat /\ y + (n - y) = n
    OBVIOUS
  <2>2. Least(Gaps) <= n - y
    BY <1>2, <2>1
  <2> HIDE DEF Gaps
  <2>3. Least(Gaps) \in Nat
    BY <1>1, <1>2
  <2> QED BY <1>3, <2>2, <2>3
<1> QED BY <1>4 DEF Greatest

-----------------------------------------------------------------------------
(* The parser: which rows a file holds, and in which order.                *)

Key(day, kind, sym) == [day |-> day, kind |-> kind, sym |-> sym]

(* Events both days of which the file covers, and their rows.              *)
Covered(h, u) == {n \in DOMAIN h : {h[n].sold, h[n].day} \subseteq 1..u}
Sale(h, n) == Row("sell", h[n].sold, n, h[n].sym, TRUE)
Purchase(h, n, u) == Row("buy", h[n].day, n, Bought(h[n], u), TRUE)
Operation(h, n) == Row("buy", h[n].day, n, h[n].sym, FALSE)
CouponOf(h, n) == Row("coupon", h[n].day, n, h[n].sym, FALSE)
RowsOf(h, n, u) ==
  CASE h[n].kind = "pair" -> {Sale(h, n), Purchase(h, n, u)}
    [] h[n].kind = "op" -> {Operation(h, n)}
    [] h[n].kind = "coupon" -> {CouponOf(h, n)}

AllRows(h, u) == UNION {RowsOf(h, n, u) : n \in DOMAIN h}

(* F has the rows of the first m events, those of an event one after the   *)
(* other, the sale first.                                                  *)
Parsed(F, h, m, u) ==
  /\ F \in Seq(AllRows(h, u))
  /\ \A i \in 1..Len(F) :
       F[i].event \in Covered(h, u) /\ F[i].event <= m /\ F[i] \in RowsOf(h, F[i].event, u)
  /\ \A i, j \in 1..Len(F) :
       i < j /\ F[i].event = F[j].event => F[i].kind = "sell" /\ F[j].kind = "buy"
  /\ \A n \in Covered(h, u) : n <= m =>
       \A row \in RowsOf(h, n, u) : \E i \in 1..Len(F) : F[i] = row

(* The rows of an event, by its kind.                                      *)
LEMMA RowOfEvent ==
  ASSUME NEW h, NEW n, NEW u, h[n].kind \in {"op", "pair", "coupon"}, NEW row \in RowsOf(h, n, u)
  PROVE  \/ h[n].kind = "pair" /\ row = Sale(h, n)
         \/ h[n].kind = "pair" /\ row = Purchase(h, n, u)
         \/ h[n].kind = "op" /\ row = Operation(h, n)
         \/ h[n].kind = "coupon" /\ row = CouponOf(h, n)
BY DEF RowsOf

(* Rows by what the import asks of them. *)
RowFits(row, h, n) ==
  /\ row.event = n /\ row.key = Key(row.key.day, row.kind, row.key.sym)
  /\ row.key.sym # h[n].sym => row.pair /\ row.kind = "buy" /\ row.key.sym = h[n].full
  /\ row.kind \in {"sell", "buy", "coupon"} /\ row.key.kind = row.kind
  /\ row.pair \in BOOLEAN /\ row.pair = (h[n].kind = "pair")
  /\ row.pair => row.kind \in {"sell", "buy"}
  /\ ~row.pair /\ row.kind = "buy" => h[n].kind = "op"
  /\ row.kind = "coupon" => h[n].kind = "coupon"
  /\ row.kind = "sell" => h[n].kind = "pair" /\ row.key.day = h[n].sold
  /\ row.kind # "sell" => row.key.day = h[n].day

(* What the fields of a row say of its event.                              *)
LEMMA RowFields ==
  ASSUME NEW h, NEW n, NEW u, h[n].kind \in {"op", "pair", "coupon"}, NEW row \in RowsOf(h, n, u)
  PROVE  RowFits(row, h, n)
<1>1. CASE h[n].kind = "pair" /\ row = Sale(h, n)
  <2>1. /\ row.kind = "sell" /\ row.event = n /\ row.pair = TRUE
        /\ row.key = Key(row.key.day, row.kind, h[n].sym) /\ row.key.sym = h[n].sym
        /\ row.key.day = h[n].sold /\ row.key.kind = "sell"
    BY <1>1, Zenon DEF Sale, Row, Key
  <2> QED BY <1>1, <2>1 DEF RowFits
<1>2. CASE h[n].kind = "pair" /\ row = Purchase(h, n, u)
  <2>1. /\ row.kind = "buy" /\ row.event = n /\ row.pair = TRUE
        /\ row.key = Key(row.key.day, row.kind, row.key.sym)
        /\ row.key.sym \in {h[n].sym, h[n].full}
        /\ row.key.day = h[n].day /\ row.key.kind = "buy"
    BY <1>2, Zenon DEF Purchase, Row, Key, Bought
  <2> QED BY <1>2, <2>1 DEF RowFits
<1>3. CASE h[n].kind = "op" /\ row = Operation(h, n)
  <2>1. /\ row.kind = "buy" /\ row.event = n /\ row.pair = FALSE
        /\ row.key = Key(row.key.day, row.kind, h[n].sym) /\ row.key.sym = h[n].sym
        /\ row.key.day = h[n].day /\ row.key.kind = "buy"
    BY <1>3, Zenon DEF Operation, Row, Key
  <2> QED BY <1>3, <2>1 DEF RowFits
<1>4. CASE h[n].kind = "coupon" /\ row = CouponOf(h, n)
  <2>1. /\ row.kind = "coupon" /\ row.event = n /\ row.pair = FALSE
        /\ row.key = Key(row.key.day, row.kind, h[n].sym) /\ row.key.sym = h[n].sym
        /\ row.key.day = h[n].day /\ row.key.kind = "coupon"
    BY <1>4, Zenon DEF CouponOf, Row, Key
  <2> QED BY <1>4, <2>1 DEF RowFits
<1> QED BY <1>1, <1>2, <1>3, <1>4, RowOfEvent

(* The rows of an event differ in their kinds.                             *)
LEMMA RowsApart ==
  ASSUME NEW h, NEW n, NEW u, h[n].kind \in {"op", "pair", "coupon"}
  PROVE  /\ \A r, s \in RowsOf(h, n, u) : r.kind = s.kind => r = s
         /\ h[n].kind = "pair" => \A r, s \in RowsOf(h, n, u) : r # s =>
              (r.kind = "sell" /\ s.kind = "buy") \/ (r.kind = "buy" /\ s.kind = "sell")
<1>1. Sale(h, n).kind = "sell" /\ Purchase(h, n, u).kind = "buy"
  BY DEF Sale, Purchase, Row
<1> QED BY <1>1, RowOfEvent

(* A history is a sequence of events of known kinds on known days.         *)
LEMMA HistoryIs ==
  ASSUME history \in Histories
  PROVE  /\ \E n \in Nat : DOMAIN history = 1..n /\ Len(history) = n
         /\ \A n \in DOMAIN history :
              /\ history[n].kind \in {"op", "pair", "coupon"}
              /\ history[n].sold \in 1..LastDay /\ history[n].day \in 1..LastDay
              /\ history[n].day <= history[n].sold + 1 /\ history[n].sold <= history[n].day + 1
              /\ history[n].kind # "pair" => history[n].sold = history[n].day
<1>1. history \in Seq({history[n] : n \in DOMAIN history})
  BY HistoriesAssumption
<1>2. \E n \in Nat : DOMAIN history = 1..n /\ Len(history) = n
  BY <1>1
<1> QED BY <1>2, HistoriesAssumption DEF Days

(* Joining sequences one after the other. *)
Joined(g, s, n) == g = [i \in 1..n |-> IF i = 1 THEN s[i] ELSE g[i - 1] \o s[i]]

(* FlattenSeq is a recursive function over the length of its argument;     *)
(* this is its value for one.                                              *)
LEMMA JoinedExists ==
  ASSUME NEW s, NEW n \in Nat PROVE \E g : Joined(g, s, n)
<1> DEFINE T == {k \in Nat : \E g : Joined(g, s, k)}
<1>1. 0 \in T
  <2> DEFINE g == [i \in 1..0 |-> s]
  <2>1. \A i \in 1..0 : FALSE
    OBVIOUS
  <2>2. Joined(g, s, 0)
    BY <2>1 DEF Joined
  <2> QED BY <2>2
<1>2. ASSUME NEW k \in Nat, k \in T PROVE k + 1 \in T
  <2>1. PICK g : Joined(g, s, k)
    BY <1>2
  <2> DEFINE h == [i \in 1..(k + 1) |->
                     IF i = k + 1 THEN (IF k = 0 THEN s[i] ELSE g[k] \o s[i]) ELSE g[i]]
  <2>2. ASSUME NEW i \in 1..(k + 1)
        PROVE  h[i] = IF i = 1 THEN s[i] ELSE h[i - 1] \o s[i]
    <3>1. CASE i = k + 1
      <4>1. k # 0 => h[i - 1] = g[k]
        BY <3>1
      <4> QED BY <3>1, <4>1
    <3>2. CASE i # k + 1
      <4>1. i \in 1..k /\ h[i] = g[i]
        BY <3>2
      <4>2. g[i] = IF i = 1 THEN s[i] ELSE g[i - 1] \o s[i]
        BY <2>1, <4>1 DEF Joined
      <4>3. i # 1 => h[i - 1] = g[i - 1]
        BY <3>2
      <4> QED BY <4>1, <4>2, <4>3
    <3> QED BY <3>1, <3>2
  <2>3. Joined(h, s, k + 1)
    BY <2>2 DEF Joined
  <2> HIDE DEF h
  <2> QED BY <2>3
<1> HIDE DEF T
<1>3. n \in T
  BY <1>1, <1>2, Induct
<1> QED BY <1>3 DEF T

LEMMA FlattenIs ==
  ASSUME NEW s, NEW n \in Nat, Len(s) = n
  PROVE  \/ n = 0 /\ FlattenSeq(s) = s
         \/ n # 0 /\ \E g : Joined(g, s, n) /\ FlattenSeq(s) = g[n]
<1>1. CASE n = 0
  BY <1>1 DEF FlattenSeq
<1>2. CASE n # 0
  <2> DEFINE g == CHOOSE h : Joined(h, s, n)
  <2>1. Joined(g, s, n)
    BY JoinedExists
  <2>2. FlattenSeq(s) = g[n]
    BY <1>2 DEF FlattenSeq, Joined
  <2> QED BY <1>2, <2>1, <2>2
<1> QED BY <1>1, <1>2

(* What ParseInzhur makes of one event. *)
Part(h, n, u) ==
  IF {h[n].sold, h[n].day} \subseteq 1..u
    THEN CASE h[n].kind = "pair" -> <<Sale(h, n), Purchase(h, n, u)>>
           [] h[n].kind = "op" -> <<Operation(h, n)>>
           [] h[n].kind = "coupon" -> <<CouponOf(h, n)>>
    ELSE <<>>

(* A file is the rows of the events in their order, joined.                *)
LEMMA ParseIs ==
  ASSUME NEW u PROVE ParseInzhur(u) = FlattenSeq([n \in DOMAIN history |-> Part(history, n, u)])
<1>1. \A n \in DOMAIN history : EventRows(n, u) = Part(history, n, u)
  BY DEF EventRows, Part, Sale, Purchase, Operation, CouponOf
<1>2. [n \in DOMAIN history |-> EventRows(n, u)] = [n \in DOMAIN history |-> Part(history, n, u)]
  BY <1>1
<1> QED BY <1>2 DEF ParseInzhur


(* A sequence of at most two rows.                                         *)
LEMMA OnlyTwo ==
  ASSUME NEW n \in 0..2, NEW a \in 1..n, NEW b \in 1..n, a < b
  PROVE  n = 2 /\ a = 1 /\ b = 2
OBVIOUS

PartOf(s, h, n, u) ==
  /\ s \in Seq(AllRows(h, u)) /\ Len(s) \in 0..2
  /\ n \notin Covered(h, u) => Len(s) = 0
  /\ n \in Covered(h, u) =>
       /\ \A i \in 1..Len(s) : s[i] \in RowsOf(h, n, u)
       /\ \A row \in RowsOf(h, n, u) : \E i \in 1..Len(s) : s[i] = row
  /\ Len(s) = 2 => s[1].kind = "sell" /\ s[2].kind = "buy"

(* The part of one event.                                                  *)
LEMMA PartIs ==
  ASSUME NEW h, NEW n \in DOMAIN h, h[n].kind \in {"op", "pair", "coupon"}, NEW u
  PROVE  PartOf(Part(h, n, u), h, n, u)
<1>1. RowsOf(h, n, u) \subseteq AllRows(h, u)
  BY DEF AllRows
<1>2. n \in Covered(h, u) <=> {h[n].sold, h[n].day} \subseteq 1..u
  BY DEF Covered
<1>3. CASE n \notin Covered(h, u)
  BY <1>2, <1>3 DEF Part, PartOf
<1>4. CASE n \in Covered(h, u) /\ h[n].kind = "pair"
  <2> DEFINE a == Sale(h, n)
             b == Purchase(h, n, u)
  <2>1. Part(h, n, u) = <<a, b>> /\ RowsOf(h, n, u) = {a, b}
    BY <1>2, <1>4 DEF Part, RowsOf
  <2>2. a.kind = "sell" /\ b.kind = "buy"
    BY Zenon DEF Sale, Purchase, Row
  <2> HIDE DEF a, b
  <2> QED BY <1>1, <1>4, <2>1, <2>2 DEF PartOf
<1>5. CASE n \in Covered(h, u) /\ h[n].kind = "op"
  <2> DEFINE a == Operation(h, n)
  <2>1. Part(h, n, u) = <<a>> /\ RowsOf(h, n, u) = {a}
    BY <1>2, <1>5 DEF Part, RowsOf
  <2> HIDE DEF a
  <2> QED BY <1>1, <1>5, <2>1 DEF PartOf
<1>6. CASE n \in Covered(h, u) /\ h[n].kind = "coupon"
  <2> DEFINE a == CouponOf(h, n)
  <2>1. Part(h, n, u) = <<a>> /\ RowsOf(h, n, u) = {a}
    BY <1>2, <1>6 DEF Part, RowsOf
  <2> HIDE DEF a
  <2> QED BY <1>1, <1>6, <2>1 DEF PartOf
<1> QED BY <1>3, <1>4, <1>5, <1>6

(* The first events and the next one.                                      *)
LEMMA ParsedNext ==
  ASSUME NEW h, NEW N \in Nat, DOMAIN h = 1..N,
         \A n \in DOMAIN h : h[n].kind \in {"op", "pair", "coupon"},
         NEW u, NEW F, NEW m \in Nat, m + 1 \in DOMAIN h, Parsed(F, h, m, u)
  PROVE  Parsed(F \o Part(h, m + 1, u), h, m + 1, u)
<1> DEFINE s == Part(h, m + 1, u)
           G == F \o s
<1>0. PartOf(s, h, m + 1, u)
  BY PartIs
<1> HIDE DEF s
<1>1. /\ s \in Seq(AllRows(h, u)) /\ Len(s) \in 0..2 /\ Len(s) \in Nat
      /\ m + 1 \notin Covered(h, u) => Len(s) = 0
      /\ m + 1 \in Covered(h, u) =>
           /\ \A i \in 1..Len(s) : s[i] \in RowsOf(h, m + 1, u)
           /\ \A row \in RowsOf(h, m + 1, u) : \E i \in 1..Len(s) : s[i] = row
      /\ Len(s) = 2 => s[1].kind = "sell" /\ s[2].kind = "buy"
  BY ONLY <1>0 DEF PartOf
<1>1a. Len(s) \in 0..2 /\ Len(s) \in Nat
  BY <1>1
<1>2. F \in Seq(AllRows(h, u)) /\ Len(F) \in Nat
  BY DEF Parsed
<1>3. /\ G \in Seq(AllRows(h, u)) /\ Len(G) = Len(F) + Len(s)
      /\ \A i \in 1..Len(F) : G[i] = F[i]
      /\ \A i \in 1..Len(s) : G[Len(F) + i] = s[i]
  BY <1>1, <1>2
<1>4. \A i \in 1..Len(G) : i \in 1..Len(F) \/ \E k \in 1..Len(s) : i = Len(F) + k
  <2> TAKE i \in 1..Len(G)
  <2>1. i \notin 1..Len(F) => (i - Len(F)) \in 1..Len(s) /\ i = Len(F) + (i - Len(F))
    BY <1>1, <1>2, <1>3
  <2> QED BY <2>1
<1> HIDE DEF G
<1>5. ASSUME NEW k \in 1..Len(s)
      PROVE  /\ m + 1 \in Covered(h, u) /\ s[k].event = m + 1 /\ s[k] \in RowsOf(h, m + 1, u)
  <2>1. m + 1 \in Covered(h, u)
    BY <1>1
  <2>2. s[k] \in RowsOf(h, m + 1, u)
    BY <1>1, <2>1
  <2>3. RowFits(s[k], h, m + 1)
    BY <2>2, RowFields
  <2> QED BY <2>1, <2>2, <2>3 DEF RowFits
<1>6. ASSUME NEW i \in 1..Len(F)
      PROVE  /\ F[i].event \in Covered(h, u) /\ F[i].event <= m /\ F[i].event \in Nat
             /\ F[i] \in RowsOf(h, F[i].event, u)
  BY DEF Parsed, Covered
<1>7. ASSUME NEW i \in 1..Len(G)
      PROVE  /\ G[i].event \in Covered(h, u) /\ G[i].event <= m + 1
             /\ G[i] \in RowsOf(h, G[i].event, u)
  <2>1. CASE i \in 1..Len(F)
    BY <1>3, <1>6, <2>1
  <2>2. CASE \E k \in 1..Len(s) : i = Len(F) + k
    <3>1. PICK k \in 1..Len(s) : i = Len(F) + k
      BY <2>2
    <3>2. G[i] = s[k] /\ s[k].event = m + 1 /\ m + 1 \in Covered(h, u) /\ s[k] \in RowsOf(h, m + 1, u)
      BY <1>3, <1>5, <3>1
    <3> QED BY <3>2
  <2> QED BY <1>4, <2>1, <2>2
<1>8. ASSUME NEW i \in 1..Len(G), NEW j \in 1..Len(G), i < j, G[i].event = G[j].event
      PROVE  G[i].kind = "sell" /\ G[j].kind = "buy"
  <2>1. CASE i \in 1..Len(F) /\ j \in 1..Len(F)
    BY <1>3, <1>8, <2>1 DEF Parsed
  <2>2. CASE i \in 1..Len(F) /\ \E k \in 1..Len(s) : j = Len(F) + k
    <3>1. PICK k \in 1..Len(s) : j = Len(F) + k
      BY <2>2
    <3>2. G[j].event = m + 1
      BY <1>3, <1>5, <3>1
    <3>3. G[i].event <= m /\ G[i].event \in Nat
      BY <1>3, <1>6, <2>2
    <3> QED BY <1>8, <3>2, <3>3
  <2>3. ASSUME NEW a \in 1..Len(s), i = Len(F) + a, NEW b \in 1..Len(s), j = Len(F) + b
        PROVE  G[i].kind = "sell" /\ G[j].kind = "buy"
    <3>0. a < b
      BY ONLY <1>2, i < j, i = Len(F) + a, j = Len(F) + b, a \in 1..Len(s), b \in 1..Len(s), <1>1a
    <3>1. Len(s) = 2 /\ a = 1 /\ b = 2
      BY <3>0, <1>1a, OnlyTwo
    <3> QED BY <1>1, <1>3, <2>3, <3>1
  <2>4. CASE j \in 1..Len(F) /\ \E k \in 1..Len(s) : i = Len(F) + k
    BY <1>2, <1>8, <2>4
  <2> QED BY <1>4, <2>1, <2>2, <2>3, <2>4
<1>9. ASSUME NEW n \in Covered(h, u), n <= m + 1, NEW row \in RowsOf(h, n, u)
      PROVE  \E i \in 1..Len(G) : G[i] = row
  <2>1. CASE n <= m
    <3>1. PICK i \in 1..Len(F) : F[i] = row
      BY <1>9, <2>1 DEF Parsed
    <3> QED BY <1>1, <1>2, <1>3, <3>1
  <2>2. CASE n = m + 1
    <3>1. PICK k \in 1..Len(s) : s[k] = row
      BY <1>1, <1>9, <2>2
    <3>2. Len(F) + k \in 1..Len(G)
      BY <1>1, <1>2, <1>3
    <3> QED BY <1>3, <3>1, <3>2
  <2>3. n \in Nat
    BY DEF Covered
  <2> QED BY <1>9, <2>1, <2>2, <2>3
<1>10. G \in Seq(AllRows(h, u))
  BY <1>3
<1>11. Parsed(G, h, m + 1, u)
  BY <1>7, <1>8, <1>9, <1>10 DEF Parsed
<1> QED BY <1>11 DEF G, s

(* The whole file: every row of the events it covers. *)
LEMMA ParsedAll ==
  ASSUME history \in Histories, NEW u
  PROVE  Parsed(ParseInzhur(u), history, Len(history), u)
<1>1. PICK N \in Nat : DOMAIN history = 1..N /\ Len(history) = N
  BY HistoryIs
<1>2. \A n \in DOMAIN history : history[n].kind \in {"op", "pair", "coupon"}
  BY HistoryIs
<1> DEFINE s == [n \in DOMAIN history |-> Part(history, n, u)]
<1>3. /\ DOMAIN s = 1..N /\ Len(s) = N
      /\ \A n \in 1..N : s[n] = Part(history, n, u)
  <2>1. s = [n \in 1..N |-> Part(history, n, u)]
    BY <1>1
  <2> QED BY <2>1
<1> HIDE DEF s
<1>4. ParseInzhur(u) = FlattenSeq(s)
  BY ParseIs DEF s
<1>5. Parsed(<<>>, history, 0, u)
  <2>1. <<>> \in Seq(AllRows(history, u)) /\ Len(<<>>) = 0
    OBVIOUS
  <2>2. \A n \in Covered(history, u) : n \in Nat /\ n >= 1
    BY <1>1 DEF Covered
  <2>3. \A n \in Covered(history, u) : ~(n <= 0)
    BY <2>2
  <2> QED BY <2>1, <2>3 DEF Parsed
<1>6. CASE N = 0
  <2>1. FlattenSeq(s) = s
    BY <1>3, <1>6, FlattenIs
  <2>2. s = <<>>
    BY <1>3, <1>6 DEF s
  <2> QED BY <1>1, <1>4, <1>5, <1>6, <2>1, <2>2
<1>7. CASE N # 0
  <2>1. PICK g : Joined(g, s, N) /\ FlattenSeq(s) = g[N]
    BY <1>3, <1>7, FlattenIs
  <2>2. \A i \in 1..N : g[i] = IF i = 1 THEN s[i] ELSE g[i - 1] \o s[i]
    BY <2>1 DEF Joined
  <2> DEFINE T == {k \in Nat : k \in 1..N => Parsed(g[k], history, k, u)}
  <2>3. 0 \in T
    OBVIOUS
  <2>4. ASSUME NEW k \in Nat, k \in T PROVE k + 1 \in T
    <3>1. CASE k + 1 \notin 1..N
      BY <3>1
    <3>2. CASE k + 1 \in 1..N
      <4> DEFINE F == IF k = 0 THEN <<>> ELSE g[k]
      <4>1. Parsed(F, history, k, u)
        BY <1>5, <2>4, <3>2
      <4>2. k + 1 \in DOMAIN history
        BY <1>1, <3>2
      <4>3. Parsed(F \o Part(history, k + 1, u), history, k + 1, u)
        <5> HIDE DEF F
        <5> QED BY <1>1, <1>2, <4>1, <4>2, ParsedNext
      <4>4. s[k + 1] = Part(history, k + 1, u)
        BY <1>3, <3>2
      <4>5. CASE k # 0
        <5>0. (k + 1) - 1 = k /\ k + 1 # 1
          BY <4>5
        <5>1. g[k + 1] = g[(k + 1) - 1] \o s[k + 1]
          BY <2>2, <3>2, <5>0
        <5>2. F = g[k]
          BY <4>5
        <5> HIDE DEF F
        <5>3. Parsed(g[k + 1], history, k + 1, u)
          BY <4>3, <4>4, <5>0, <5>1, <5>2
        <5> QED BY <5>3
      <4>6. CASE k = 0
        <5>1. g[k + 1] = Part(history, k + 1, u)
          BY <2>2, <3>2, <4>4, <4>6
        <5>2. PartOf(Part(history, k + 1, u), history, k + 1, u)
          BY <1>2, <4>2, PartIs
        <5>3. <<>> \o Part(history, k + 1, u) = Part(history, k + 1, u)
          BY <5>2 DEF PartOf
        <5> QED BY <4>3, <4>6, <5>1, <5>3
      <4> QED BY <4>5, <4>6
    <3> QED BY <3>1, <3>2
  <2> HIDE DEF T
  <2>5. N \in T
    BY <2>3, <2>4, Induct
  <2>6. Parsed(g[N], history, N, u)
    BY <1>7, <2>5 DEF T
  <2> QED BY <1>1, <1>4, <2>1, <2>6
<1> QED BY <1>6, <1>7

-----------------------------------------------------------------------------
(* The record of a request.                                                *)

(* A request that has read the journal has these fields. *)
Fields == {"at", "file", "i", "old", "supplied", "since", "mine", "healed", "plans",
           "first", "told", "link"}
IsRequest(q) == q = [f \in Fields |-> q[f]]

(* p is q but for where it is and for what only the plan and the link of a *)
(* conversion use.                                                         *)
Alike(q, p) ==
  /\ IsRequest(p)
  /\ p.file = q.file /\ p.i = q.i /\ p.old = q.old /\ p.since = q.since
  /\ p.mine = q.mine /\ p.told = q.told

(* p is q one row further. *)
Further(q, p) ==
  /\ IsRequest(p)
  /\ p.file = q.file /\ p.i = q.i + 1 /\ p.old = q.old /\ p.since = q.since
  /\ p.mine = q.mine /\ p.told = q.told

(* One lemma for each field that the import changes: the others stay.      *)
LEMMA SetI ==
  ASSUME NEW q, IsRequest(q)
  PROVE  Further(q, [q EXCEPT !.i = @ + 1]) /\ [q EXCEPT !.i = @ + 1].at = q.at
BY DEF IsRequest, Fields, Further
LEMMA SetHealed ==
  ASSUME NEW q, IsRequest(q), NEW v
  PROVE  Alike(q, [q EXCEPT !.healed = v]) /\ [q EXCEPT !.healed = v].at = q.at
BY DEF IsRequest, Fields, Alike
LEMMA SetPlans ==
  ASSUME NEW q, IsRequest(q), NEW v
  PROVE  Alike(q, [q EXCEPT !.plans = v]) /\ [q EXCEPT !.plans = v].at = q.at
BY DEF IsRequest, Fields, Alike
LEMMA SetFirst ==
  ASSUME NEW q, IsRequest(q), NEW v
  PROVE  Alike(q, [q EXCEPT !.first = v]) /\ [q EXCEPT !.first = v].at = q.at
BY DEF IsRequest, Fields, Alike
LEMMA SetLink ==
  ASSUME NEW q, IsRequest(q), NEW v
  PROVE  Alike(q, [q EXCEPT !.link = v, !.at = "link"])
         /\ [q EXCEPT !.link = v, !.at = "link"].at = "link"
BY DEF IsRequest, Fields, Alike
LEMMA SetAt ==
  ASSUME NEW q, IsRequest(q), NEW v
  PROVE  Alike(q, [q EXCEPT !.at = v]) /\ [q EXCEPT !.at = v].at = v
BY DEF IsRequest, Fields, Alike
LEMMA SetMine ==
  ASSUME NEW q, IsRequest(q), NEW v, NEW p, p = [q EXCEPT !.mine = v]
  PROVE  /\ IsRequest(p) /\ p.at = q.at /\ p.mine = v
         /\ p.file = q.file /\ p.i = q.i /\ p.old = q.old /\ p.since = q.since /\ p.told = q.told
BY DEF IsRequest, Fields
LEMMA SetTold ==
  ASSUME NEW q, IsRequest(q), NEW v, NEW p, p = [q EXCEPT !.told = v]
  PROVE  /\ IsRequest(p) /\ p.at = q.at /\ p.told = v
         /\ p.file = q.file /\ p.i = q.i /\ p.old = q.old /\ p.since = q.since /\ p.mine = q.mine
BY DEF IsRequest, Fields
LEMMA SetSince ==
  ASSUME NEW q, IsRequest(q), NEW v, NEW p, p = [[q EXCEPT !.at = "rows"] EXCEPT !.since = v]
  PROVE  /\ IsRequest(p) /\ p.at = "rows" /\ p.since = v
         /\ p.file = q.file /\ p.i = q.i /\ p.old = q.old /\ p.told = q.told /\ p.mine = q.mine
BY DEF IsRequest, Fields

(* Alike is reflexive and transitive.                                      *)
LEMMA AlikeTwice ==
  ASSUME NEW q, NEW p, NEW o, Alike(q, p), Alike(p, o) PROVE Alike(q, o)
BY DEF Alike
LEMMA AlikeSelf ==
  ASSUME NEW q, IsRequest(q) PROVE Alike(q, q)
BY DEF Alike

(* Planning a conversion, and remembering or linking its legs, leave the   *)
(* rest.                                                                   *)
LEMMA PlanAlike ==
  ASSUME NEW q, IsRequest(q), NEW n
  PROVE  Alike(q, PlanPair(q, n)) /\ PlanPair(q, n).at = q.at
<1>1. PlanPair(q, n) = q \/ \E v : PlanPair(q, n) = [q EXCEPT !.plans = v]
  BY DEF PlanPair
<1> QED BY <1>1, SetPlans, AlikeSelf

LEMMA LinkAlike ==
  ASSUME NEW q, IsRequest(q), NEW n, NEW id
  PROVE  Alike(q, LinkOrRemember(q, n, id)) /\ LinkOrRemember(q, n, id).at \in {q.at, "link"}
<1>1. \/ \E v : LinkOrRemember(q, n, id) = [q EXCEPT !.first = v]
      \/ \E v : LinkOrRemember(q, n, id) = [q EXCEPT !.link = v, !.at = "link"]
  BY DEF LinkOrRemember
<1>2. CASE \E v : LinkOrRemember(q, n, id) = [q EXCEPT !.first = v]
  BY <1>2, SetFirst
<1>3. CASE \E v : LinkOrRemember(q, n, id) = [q EXCEPT !.link = v, !.at = "link"]
  <2>1. PICK v : LinkOrRemember(q, n, id) = [q EXCEPT !.link = v, !.at = "link"]
    BY <1>3
  <2>2. Alike(q, [q EXCEPT !.link = v, !.at = "link"]) /\ [q EXCEPT !.link = v, !.at = "link"].at = "link"
    BY SetLink
  <2> QED BY ONLY <2>1, <2>2
<1> QED BY <1>1, <1>2, <1>3

(* What ImportRow does with the row at which q stands: p is the request    *)
(* afterwards.                                                             *)
New(row) == [id |-> NextId, key |-> row.key, leg |-> row.pair, pair |-> 0]
Skips(q, p) ==
  q.file[q.i].key.day < q.since /\ p.mine = q.mine /\ p.told = q.told
  /\ db' = db /\ received' = received
Finds(q, p) ==
  /\ q.file[q.i].pair => q.file[q.i].key \in PairSeen(q)
  /\ ~q.file[q.i].pair => q.file[q.i].kind = "buy" /\ SeenOp(q, q.file[q.i].key)
  /\ p.mine = q.mine /\ p.told = q.told /\ db' = db /\ received' = received
Writes(q, p) ==
  /\ q.file[q.i].pair => q.file[q.i].key \notin PairSeen(q)
  /\ ~q.file[q.i].pair => q.file[q.i].kind = "buy" /\ ~SeenOp(q, q.file[q.i].key)
  /\ p.mine = q.mine \cup {q.file[q.i].key} /\ p.told = q.told
  /\ db' = db \cup {New(q.file[q.i])} /\ received' = received
PutsOff(q, p) ==
  /\ \/ q.file[q.i].pair /\ q.file[q.i].key \notin PairSeen(q)
     \/ q.file[q.i].kind = "coupon" /\ q.file[q.i].event \notin supplied
  /\ p.mine = q.mine /\ db' = db /\ received' = received
  /\ \/ p.told = q.told \cup {q.i}
     \/ /\ q.file[q.i].pair /\ p.told = q.told
        /\ \E j \in q.told : q.file[j].event = q.file[q.i].event
Receives(q, p) ==
  /\ q.file[q.i].kind = "coupon" /\ q.file[q.i].event \in supplied
  /\ p.mine = q.mine /\ p.told = q.told
  /\ db' = db /\ received' = received \cup {q.file[q.i].event}

RowDone(q, p) ==
  /\ IsRequest(p) /\ p.at \in {"rows", "link"}
  /\ p.file = q.file /\ p.i = q.i + 1 /\ p.old = q.old /\ p.since = q.since
  /\ \/ Skips(q, p)
     \/ ~(q.file[q.i].key.day < q.since)
        /\ (Finds(q, p) \/ Writes(q, p) \/ PutsOff(q, p) \/ Receives(q, p))

(* One row further.                                                        *)
LEMMA AdvanceIs ==
  ASSUME NEW c \in Clients, NEW q, IsRequest(q), Advance(c, q), DOMAIN req = Clients
  PROVE  Further(q, req'[c]) /\ req'[c].at = q.at
<1>1. req'[c] = [q EXCEPT !.i = @ + 1]
  BY DEF Advance
<1> QED BY <1>1, SetI

(* Every ImportRow is one of the five.                                     *)
LEMMA RowStep ==
  ASSUME NEW c \in Clients, ImportRow(c), IsRequest(req[c]), DOMAIN req = Clients
  PROVE  RowDone(req[c], req'[c])
<1> DEFINE q == req[c]
           row == q.file[q.i]
<1>1. q.at = "rows"
  BY DEF ImportRow
<1>2. \/ row.key.day < q.since /\ Advance(c, q) /\ db' = db /\ received' = received
      \/ ~(row.key.day < q.since) /\ (OpRow(c, q, row) \/ LegRow(c, q, row) \/ CouponRow(c, q, row))
  BY DEF ImportRow
<1> HIDE DEF q
<1>0. IsRequest(q)
  BY DEF q
<1>3. CASE row.key.day < q.since /\ Advance(c, q) /\ db' = db /\ received' = received
  <2>1. Further(q, req'[c]) /\ req'[c].at = "rows"
    BY <1>0, <1>1, <1>3, AdvanceIs
  <2>2. RowDone(q, req'[c])
    BY <1>3, <2>1 DEF RowDone, Skips, Further
  <2> QED BY <2>2 DEF q
<1>4. CASE ~(row.key.day < q.since) /\ OpRow(c, q, row)
  <2>1. row.kind = "buy" /\ ~row.pair /\ received' = received
    BY <1>4 DEF OpRow
  <2>2. CASE SeenOp(q, row.key)
    <3>1. db' = db /\ Advance(c, q)
      BY <1>4, <2>2 DEF OpRow
    <3>2. Further(q, req'[c]) /\ req'[c].at = "rows"
      BY <1>0, <1>1, <3>1, AdvanceIs
    <3>3. Finds(q, req'[c])
      BY <2>1, <2>2, <3>1, <3>2 DEF Finds, Further
    <3>4. RowDone(q, req'[c])
      BY <1>4, <3>2, <3>3 DEF RowDone, Further
    <3> QED BY <3>4 DEF q
  <2>3. CASE ~SeenOp(q, row.key)
    <3> DEFINE p == [q EXCEPT !.mine = @ \cup {row.key}]
    <3>1. Insert(q, row) /\ Advance(c, p)
      BY <1>4, <2>3 DEF OpRow
    <3>2. /\ IsRequest(p) /\ p.at = "rows" /\ p.mine = q.mine \cup {row.key}
          /\ p.file = q.file /\ p.i = q.i /\ p.old = q.old /\ p.since = q.since /\ p.told = q.told
      BY <1>0, <1>1, SetMine
    <3> HIDE DEF p
    <3>3. Further(p, req'[c]) /\ req'[c].at = "rows"
      BY <3>1, <3>2, AdvanceIs
    <3>4. Writes(q, req'[c])
      BY <2>1, <2>3, <3>1, <3>2, <3>3 DEF Writes, Further, Insert, New
    <3>5. RowDone(q, req'[c])
      BY <1>4, <3>2, <3>3, <3>4 DEF RowDone, Further
    <3> QED BY <3>5 DEF q
  <2> QED BY <2>2, <2>3
<1>5. CASE ~(row.key.day < q.since) /\ LegRow(c, q, row)
  <2> DEFINE n == row.event
             planned == PlanPair(q, n)
  <2>0. row.pair /\ received' = received
    BY <1>5 DEF LegRow
  <2>1. Alike(q, planned) /\ planned.at = "rows"
    BY <1>0, <1>1, PlanAlike
  <2>2. \/ /\ row.key \in PairSeen(q) /\ db' = db
           /\ Advance(c, IF Orphan(q, row.key)
                            THEN LinkOrRemember([q EXCEPT !.healed = @ \cup {row.key}],
                                                n, OrphanId(q, row.key))
                            ELSE q)
        \/ /\ row.key \notin PairSeen(q) /\ Insert(q, row)
           /\ Advance(c, LinkOrRemember([planned EXCEPT !.mine = @ \cup {row.key}], n, NextId))
        \/ /\ row.key \notin PairSeen(q) /\ db' = db
           /\ Advance(c, [planned EXCEPT !.told =
                 IF \E i \in @ : q.file[i].event = n THEN @ ELSE @ \cup {q.i}])
    BY <1>5 DEF LegRow
  <2> HIDE DEF planned
  <2>3. CASE row.key \in PairSeen(q) /\ db' = db
             /\ Advance(c, IF Orphan(q, row.key)
                            THEN LinkOrRemember([q EXCEPT !.healed = @ \cup {row.key}],
                                                n, OrphanId(q, row.key))
                            ELSE q)
    <3> DEFINE healed == [q EXCEPT !.healed = @ \cup {row.key}]
               p == IF Orphan(q, row.key) THEN LinkOrRemember(healed, n, OrphanId(q, row.key)) ELSE q
    <3>1. Alike(q, healed) /\ healed.at = "rows"
      BY <1>0, <1>1, SetHealed
    <3>2. IsRequest(healed)
      BY <3>1 DEF Alike
    <3>3. Advance(c, p)
      BY <2>3
    <3> HIDE DEF healed
    <3>4. /\ Alike(healed, LinkOrRemember(healed, n, OrphanId(q, row.key)))
          /\ LinkOrRemember(healed, n, OrphanId(q, row.key)).at \in {"rows", "link"}
      BY <3>1, <3>2, LinkAlike
    <3>5. Alike(q, LinkOrRemember(healed, n, OrphanId(q, row.key)))
      BY <3>1, <3>4, AlikeTwice
    <3>6. Alike(q, p) /\ p.at \in {"rows", "link"}
      BY <1>0, <1>1, <3>4, <3>5, AlikeSelf
    <3> HIDE DEF p
    <3>7. Further(p, req'[c]) /\ req'[c].at \in {"rows", "link"}
      BY <3>3, <3>6, AdvanceIs DEF Alike
    <3>8. Finds(q, req'[c])
      BY <2>0, <2>3, <3>6, <3>7 DEF Finds, Further, Alike
    <3>9. RowDone(q, req'[c])
      BY <1>5, <3>6, <3>7, <3>8 DEF RowDone, Further, Alike
    <3> QED BY <3>9 DEF q
  <2>4. CASE row.key \notin PairSeen(q) /\ Insert(q, row)
             /\ Advance(c, LinkOrRemember([planned EXCEPT !.mine = @ \cup {row.key}], n, NextId))
    <3> DEFINE written == [planned EXCEPT !.mine = @ \cup {row.key}]
               p == LinkOrRemember(written, n, NextId)
    <3>1. /\ IsRequest(written) /\ written.at = "rows" /\ written.mine = planned.mine \cup {row.key}
          /\ written.file = planned.file /\ written.i = planned.i /\ written.old = planned.old
          /\ written.since = planned.since /\ written.told = planned.told
      BY <2>1, SetMine DEF Alike
    <3>2. Advance(c, p)
      BY <2>4
    <3> HIDE DEF written
    <3>3. Alike(written, p) /\ p.at \in {"rows", "link"}
      BY <3>1, LinkAlike
    <3> HIDE DEF p
    <3>4. Further(p, req'[c]) /\ req'[c].at \in {"rows", "link"}
      BY <3>2, <3>3, AdvanceIs DEF Alike
    <3>5. Writes(q, req'[c])
      BY <2>0, <2>1, <2>4, <3>1, <3>3, <3>4 DEF Writes, Further, Alike, Insert, New
    <3>6. RowDone(q, req'[c])
      BY <1>5, <2>1, <3>1, <3>3, <3>4, <3>5 DEF RowDone, Further, Alike
    <3> QED BY <3>6 DEF q
  <2>5. CASE row.key \notin PairSeen(q) /\ db' = db
             /\ Advance(c, [planned EXCEPT !.told =
                 IF \E i \in @ : q.file[i].event = n THEN @ ELSE @ \cup {q.i}])
    <3> DEFINE said == IF \E i \in planned.told : q.file[i].event = n
                         THEN planned.told ELSE planned.told \cup {q.i}
               p == [planned EXCEPT !.told = said]
    <3>1. Advance(c, p)
      BY <2>5
    <3> HIDE DEF said
    <3>2. /\ IsRequest(p) /\ p.at = "rows" /\ p.told = said
          /\ p.file = planned.file /\ p.i = planned.i /\ p.old = planned.old
          /\ p.since = planned.since /\ p.mine = planned.mine
      BY <2>1, SetTold DEF Alike
    <3> HIDE DEF p
    <3>3. Further(p, req'[c]) /\ req'[c].at = "rows"
      BY <3>1, <3>2, AdvanceIs
    <3>4. PutsOff(q, req'[c])
      BY <2>0, <2>1, <2>5, <3>2, <3>3 DEF PutsOff, Further, Alike, said
    <3>5. RowDone(q, req'[c])
      BY <1>5, <2>1, <3>2, <3>3, <3>4 DEF RowDone, Further, Alike
    <3> QED BY <3>5 DEF q
  <2> QED BY <2>2, <2>3, <2>4, <2>5
<1>6. CASE ~(row.key.day < q.since) /\ CouponRow(c, q, row)
  <2>1. row.kind = "coupon" /\ db' = db
    BY <1>6 DEF CouponRow
  <2>2. CASE row.event \in supplied
    <3>1. received' = received \cup {row.event} /\ Advance(c, q)
      BY <1>6, <2>2 DEF CouponRow
    <3>2. Further(q, req'[c]) /\ req'[c].at = "rows"
      BY <1>0, <1>1, <3>1, AdvanceIs
    <3>3. Receives(q, req'[c])
      BY <2>1, <2>2, <3>1, <3>2 DEF Receives, Further
    <3>4. RowDone(q, req'[c])
      BY <1>6, <3>2, <3>3 DEF RowDone, Further
    <3> QED BY <3>4 DEF q
  <2>3. CASE row.event \notin supplied
    <3> DEFINE p == [q EXCEPT !.told = @ \cup {q.i}]
    <3>1. received' = received /\ Advance(c, p)
      BY <1>6, <2>3 DEF CouponRow
    <3>2. /\ IsRequest(p) /\ p.at = "rows" /\ p.told = q.told \cup {q.i}
          /\ p.file = q.file /\ p.i = q.i /\ p.old = q.old /\ p.since = q.since /\ p.mine = q.mine
      BY <1>0, <1>1, SetTold
    <3> HIDE DEF p
    <3>3. Further(p, req'[c]) /\ req'[c].at = "rows"
      BY <3>1, <3>2, AdvanceIs
    <3>4. PutsOff(q, req'[c])
      BY <2>1, <2>3, <3>1, <3>2, <3>3 DEF PutsOff, Further
    <3>5. RowDone(q, req'[c])
      BY <1>6, <3>2, <3>3, <3>4 DEF RowDone, Further
    <3> QED BY <3>5 DEF q
  <2> QED BY <2>2, <2>3
<1> QED BY <1>2, <1>3, <1>4, <1>5, <1>6

-----------------------------------------------------------------------------
(* Counting.                                                               *)

(* A set that goes one to one into a finite one is no larger.              *)
LEMMA CountBy ==
  ASSUME NEW S, NEW T, IsFiniteSet(T), NEW f \in [S -> T],
         \A x, y \in S : f[x] = f[y] => x = y
  PROVE  /\ IsFiniteSet(S) /\ Cardinality(S) <= Cardinality(T)
         /\ Cardinality(S) \in Nat /\ Cardinality(T) \in Nat
<1>1. f \in Injection(S, T)
  BY DEF Injection, IsInjective
<1> QED BY <1>1, FS_Injection, FS_CardinalityType

(* The whole history as one file, and the rows of a file that are not legs *)
(* of a conversion, by key.                                                *)
Whole == ParseInzhur(LastDay)
Plain(F, key) == {i \in 1..Len(F) : F[i].key = key /\ ~F[i].pair}

(* Days are numbers.                                                       *)
LEMMA Day0 == ASSUME history \in Histories PROVE LastDay \in Nat
BY HistoriesAssumption

(* A row that some statement shows.  With a purchase that was not paid on  *)
(* top, or another row, the whole history has it too.                      *)
Known(row) ==
  \E u \in Days : \E i \in 1..Len(ParseInzhur(u)) : ParseInzhur(u)[i] = row
Complete(row) ==
  row.pair /\ row.kind = "buy" => history[row.event].full = history[row.event].sym

(* The rows of an event are the same in each file but for such a purchase. *)
LEMMA RowElsewhere ==
  ASSUME NEW h, NEW n, NEW u, NEW v, h[n].kind \in {"op", "pair", "coupon"},
         NEW row \in RowsOf(h, n, u),
         row.kind = "buy" /\ row.pair => Bought(h[n], u) = Bought(h[n], v)
  PROVE  row \in RowsOf(h, n, v)
<1>1. CASE h[n].kind = "pair" /\ row = Purchase(h, n, u)
  <2>1. row.kind = "buy" /\ row.pair = TRUE
    BY <1>1 DEF Purchase, Row
  <2>2. row = Purchase(h, n, v)
    BY <1>1, <2>1 DEF Purchase
  <2> QED BY <1>1, <2>2 DEF RowsOf
<1>2. CASE row = Sale(h, n) \/ row = Operation(h, n) \/ row = CouponOf(h, n)
  BY <1>1, <1>2, RowOfEvent DEF RowsOf
<1> QED BY <1>1, <1>2, RowOfEvent

(* Each row of a file stands in the history. *)
LEMMA RowKnown ==
  ASSUME history \in Histories, NEW u \in Days, NEW i \in 1..Len(ParseInzhur(u))
  PROVE  /\ ParseInzhur(u)[i].event \in DOMAIN history
         /\ ParseInzhur(u)[i] \in RowsOf(history, ParseInzhur(u)[i].event, u)
         /\ RowFits(ParseInzhur(u)[i], history, ParseInzhur(u)[i].event)
         /\ Known(ParseInzhur(u)[i])
         /\ Complete(ParseInzhur(u)[i]) => \E j \in 1..Len(Whole) : Whole[j] = ParseInzhur(u)[i]
<1> DEFINE F == ParseInzhur(u)
<1>1. /\ Parsed(F, history, Len(history), u)
      /\ Parsed(Whole, history, Len(history), LastDay)
  BY ParsedAll DEF Whole
<1> HIDE DEF F
<1>2. F[i].event \in Covered(history, u) /\ F[i] \in RowsOf(history, F[i].event, u)
      /\ F[i].event <= Len(history)
  BY <1>1 DEF Parsed, F
<1>3. PICK n : n = F[i].event
  OBVIOUS
<1>4. n \in DOMAIN history /\ history[n].kind \in {"op", "pair", "coupon"}
      /\ history[n].sold \in 1..LastDay /\ history[n].day \in 1..LastDay
  BY <1>2, <1>3, HistoryIs DEF Covered
<1>5. n \in Covered(history, LastDay)
  BY <1>4 DEF Covered
<1>6. ASSUME Complete(F[i]) PROVE \E j \in 1..Len(Whole) : Whole[j] = F[i]
  <2>1. F[i].kind = "buy" /\ F[i].pair => Bought(history[n], u) = Bought(history[n], LastDay)
    BY <1>3, <1>6 DEF Complete, Bought
  <2>2. F[i] \in RowsOf(history, n, LastDay)
    BY <1>2, <1>3, <1>4, <2>1, RowElsewhere
  <2> QED BY <1>1, <1>2, <1>3, <1>5, <2>2 DEF Parsed
<1>8. Known(F[i])
  BY DEF Known, F
<1>7. RowFits(F[i], history, n)
  BY <1>2, <1>3, <1>4, RowFields
<1> QED BY <1>2, <1>3, <1>4, <1>6, <1>7, <1>8 DEF F

(* Rows of a file can be counted.                                          *)
LEMMA PlainFinite ==
  ASSUME history \in Histories, NEW u \in Days, NEW key
  PROVE  IsFiniteSet(Plain(ParseInzhur(u), key)) /\ Cardinality(Plain(ParseInzhur(u), key)) \in Nat
<1>1. ParseInzhur(u) \in Seq(AllRows(history, u))
  BY ParsedAll DEF Parsed
<1>2. Len(ParseInzhur(u)) \in Nat
  BY <1>1
<1>3. IsFiniteSet(1..Len(ParseInzhur(u)))
  BY <1>2, FS_Interval
<1> QED BY <1>3, FS_Subset, FS_CardinalityType DEF Plain

(* Where there is a day there is a last one.                               *)
LEMMA LastDayIsDay ==
  ASSUME history \in Histories, NEW u \in Days PROVE LastDay \in Days
BY HistoriesAssumption DEF Days

(* A file has no more of equal rows than the history. *)
LEMMA PlainGrows ==
  ASSUME history \in Histories, NEW u \in Days, NEW key
  PROVE  Cardinality(Plain(ParseInzhur(u), key)) <= Cardinality(Plain(Whole, key))
<1> DEFINE F == ParseInzhur(u)
           f == [i \in Plain(F, key) |-> CHOOSE j \in 1..Len(Whole) : Whole[j] = F[i]]
<1>1. Parsed(F, history, Len(history), u)
  BY ParsedAll
<1>2. \A i \in 1..Len(F) :
        /\ RowFits(F[i], history, F[i].event)
        /\ ~F[i].pair => \E j \in 1..Len(Whole) : Whole[j] = F[i]
  BY RowKnown DEF Complete
<1> HIDE DEF F
<1>3. \A i \in Plain(F, key) : f[i] \in Plain(Whole, key) /\ Whole[f[i]] = F[i]
  <2> TAKE i \in Plain(F, key)
  <2>1. i \in 1..Len(F) /\ F[i].key = key /\ ~F[i].pair
    BY DEF Plain
  <2>2. f[i] \in 1..Len(Whole) /\ Whole[f[i]] = F[i]
    BY <1>2, <2>1
  <2> HIDE DEF f
  <2> QED BY <2>1, <2>2 DEF Plain
<1>4. f \in [Plain(F, key) -> Plain(Whole, key)]
  BY <1>3
<1>5. DOMAIN f = Plain(F, key)
  OBVIOUS
<1> HIDE DEF f
<1>6. \A i, k \in Plain(F, key) : F[i] = F[k] => i = k
  <2> TAKE i, k \in Plain(F, key)
  <2> HAVE F[i] = F[k]
  <2>1. i \in 1..Len(F) /\ k \in 1..Len(F) /\ ~F[i].pair /\ ~F[k].pair
    BY DEF Plain
  <2>2. F[i].kind # "sell" /\ F[k].kind # "sell"
    BY <1>2, <2>1 DEF RowFits
  <2>3. ~(i < k) /\ ~(k < i)
    BY <1>1, <2>1, <2>2 DEF Parsed
  <2> QED BY <2>1, <2>3
<1>7. \A i, k \in Plain(F, key) : f[i] = f[k] => i = k
  BY <1>3, <1>6
<1>8. IsFiniteSet(Plain(Whole, key))
  BY PlainFinite, LastDayIsDay DEF Whole
<1>9. Cardinality(Plain(F, key)) <= Cardinality(Plain(Whole, key))
  BY <1>4, <1>7, <1>8, CountBy
<1> QED BY <1>9 DEF F

(* An operation that happened so often has as many rows. *)
LEMMA HappenedRows ==
  ASSUME history \in Histories, NEW e, e.kind = "op", NEW key, key = Key(e.day, "buy", e.sym)
  PROVE  Cardinality({m \in DOMAIN history : history[m] = e}) <= Cardinality(Plain(Whole, key))
<1> DEFINE S == {m \in DOMAIN history : history[m] = e}
           f == [m \in S |-> CHOOSE j \in 1..Len(Whole) : Whole[j] = Operation(history, m)]
<1>1. Parsed(Whole, history, Len(history), LastDay)
  BY ParsedAll DEF Whole
<1>2. PICK N \in Nat : DOMAIN history = 1..N /\ Len(history) = N
  BY HistoryIs
<1>3. ASSUME NEW m \in S
      PROVE  f[m] \in Plain(Whole, key) /\ Whole[f[m]] = Operation(history, m)
  <2>1. history[m].kind = "op" /\ m \in DOMAIN history /\ history[m] = e
    OBVIOUS
  <2>2. m \in Covered(history, LastDay)
    BY <2>1, HistoryIs DEF Covered
  <2>3. Operation(history, m) \in RowsOf(history, m, LastDay)
    BY <2>1 DEF RowsOf
  <2>4. m <= Len(history)
    BY <1>2, <2>1
  <2>5. \E j \in 1..Len(Whole) : Whole[j] = Operation(history, m)
    BY <1>1, <2>2, <2>3, <2>4 DEF Parsed
  <2>6. f[m] \in 1..Len(Whole) /\ Whole[f[m]] = Operation(history, m)
    BY <2>5
  <2> HIDE DEF f
  <2>7. Operation(history, m).key = key /\ Operation(history, m).pair = FALSE
    BY <2>1, Zenon DEF Operation, Row, Key
  <2> QED BY <2>6, <2>7 DEF Plain
<1>4. f \in [S -> Plain(Whole, key)]
  BY <1>3
<1>5. \A m, n \in S : f[m] = f[n] => m = n
  <2> TAKE m, n \in S
  <2> HAVE f[m] = f[n]
  <2>1. Operation(history, m) = Operation(history, n)
    BY <1>3
  <2>2. Operation(history, m).event = m /\ Operation(history, n).event = n
    BY DEF Operation, Row
  <2> QED BY <2>1, <2>2
<1>6. LastDay \in Days \/ S = {}
  BY HistoryIs, HistoriesAssumption DEF Days
<1>7. CASE S = {}
  <2>1. Len(Whole) \in Nat
    BY <1>1 DEF Parsed
  <2>2. IsFiniteSet(1..Len(Whole))
    BY <2>1, FS_Interval
  <2>3. Plain(Whole, key) \in SUBSET (1..Len(Whole))
    BY DEF Plain
  <2>4. IsFiniteSet(Plain(Whole, key))
    BY <2>2, <2>3, FS_Subset
  <2>5. Cardinality(Plain(Whole, key)) \in Nat
    BY <2>4, FS_CardinalityType
  <2> HIDE DEF S
  <2>6. Cardinality(S) = 0
    BY <1>7, FS_EmptySet
  <2>7. 0 <= Cardinality(Plain(Whole, key))
    BY <2>5
  <2>8. Cardinality(S) <= Cardinality(Plain(Whole, key))
    BY <2>6, <2>7
  <2> QED BY <2>8 DEF S
<1>8. CASE LastDay \in Days
  <2>1. IsFiniteSet(Plain(Whole, key))
    BY <1>8, PlainFinite DEF Whole
  <2> HIDE DEF f, S
  <2>2. Cardinality(S) <= Cardinality(Plain(Whole, key))
    BY <1>4, <1>5, <2>1, CountBy
  <2> QED BY <2>2 DEF S
<1> QED BY <1>6, <1>7, <1>8

-----------------------------------------------------------------------------
(* The journal.                                                            *)

IsLine(r) == r = [id |-> r.id, key |-> r.key, leg |-> r.leg, pair |-> r.pair]
Numbered(rs) ==
  /\ IsFiniteSet(rs)
  /\ \A r \in rs : IsLine(r) /\ r.id \in 1..Cardinality(rs) /\ r.leg \in BOOLEAN
  /\ \A r, s \in rs : r.id = s.id => r = s
OneLeg(rs) == \A r, s \in rs : r.leg /\ s.leg /\ r.key = s.key => r = s

(* Each line of the journal stands for something that happened. *)
Happened(rs) ==
  /\ \A key : Cardinality(Ops(rs, key)) <= Cardinality(Plain(Whole, key))
  /\ \A r \in rs : r.leg => \E row : Known(row) /\ row.key = r.key /\ row.pair
Journal(rs) == Numbered(rs) /\ OneLeg(rs) /\ Happened(rs)

(* Lines can be counted.                                                   *)
LEMMA OpsFinite ==
  ASSUME NEW rs, IsFiniteSet(rs), NEW key
  PROVE  IsFiniteSet(Ops(rs, key)) /\ Cardinality(Ops(rs, key)) \in Nat
<1>1. Ops(rs, key) \in SUBSET rs
  BY DEF Ops
<1> QED BY <1>1, FS_Subset, FS_CardinalityType

(* No count of lines is anything but a number. *)
LEMMA PlainNumber ==
  ASSUME history \in Histories, NEW key PROVE Cardinality(Plain(Whole, key)) \in Nat
<1>1. Parsed(Whole, history, Len(history), LastDay)
  BY ParsedAll DEF Whole
<1>2. Len(Whole) \in Nat
  BY <1>1 DEF Parsed
<1>3. IsFiniteSet(1..Len(Whole))
  BY <1>2, FS_Interval
<1>4. Plain(Whole, key) \in SUBSET (1..Len(Whole))
  BY DEF Plain
<1> QED BY <1>3, <1>4, FS_Subset, FS_CardinalityType

(* Pointing a line at another changes nothing else.                        *)
LEMMA PointedLine ==
  ASSUME NEW r, IsLine(r), NEW b, NEW s, s = [r EXCEPT !.pair = b]
  PROVE  IsLine(s) /\ s.id = r.id /\ s.key = r.key /\ s.leg = r.leg
BY DEF IsLine

Pointed(rs, a, b) == {IF r.id = a THEN [r EXCEPT !.pair = b] ELSE r : r \in rs}

SameLines(rs, rt) ==
  /\ Keys(rt) = Keys(rs)
  /\ \A key : Cardinality(Ops(rt, key)) = Cardinality(Ops(rs, key))

(* One UPDATE of LinkFundOps.                                              *)
LEMMA PointKeeps ==
  ASSUME history \in Histories, NEW rs, Journal(rs), NEW a, NEW b,
         NEW rt, rt = Pointed(rs, a, b)
  PROVE  Journal(rt) /\ SameLines(rs, rt)
<1> DEFINE to == [r \in rs |-> IF r.id = a THEN [r EXCEPT !.pair = b] ELSE r]
<1>1. \A r \in rs : IsLine(to[r]) /\ to[r].id = r.id /\ to[r].key = r.key /\ to[r].leg = r.leg
                    /\ to[r] \in rt
  BY PointedLine DEF Journal, Numbered, Pointed
<1>2. \A s \in rt : \E r \in rs : s = to[r]
  BY DEF Pointed
<1>3. to \in [rs -> rt] /\ DOMAIN to = rs
  BY <1>1
<1> HIDE DEF to
<1> DEFINE back == [s \in rt |-> CHOOSE r \in rs : s = to[r]]
<1>4. \A s \in rt : back[s] \in rs /\ s = to[back[s]]
  BY <1>2
<1>5. back \in [rt -> rs]
  BY <1>4
<1> HIDE DEF back
<1>6. \A s, t \in rt : back[s] = back[t] => s = t
  BY <1>4
<1>7. \A r, s \in rs : to[r] = to[s] => r = s
  BY <1>1 DEF Journal, Numbered
<1>8. IsFiniteSet(rs)
  BY DEF Journal, Numbered
<1>9. IsFiniteSet(rt) /\ Cardinality(rt) <= Cardinality(rs) /\ Cardinality(rs) \in Nat
      /\ Cardinality(rt) \in Nat
  BY <1>5, <1>6, <1>8, CountBy
<1>10. Cardinality(rs) <= Cardinality(rt)
  BY <1>3, <1>7, <1>9, CountBy
<1>11. Cardinality(rs) = Cardinality(rt)
  BY <1>9, <1>10
<1>12. Numbered(rt)
  <2>1. ASSUME NEW s \in rt
        PROVE  IsLine(s) /\ s.id \in 1..Cardinality(rt) /\ s.leg \in BOOLEAN
    <3>1. PICK r \in rs : s = to[r]
      BY <1>2
    <3>2. IsLine(s) /\ s.id = r.id /\ s.leg = r.leg
      BY <1>1, <3>1
    <3>3. r.id \in 1..Cardinality(rs) /\ r.leg \in BOOLEAN
      BY DEF Journal, Numbered
    <3> QED BY <1>11, <3>2, <3>3
  <2>2. \A s, t \in rt : s.id = t.id => s = t
    BY <1>1, <1>2 DEF Journal, Numbered
  <2> QED BY <1>9, <2>1, <2>2 DEF Numbered
<1>13. OneLeg(rt)
  <2>1. ASSUME NEW s \in rt, NEW t \in rt, s.leg, t.leg, s.key = t.key
        PROVE  s = t
    <3>1. PICK r \in rs : s = to[r]
      BY <1>2
    <3>2. PICK o \in rs : t = to[o]
      BY <1>2
    <3>3. s.leg = r.leg /\ s.key = r.key
      BY <1>1, <3>1
    <3>4. t.leg = o.leg /\ t.key = o.key
      BY <1>1, <3>2
    <3>5. r.leg /\ o.leg
      BY <2>1, <3>3, <3>4
    <3>6. r = o
      BY <2>1, <3>3, <3>4, <3>5 DEF Journal, OneLeg
    <3> QED BY <3>1, <3>2, <3>6
  <2> QED BY <2>1 DEF OneLeg
<1>14. Keys(rt) = Keys(rs)
  BY <1>1, <1>2 DEF Keys
<1>15. ASSUME NEW key PROVE Cardinality(Ops(rt, key)) = Cardinality(Ops(rs, key))
  <2> DEFINE f == [s \in Ops(rt, key) |-> back[s]]
  <2>1. f \in [Ops(rt, key) -> Ops(rs, key)]
    BY <1>1, <1>4 DEF Ops
  <2>2. \A s, t \in Ops(rt, key) : f[s] = f[t] => s = t
    BY <1>6 DEF Ops
  <2>3. IsFiniteSet(Ops(rs, key))
    BY <1>8, OpsFinite
  <2> DEFINE g == [r \in Ops(rs, key) |-> to[r]]
  <2>4. g \in [Ops(rs, key) -> Ops(rt, key)]
    BY <1>1 DEF Ops
  <2>5. \A r, s \in Ops(rs, key) : g[r] = g[s] => r = s
    BY <1>7 DEF Ops
  <2> HIDE DEF f, g
  <2>6. /\ IsFiniteSet(Ops(rt, key)) /\ Cardinality(Ops(rt, key)) \in Nat
        /\ Cardinality(Ops(rs, key)) \in Nat
        /\ Cardinality(Ops(rt, key)) <= Cardinality(Ops(rs, key))
    BY <2>1, <2>2, <2>3, CountBy
  <2>7. Cardinality(Ops(rs, key)) <= Cardinality(Ops(rt, key))
    BY <2>4, <2>5, <2>6, CountBy
  <2> QED BY <2>6, <2>7
<1>16. Happened(rt)
  <2>1. ASSUME NEW key PROVE Cardinality(Ops(rt, key)) <= Cardinality(Plain(Whole, key))
    <3>1. /\ Cardinality(Ops(rt, key)) = Cardinality(Ops(rs, key))
          /\ Cardinality(Ops(rs, key)) <= Cardinality(Plain(Whole, key))
      BY <1>15 DEF Journal, Happened
    <3>2. Cardinality(Ops(rt, key)) \in Nat /\ Cardinality(Ops(rs, key)) \in Nat
      BY <1>8, <1>9, OpsFinite
    <3>3. Cardinality(Plain(Whole, key)) \in Nat
      BY PlainNumber
    <3> QED BY <3>1, <3>2, <3>3
  <2>2. \A s \in rt : s.leg => \E row : Known(row) /\ row.key = s.key /\ row.pair
    BY <1>1, <1>2 DEF Journal, Happened
  <2> QED BY <2>1, <2>2 DEF Happened
<1> QED BY <1>12, <1>13, <1>14, <1>15, <1>16 DEF Journal, SameLines

(* One line more. *)
LEMMA OneMore ==
  ASSUME NEW rs, Numbered(rs), NEW x, IsLine(x), x.id = Cardinality(rs) + 1,
         x.leg \in BOOLEAN, NEW rt, rt = rs \cup {x}
  PROVE  /\ Numbered(rt) /\ Keys(rt) = Keys(rs) \cup {x.key}
         /\ \A key : ~(key = x.key /\ ~x.leg) => Ops(rt, key) = Ops(rs, key)
         /\ ~x.leg => Cardinality(Ops(rt, x.key)) = Cardinality(Ops(rs, x.key)) + 1
<1>1. IsFiniteSet(rs) /\ Cardinality(rs) \in Nat
  BY FS_CardinalityType DEF Numbered
<1>2. x \notin rs
  BY <1>1 DEF Numbered
<1>3. IsFiniteSet(rt) /\ Cardinality(rt) = Cardinality(rs) + 1
  BY <1>1, <1>2, FS_AddElement
<1>4. Numbered(rt)
  <2>1. \A r \in rs : r.id \in 1..Cardinality(rt) /\ r.id # x.id
    BY <1>1, <1>3 DEF Numbered
  <2>2. x.id \in 1..Cardinality(rt)
    BY <1>1, <1>3
  <2> QED BY <1>3, <2>1, <2>2 DEF Numbered
<1>5. Keys(rt) = Keys(rs) \cup {x.key}
  BY DEF Keys
<1>6. \A key : ~(key = x.key /\ ~x.leg) => Ops(rt, key) = Ops(rs, key)
  BY DEF Ops
<1>7. ASSUME ~x.leg
      PROVE  Cardinality(Ops(rt, x.key)) = Cardinality(Ops(rs, x.key)) + 1
  <2>1. Ops(rt, x.key) = Ops(rs, x.key) \cup {x}
    BY <1>7 DEF Ops
  <2>2. x \notin Ops(rs, x.key)
    BY <1>2 DEF Ops
  <2>3. IsFiniteSet(Ops(rs, x.key))
    BY <1>1, OpsFinite
  <2> QED BY <2>1, <2>2, <2>3, FS_AddElement
<1> QED BY <1>4, <1>5, <1>6, <1>7

-----------------------------------------------------------------------------
(* The invariant: whatever the journal has was in it when the import read  *)
(* it, or was written for a row before the one at which the import stands. *)

FromFile(q) == \E u \in Days : q.file = ParseInzhur(u)
Seen(q, key, n) == {j \in Considered(q) : j < n /\ q.file[j].key = key /\ ~q.file[j].pair}
Accounted(q, rs) ==
  \A key : \/ Cardinality(Ops(rs, key)) <= Cardinality(Ops(q.old, key))
           \/ Cardinality(Ops(rs, key)) <= Cardinality(Seen(q, key, q.i))

Waiting(q) == q.at = "journal" /\ FromFile(q)
Working(q, rs) ==
  /\ q.at \in {"mark", "rows", "link", "link back"} /\ FromFile(q) /\ IsRequest(q)
  /\ q.i \in Nat \ {0} /\ q.since \in 0..LastDay /\ IsFiniteSet(q.old)
  /\ \A j \in q.told : j \in 1..Len(q.file) /\ j < q.i
  /\ q.at = "mark" => q.old = rs
  /\ Keys(rs) \subseteq PairSeen(q)
  /\ Accounted(q, rs)

OneImport == \A c, d \in Clients : req[c] # NoImport /\ req[d] # NoImport => c = d
TwiceInv ==
  /\ history \in Histories /\ DOMAIN req = Clients
  /\ limits.atOnce = 1 =>
       /\ Journal(db) /\ OneImport /\ since \in 0..LastDay
       /\ \A c \in Clients : req[c] = NoImport \/ Waiting(req[c]) \/ Working(req[c], db)

(* What is known of the file of a request.                                 *)
LEMMA FileIs ==
  ASSUME history \in Histories, NEW q, FromFile(q)
  PROVE  /\ DOMAIN q.file = 1..Len(q.file)
         /\ Len(q.file) \in Nat
         /\ \A i \in 1..Len(q.file) :
              /\ q.file[i].pair \in BOOLEAN /\ q.file[i].key.day \in 1..LastDay
              /\ Known(q.file[i])
              /\ Complete(q.file[i]) => \E j \in 1..Len(Whole) : Whole[j] = q.file[i]
         /\ \A key : /\ IsFiniteSet(Plain(q.file, key))
                     /\ Cardinality(Plain(q.file, key)) \in Nat
                     /\ Cardinality(Plain(q.file, key)) <= Cardinality(Plain(Whole, key))
<1>1. PICK u \in Days : q.file = ParseInzhur(u)
  BY DEF FromFile
<1>2. q.file \in Seq(AllRows(history, u))
  BY <1>1, ParsedAll DEF Parsed
<1>3. DOMAIN q.file = 1..Len(q.file) /\ Len(q.file) \in Nat
  BY <1>2
<1>4. \A i \in 1..Len(q.file) :
        /\ RowFits(q.file[i], history, q.file[i].event)
        /\ q.file[i].event \in DOMAIN history
        /\ Known(q.file[i])
        /\ Complete(q.file[i]) => \E j \in 1..Len(Whole) : Whole[j] = q.file[i]
  BY <1>1, RowKnown
<1>5. ASSUME NEW i \in 1..Len(q.file)
      PROVE  q.file[i].pair \in BOOLEAN /\ q.file[i].key.day \in 1..LastDay
  <2>1. PICK n \in DOMAIN history : n = q.file[i].event
    BY <1>4
  <2>2. history[n].sold \in 1..LastDay /\ history[n].day \in 1..LastDay
    BY HistoryIs
  <2>3. RowFits(q.file[i], history, n)
    BY <1>4, <2>1
  <2> QED BY <2>2, <2>3 DEF RowFits
<1>6. \A key : /\ IsFiniteSet(Plain(q.file, key))
               /\ Cardinality(Plain(q.file, key)) \in Nat
               /\ Cardinality(Plain(q.file, key)) <= Cardinality(Plain(Whole, key))
  BY <1>1, PlainFinite, PlainGrows
<1> QED BY <1>3, <1>4, <1>5, <1>6

(* The rows of a key that are behind: how many, and one row more.          *)
LEMMA SeenGrows ==
  ASSUME history \in Histories, NEW q, FromFile(q), NEW n \in Nat \ {0}, NEW key
  PROVE  /\ IsFiniteSet(Seen(q, key, n)) /\ Cardinality(Seen(q, key, n)) \in Nat
         /\ Cardinality(Seen(q, key, n)) <= Cardinality(Plain(Whole, key))
         /\ Cardinality(Seen(q, key, n)) <= Cardinality(Seen(q, key, n + 1))
         /\ n \in Seen(q, key, n + 1) =>
              Cardinality(Seen(q, key, n + 1)) = Cardinality(Seen(q, key, n)) + 1
<1>1. /\ DOMAIN q.file = 1..Len(q.file) /\ Len(q.file) \in Nat
      /\ IsFiniteSet(Plain(q.file, key))
      /\ Cardinality(Plain(q.file, key)) \in Nat
      /\ Cardinality(Plain(q.file, key)) <= Cardinality(Plain(Whole, key))
  BY FileIs
<1>2. \A k : Seen(q, key, k) \in SUBSET Plain(q.file, key)
  BY <1>1 DEF Seen, Considered, Plain
<1>3. \A k : IsFiniteSet(Seen(q, key, k)) /\ Cardinality(Seen(q, key, k)) \in Nat
             /\ Cardinality(Seen(q, key, k)) <= Cardinality(Plain(q.file, key))
  BY <1>1, <1>2, FS_Subset, FS_CardinalityType
<1>4. Seen(q, key, n) \in SUBSET Seen(q, key, n + 1)
  BY <1>1 DEF Seen, Considered
<1>5. Cardinality(Seen(q, key, n)) <= Cardinality(Seen(q, key, n + 1))
  BY <1>3, <1>4, FS_Subset
<1>6. ASSUME n \in Seen(q, key, n + 1)
      PROVE  Cardinality(Seen(q, key, n + 1)) = Cardinality(Seen(q, key, n)) + 1
  <2>1. Seen(q, key, n + 1) = Seen(q, key, n) \cup {n}
    BY <1>1, <1>6 DEF Seen, Considered
  <2>2. n \notin Seen(q, key, n)
    BY DEF Seen
  <2> QED BY <1>3, <2>1, <2>2, FS_AddElement
<1>7. Cardinality(Plain(Whole, key)) \in Nat
  BY PlainNumber
<1> QED BY <1>1, <1>3, <1>5, <1>6, <1>7

(* The rows behind depend on the file and the mark only.                   *)
LEMMA SeenSame ==
  ASSUME NEW q, NEW p, p.file = q.file, p.since = q.since, NEW key, NEW n
  PROVE  Seen(p, key, n) = Seen(q, key, n)
BY DEF Seen, Considered

(* The arithmetic of one more row and one more line.                       *)
LEMMA ByNumbers ==
  ASSUME NEW a \in Nat, NEW b \in Nat, NEW s \in Nat, NEW t \in Nat, NEW w \in Nat,
         a <= b \/ a <= s, s <= t, t <= w
  PROVE  /\ a <= b \/ a <= t
         /\ t = s + 1 /\ ~(t <= b) => a + 1 <= t /\ a + 1 <= w
OBVIOUS

(* No row of the file writes a line too many.                              *)
LEMMA RowKeeps ==
  ASSUME history \in Histories, NEW q, NEW p, Journal(db), Working(q, db), q.i <= Len(q.file),
         q.at = "rows", RowDone(q, p)
  PROVE  Journal(db') /\ Working(p, db')
<1> DEFINE i == q.i
           row == q.file[i]
<1>1. /\ FromFile(q) /\ i \in Nat \ {0} /\ IsFiniteSet(q.old) /\ Keys(db) \subseteq PairSeen(q)
      /\ q.since \in 0..LastDay
      /\ Accounted(q, db)
  BY DEF Working
<1>2. /\ IsRequest(p) /\ p.at \in {"rows", "link"} /\ p.file = q.file /\ p.i = i + 1
      /\ p.old = q.old /\ p.since = q.since
  BY DEF RowDone
<1>3. i \in 1..Len(q.file) /\ row.pair \in BOOLEAN /\ row.key.day \in 1..LastDay
      /\ DOMAIN q.file = 1..Len(q.file)
      /\ Known(row)
  BY <1>1, FileIs
<1>4. FromFile(p) /\ p.i \in Nat \ {0} /\ IsFiniteSet(p.old) /\ p.at # "mark"
      /\ p.since \in 0..LastDay
  BY <1>1, <1>2 DEF FromFile
<1>14. \A j \in p.told : j \in 1..Len(p.file) /\ j < p.i
  <2>1. p.told \subseteq q.told \cup {i}
    BY DEF RowDone, Skips, Finds, Writes, PutsOff, Receives
  <2>2. \A j \in q.told : j \in 1..Len(q.file) /\ j < i
    BY DEF Working
  <2> QED BY <1>1, <1>2, <1>3, <2>1, <2>2
<1>5. \A key : /\ Cardinality(Seen(p, key, p.i)) = Cardinality(Seen(q, key, i + 1))
               /\ Cardinality(Ops(p.old, key)) = Cardinality(Ops(q.old, key))
  BY <1>2, SeenSame
<1>6. \A key : /\ Cardinality(Ops(db, key)) \in Nat /\ Cardinality(Ops(q.old, key)) \in Nat
               /\ Cardinality(Plain(Whole, key)) \in Nat
  BY <1>1, OpsFinite, PlainNumber DEF Journal, Numbered
<1>7. \A key : \/ Cardinality(Ops(db, key)) <= Cardinality(Ops(q.old, key))
               \/ Cardinality(Ops(db, key)) <= Cardinality(Seen(q, key, i))
  BY <1>1 DEF Accounted
<1>8. Cardinality(Seen(q, row.key, i + 1)) \in Nat /\ Cardinality(Seen(q, row.key, i)) \in Nat
      /\ Cardinality(Seen(q, row.key, i + 1)) <= Cardinality(Plain(Whole, row.key))
      /\ Cardinality(Seen(q, row.key, i)) <= Cardinality(Seen(q, row.key, i + 1))
  <2>1. i + 1 \in Nat \ {0}
    BY <1>1
  <2> QED BY <1>1, <2>1, SeenGrows
<1>9. Accounted(p, db)
  <2> SUFFICES ASSUME NEW key
               PROVE  \/ Cardinality(Ops(db, key)) <= Cardinality(Ops(p.old, key))
                      \/ Cardinality(Ops(db, key)) <= Cardinality(Seen(p, key, p.i))
    BY DEF Accounted
  <2>1. Cardinality(Seen(q, key, i)) \in Nat
        /\ Cardinality(Seen(q, key, i)) <= Cardinality(Seen(q, key, i + 1))
    BY <1>1, SeenGrows
  <2>2. i + 1 \in Nat \ {0}
    BY <1>1
  <2>3. Cardinality(Seen(q, key, i + 1)) \in Nat
    BY <1>1, <2>2, SeenGrows
  <2>4. /\ Cardinality(Ops(db, key)) \in Nat /\ Cardinality(Ops(q.old, key)) \in Nat
    BY <1>6
  <2>5. \/ Cardinality(Ops(db, key)) <= Cardinality(Ops(q.old, key))
        \/ Cardinality(Ops(db, key)) <= Cardinality(Seen(q, key, i))
    BY <1>7
  <2>6. \/ Cardinality(Ops(db, key)) <= Cardinality(Ops(q.old, key))
        \/ Cardinality(Ops(db, key)) <= Cardinality(Seen(q, key, i + 1))
    BY <2>1, <2>3, <2>4, <2>5
  <2> QED BY <1>5, <2>6
<1>10. CASE db' = db /\ p.mine = q.mine
  <2>1. PairSeen(p) = PairSeen(q)
    BY <1>2, <1>10 DEF PairSeen
  <2>2. Working(p, db)
    BY <1>1, <1>2, <1>4, <1>9, <1>14, <2>1 DEF Working
  <2> QED BY <1>10, <2>2
<1>11. CASE ~(row.key.day < q.since) /\ Writes(q, p)
  <2>1. /\ row.pair => row.key \notin PairSeen(q)
        /\ ~row.pair => ~SeenOp(q, row.key)
        /\ p.mine = q.mine \cup {row.key} /\ db' = db \cup {New(row)}
    BY <1>11 DEF Writes
  <2> DEFINE x == New(row)
  <2>2. IsLine(x) /\ x.id = Cardinality(db) + 1 /\ x.leg = row.pair /\ x.key = row.key
    BY DEF New, NextId, IsLine
  <2>9. db' = db \cup {x}
    BY <2>1
  <2> HIDE DEF x
  <2>10. Numbered(db)
    BY DEF Journal
  <2>3. /\ Numbered(db') /\ Keys(db') = Keys(db) \cup {row.key}
        /\ \A key : ~(key = row.key /\ ~row.pair) => Ops(db', key) = Ops(db, key)
        /\ ~row.pair => Cardinality(Ops(db', row.key)) = Cardinality(Ops(db, row.key)) + 1
    <3>1. IsLine(x) /\ x.id = Cardinality(db) + 1 /\ x.leg \in BOOLEAN
      BY <1>3, <2>2
    <3>2. /\ Numbered(db') /\ Keys(db') = Keys(db) \cup {x.key}
          /\ \A key : ~(key = x.key /\ ~x.leg) => Ops(db', key) = Ops(db, key)
          /\ ~x.leg => Cardinality(Ops(db', x.key)) = Cardinality(Ops(db, x.key)) + 1
      BY ONLY <2>9, <2>10, <3>1, OneMore
    <3> QED BY <2>2, <3>2
  <2>4. Keys(db') \subseteq PairSeen(p)
    BY <1>1, <1>2, <2>1, <2>3 DEF PairSeen
  <2>5. OneLeg(db')
    <3>1. OneLeg(db)
      BY DEF Journal
    <3>2. \A r \in db : r.leg /\ x.leg => r.key # x.key
      BY <1>1, <2>1, <2>2 DEF Keys
    <3> QED BY <2>1, <3>1, <3>2 DEF OneLeg, x
  <2>6. \A r \in db' : r.leg => \E known : Known(known) /\ known.key = r.key /\ known.pair
    <3>1. \A r \in db : r.leg => \E known : Known(known) /\ known.key = r.key /\ known.pair
      BY DEF Journal, Happened
    <3>2. x.leg => \E known : Known(known) /\ known.key = x.key /\ known.pair
      BY <1>3, <2>2
    <3> QED BY <2>1, <3>1, <3>2 DEF x
  <2>7. CASE row.pair
    <3>1. \A key : Ops(db', key) = Ops(db, key)
      BY <2>3, <2>7
    <3>2. Accounted(p, db') /\ \A key : Cardinality(Ops(db', key)) <= Cardinality(Plain(Whole, key))
      BY <1>9, <3>1 DEF Accounted, Journal, Happened
    <3>3. Working(p, db')
      BY <1>2, <1>4, <1>14, <2>4, <3>2 DEF Working
    <3> QED BY <2>3, <2>5, <2>6, <3>2, <3>3 DEF Journal, Happened
  <2>8. CASE ~row.pair
    <3>1. i \in Seen(q, row.key, i + 1)
      BY <1>1, <1>3, <1>11, <2>8 DEF Seen, Considered
    <3>2. Cardinality(Seen(q, row.key, i + 1)) = Cardinality(Seen(q, row.key, i)) + 1
      BY <1>1, <3>1, SeenGrows
    <3>3. {j \in Considered(q) : j <= i /\ q.file[j].key = row.key /\ ~q.file[j].pair}
            = Seen(q, row.key, i + 1)
      BY <1>1, <1>3 DEF Seen, Considered
    <3>4. ~(Cardinality(Seen(q, row.key, i + 1)) <= Cardinality(Ops(q.old, row.key)))
      BY <2>1, <2>8, <3>3 DEF SeenOp
    <3>5. /\ Cardinality(Ops(db, row.key)) + 1 <= Cardinality(Seen(q, row.key, i + 1))
          /\ Cardinality(Ops(db, row.key)) + 1 <= Cardinality(Plain(Whole, row.key))
      <4>1. /\ Cardinality(Ops(db, row.key)) \in Nat /\ Cardinality(Ops(q.old, row.key)) \in Nat
            /\ Cardinality(Plain(Whole, row.key)) \in Nat
        BY <1>6
      <4>2. \/ Cardinality(Ops(db, row.key)) <= Cardinality(Ops(q.old, row.key))
            \/ Cardinality(Ops(db, row.key)) <= Cardinality(Seen(q, row.key, i))
        BY <1>7
      <4> QED BY <1>8, <3>2, <3>4, <4>1, <4>2, ByNumbers
    <3>6. Accounted(p, db')
      <4>1. ASSUME NEW key, key # row.key
            PROVE  \/ Cardinality(Ops(db', key)) <= Cardinality(Ops(p.old, key))
                   \/ Cardinality(Ops(db', key)) <= Cardinality(Seen(p, key, p.i))
        BY <1>9, <2>3, <4>1 DEF Accounted
      <4>2. Cardinality(Ops(db', row.key)) <= Cardinality(Seen(p, row.key, p.i))
        BY <1>5, <2>3, <2>8, <3>5
      <4> QED BY <4>1, <4>2 DEF Accounted
    <3>7. \A key : Cardinality(Ops(db', key)) <= Cardinality(Plain(Whole, key))
      <4>1. ASSUME NEW key, key # row.key
            PROVE  Cardinality(Ops(db', key)) <= Cardinality(Plain(Whole, key))
        BY <2>3, <4>1 DEF Journal, Happened
      <4>2. Cardinality(Ops(db', row.key)) <= Cardinality(Plain(Whole, row.key))
        BY <2>3, <2>8, <3>5
      <4> QED BY <4>1, <4>2
    <3>8. Working(p, db')
      BY <1>2, <1>4, <1>14, <2>4, <3>6 DEF Working
    <3> QED BY <2>3, <2>5, <2>6, <3>7, <3>8 DEF Journal, Happened
  <2> QED BY <1>3, <2>7, <2>8
<1>12. (db' = db /\ p.mine = q.mine) \/ (~(row.key.day < q.since) /\ Writes(q, p))
  BY DEF RowDone, Skips, Finds, PutsOff, Receives
<1> QED BY <1>10, <1>11, <1>12

-----------------------------------------------------------------------------
(* The steps.                                                              *)

(* The history does not change, so neither do its files.                   *)
LEMMA SameFiles ==
  ASSUME history' = history
  PROVE  /\ Whole' = Whole
         /\ \A u : ParseInzhur(u)' = ParseInzhur(u)
         /\ Journal(db)' <=> Journal(db')
         /\ \A c : /\ FromFile(req[c])' <=> FromFile(req'[c])
                   /\ Waiting(req[c])' <=> Waiting(req'[c])
                   /\ Working(req[c], db)' <=> Working(req'[c], db')
<1>1. \A u : ParseInzhur(u)' = ParseInzhur(u)
  BY DEF ParseInzhur, EventRows
<1>2. Whole' = Whole
  BY <1>1 DEF Whole
<1>3. Journal(db)' <=> Journal(db')
  <2>1. \A row : Known(row)' <=> Known(row)
    BY <1>1 DEF Known, Days
  <2> QED BY <1>2, <2>1 DEF Journal, Numbered, OneLeg, Happened, Plain, Ops
<1>4. ASSUME NEW c
      PROVE  /\ FromFile(req[c])' <=> FromFile(req'[c])
             /\ Waiting(req[c])' <=> Waiting(req'[c])
             /\ Working(req[c], db)' <=> Working(req'[c], db')
  <2>1. FromFile(req[c])' <=> FromFile(req'[c])
    BY <1>1 DEF FromFile
  <2> QED BY <2>1 DEF Waiting, Working
<1> QED BY <1>1, <1>2, <1>3, <1>4

Serves(q, rs) == q = NoImport \/ Waiting(q) \/ Working(q, rs)

(* What each action must show.                                             *)
LEMMA Assemble ==
  ASSUME TwiceInv, history' = history, limits' = limits, DOMAIN req' = Clients,
         limits.atOnce = 1 =>
           /\ Journal(db') /\ since' \in 0..LastDay
           /\ \A c, d \in Clients : req'[c] # NoImport /\ req'[d] # NoImport => c = d
           /\ \A c \in Clients : Serves(req'[c], db')
  PROVE  TwiceInv'
<1>1. history' \in Histories
  BY DEF TwiceInv
<1>2. ASSUME limits.atOnce = 1
      PROVE  /\ Journal(db)' /\ OneImport'
             /\ \A c \in Clients : (req[c] = NoImport \/ Waiting(req[c]) \/ Working(req[c], db))'
  <2>1. Journal(db)'
    BY <1>2, SameFiles
  <2>2. OneImport'
    BY <1>2 DEF OneImport
  <2>3. ASSUME NEW c \in Clients
        PROVE  (req[c] = NoImport \/ Waiting(req[c]) \/ Working(req[c], db))'
    <3>1. req'[c] = NoImport \/ Waiting(req'[c]) \/ Working(req'[c], db')
      BY <1>2 DEF Serves
    <3>2. /\ Waiting(req[c])' <=> Waiting(req'[c])
          /\ Working(req[c], db)' <=> Working(req'[c], db')
      BY SameFiles
    <3> QED BY <3>1, <3>2
  <2> QED BY <2>1, <2>2, <2>3
<1> QED BY <1>1, <1>2 DEF TwiceInv

(* One request moves; when only one may be under way the others are idle.  *)
LEMMA OneMoves ==
  ASSUME TwiceInv, limits.atOnce = 1, NEW c \in Clients, NEW p, req' = [req EXCEPT ![c] = p],
         \A d \in Clients : d # c => req[d] = NoImport, Serves(p, db')
  PROVE  /\ \A d, e \in Clients : req'[d] # NoImport /\ req'[e] # NoImport => d = e
         /\ \A d \in Clients : Serves(req'[d], db')
<1>1. req'[c] = p /\ \A d \in Clients : d # c => req'[d] = NoImport
  BY DEF TwiceInv
<1> QED BY <1>1 DEF Serves

(* While one request is under way the others are idle.                     *)
LEMMA InUse ==
  ASSUME TwiceInv, limits.atOnce = 1, NEW c \in Clients, req[c].at # "idle"
  PROVE  /\ \A d \in Clients : d # c => req[d] = NoImport
         /\ Waiting(req[c]) \/ Working(req[c], db)
         /\ Journal(db) /\ history \in Histories /\ DOMAIN req = Clients /\ since \in 0..LastDay
<1>1. req[c] # NoImport
  BY DEF NoImport
<1> QED BY <1>1 DEF TwiceInv, OneImport

(* Action by action.                                                       *)
LEMMA UploadKeeps ==
  ASSUME TwiceInv, NEW c \in Clients, Upload(c) PROVE TwiceInv'
<1>1. PICK u \in Days : req' = [req EXCEPT ![c] = [at |-> "journal", file |-> ParseInzhur(u)]]
  BY DEF Upload
<1>2. history' = history /\ limits' = limits /\ db' = db /\ since' = since
  BY DEF Upload, countVars
<1>3. DOMAIN req' = Clients
  BY <1>1 DEF TwiceInv
<1>4. ASSUME limits.atOnce = 1
      PROVE  /\ Journal(db') /\ since' \in 0..LastDay
             /\ \A d, e \in Clients : req'[d] # NoImport /\ req'[e] # NoImport => d = e
             /\ \A d \in Clients : Serves(req'[d], db')
  <2> DEFINE p == [at |-> "journal", file |-> ParseInzhur(u)]
             Active == {d \in Clients : req[d] # NoImport}
  <2>1. \A d \in Clients : req[d] = NoImport
    <3> SUFFICES ASSUME NEW d \in Clients, req[d] # NoImport PROVE FALSE
      OBVIOUS
    <3>1. Active = {d}
      BY <1>4 DEF TwiceInv, OneImport
    <3>2. Cardinality({d}) = 1
      BY FS_Singleton
    <3>3. Cardinality(Active) < 1
      BY <1>4 DEF Upload
    <3> HIDE DEF Active
    <3> QED BY <3>1, <3>2, <3>3
  <2>2. FromFile(p) /\ p.at = "journal"
    BY DEF FromFile
  <2>3. Serves(p, db')
    BY <2>2 DEF Serves, Waiting
  <2> HIDE DEF p
  <2>4. /\ \A d, e \in Clients : req'[d] # NoImport /\ req'[e] # NoImport => d = e
        /\ \A d \in Clients : Serves(req'[d], db')
    BY <1>1, <1>4, <2>1, <2>3, OneMoves DEF p
  <2> QED BY <1>2, <1>4, <2>4 DEF TwiceInv
<1> QED BY <1>2, <1>3, <1>4, Assemble

LEMMA ReadJournalKeeps ==
  ASSUME TwiceInv, NEW c \in Clients, ReadJournal(c) PROVE TwiceInv'
<1> DEFINE p == [at |-> "mark", file |-> req[c].file, i |-> 1, old |-> db,
        supplied |-> supplied, since |-> 0, mine |-> {}, healed |-> {},
        plans |-> {}, first |-> {}, told |-> {}, link |-> <<>>]
<1>1. req' = [req EXCEPT ![c] = p] /\ req[c].at = "journal"
  BY DEF ReadJournal
<1>2. history' = history /\ limits' = limits /\ db' = db /\ since' = since
  BY DEF ReadJournal, countVars
<1>3. DOMAIN req' = Clients
  BY <1>1 DEF TwiceInv
<1>4. /\ p.at = "mark" /\ p.file = req[c].file /\ p.i = 1 /\ p.old = db /\ p.since = 0
      /\ p.mine = {} /\ p.told = {}
  OBVIOUS
<1>5. IsRequest(p)
  BY DEF IsRequest, Fields
<1> HIDE DEF p
<1>6. ASSUME limits.atOnce = 1
      PROVE  /\ Journal(db') /\ since' \in 0..LastDay
             /\ \A d, e \in Clients : req'[d] # NoImport /\ req'[e] # NoImport => d = e
             /\ \A d \in Clients : Serves(req'[d], db')
  <2>1. /\ \A d \in Clients : d # c => req[d] = NoImport
        /\ Waiting(req[c]) /\ Journal(db) /\ history \in Histories /\ since \in 0..LastDay
    BY <1>1, <1>6, InUse DEF Working
  <2>2. FromFile(p)
    BY <1>4, <2>1 DEF Waiting, FromFile
  <2>3. Keys(db) \subseteq PairSeen(p)
    BY <1>4 DEF PairSeen
  <2>4. IsFiniteSet(db) /\ \A key : Cardinality(Ops(db, key)) \in Nat
    BY <2>1, OpsFinite DEF Journal, Numbered
  <2>5. Accounted(p, db)
    BY <1>4, <2>4 DEF Accounted
  <2>6. 0 \in 0..LastDay
    BY <2>1, Day0
  <2>7. Working(p, db)
    BY <1>4, <1>5, <2>2, <2>3, <2>4, <2>5, <2>6 DEF Working
  <2>8. Serves(p, db')
    BY <1>2, <2>7 DEF Serves
  <2>9. /\ \A d, e \in Clients : req'[d] # NoImport /\ req'[e] # NoImport => d = e
        /\ \A d \in Clients : Serves(req'[d], db')
    BY <1>1, <1>6, <2>1, <2>8, OneMoves
  <2> QED BY <1>2, <2>1, <2>9
<1> QED BY <1>2, <1>3, <1>6, Assemble

LEMMA ReadMarkKeeps ==
  ASSUME TwiceInv, NEW c \in Clients, ReadMark(c) PROVE TwiceInv'
<1> DEFINE q == req[c]
           p == [[q EXCEPT !.at = "rows"] EXCEPT !.since = since]
<1>1. req[c].at = "mark" /\ req' = [req EXCEPT ![c].at = "rows", ![c].since = since]
  BY DEF ReadMark
<1>2. history' = history /\ limits' = limits /\ db' = db /\ since' = since
  BY DEF ReadMark, countVars
<1>3. DOMAIN req' = Clients
  BY <1>1 DEF TwiceInv
<1>4. ASSUME limits.atOnce = 1
      PROVE  /\ Journal(db') /\ since' \in 0..LastDay
             /\ \A d, e \in Clients : req'[d] # NoImport /\ req'[e] # NoImport => d = e
             /\ \A d \in Clients : Serves(req'[d], db')
  <2>1. /\ \A d \in Clients : d # c => req[d] = NoImport
        /\ Working(q, db) /\ Journal(db) /\ history \in Histories /\ DOMAIN req = Clients
        /\ since \in 0..LastDay
    BY <1>1, <1>4, InUse DEF Waiting
  <2>2. req' = [req EXCEPT ![c] = p]
    BY <1>1, <2>1
  <2>3. IsRequest(q) /\ q.old = db
    BY <1>1, <2>1 DEF Working
  <2>4. /\ IsRequest(p) /\ p.at = "rows" /\ p.since = since
        /\ p.file = q.file /\ p.i = q.i /\ p.old = q.old /\ p.told = q.told /\ p.mine = q.mine
    <3>1. IsRequest(q)
      BY <2>3
    <3>2. PICK s : s = since
      OBVIOUS
    <3>3. PICK o : o = [[q EXCEPT !.at = "rows"] EXCEPT !.since = s]
      OBVIOUS
    <3>4. o = p
      BY <3>2, <3>3
    <3> HIDE DEF q, p
    <3>5. /\ IsRequest(o) /\ o.at = "rows" /\ o.since = s
          /\ o.file = q.file /\ o.i = q.i /\ o.old = q.old /\ o.told = q.told /\ o.mine = q.mine
      BY ONLY <3>1, <3>3 DEF IsRequest, Fields
    <3> QED BY <3>2, <3>4, <3>5
  <2> HIDE DEF p
  <2>5. IsFiniteSet(db) /\ \A key : Cardinality(Ops(db, key)) \in Nat
    BY <2>1, OpsFinite DEF Journal, Numbered
  <2>6. Accounted(p, db)
    BY <2>3, <2>4, <2>5 DEF Accounted
  <2>7. FromFile(p) /\ PairSeen(p) = PairSeen(q)
    BY <2>1, <2>4 DEF Working, FromFile, PairSeen
  <2>8. Working(p, db)
    BY <2>1, <2>4, <2>6, <2>7 DEF Working
  <2>9. Serves(p, db')
    BY <1>2, <2>8 DEF Serves
  <2>10. /\ \A d, e \in Clients : req'[d] # NoImport /\ req'[e] # NoImport => d = e
         /\ \A d \in Clients : Serves(req'[d], db')
    BY <1>4, <2>1, <2>2, <2>9, OneMoves
  <2> QED BY <1>2, <2>1, <2>10
<1> QED BY <1>2, <1>3, <1>4, Assemble

LEMMA ImportRowKeeps ==
  ASSUME TwiceInv, NEW c \in Clients, ImportRow(c) PROVE TwiceInv'
<1> DEFINE q == req[c]
<1>1. PICK p : req' = [req EXCEPT ![c] = p]
  BY DEF ImportRow, OpRow, LegRow, CouponRow, Advance
<1>2. history' = history /\ limits' = limits /\ since' = since /\ q.at = "rows" /\ q.i <= Len(q.file)
  BY DEF ImportRow, countVars
<1>3. DOMAIN req' = Clients
  BY <1>1 DEF TwiceInv
<1>4. ASSUME limits.atOnce = 1
      PROVE  /\ Journal(db') /\ since' \in 0..LastDay
             /\ \A d, e \in Clients : req'[d] # NoImport /\ req'[e] # NoImport => d = e
             /\ \A d \in Clients : Serves(req'[d], db')
  <2>1. /\ \A d \in Clients : d # c => req[d] = NoImport
        /\ Working(q, db) /\ Journal(db) /\ history \in Histories /\ DOMAIN req = Clients
        /\ since \in 0..LastDay
    BY <1>2, <1>4, InUse DEF Waiting
  <2>2. IsRequest(q)
    BY <2>1 DEF Working
  <2>3. RowDone(q, req'[c])
    BY <2>1, <2>2, RowStep
  <2>4. req'[c] = p
    BY <1>1, <2>1
  <2>5. RowDone(q, p)
    BY <2>3, <2>4
  <2> HIDE DEF q
  <2>6. Journal(db') /\ Working(p, db')
    BY <1>2, <2>1, <2>5, RowKeeps
  <2>7. Serves(p, db')
    BY <2>6 DEF Serves
  <2>8. /\ \A d, e \in Clients : req'[d] # NoImport /\ req'[e] # NoImport => d = e
        /\ \A d \in Clients : Serves(req'[d], db')
    BY <1>1, <1>4, <2>1, <2>7, OneMoves
  <2> QED BY <1>2, <2>1, <2>6, <2>8
<1> QED BY <1>2, <1>3, <1>4, Assemble

LEMMA LinkFundOpsKeeps ==
  ASSUME TwiceInv, NEW c \in Clients, LinkFundOps(c) PROVE TwiceInv'
<1> DEFINE q == req[c]
<1>1. PICK v \in {"rows", "link back"} : req' = [req EXCEPT ![c].at = v]
  BY DEF LinkFundOps
<1>2. history' = history /\ limits' = limits /\ since' = since /\ q.at \in {"link", "link back"}
  BY DEF LinkFundOps, countVars
<1>3. DOMAIN req' = Clients
  BY <1>1 DEF TwiceInv
<1>4. \E a, b : Point(a, b)
  BY DEF LinkFundOps
<1>5. ASSUME limits.atOnce = 1
      PROVE  /\ Journal(db') /\ since' \in 0..LastDay
             /\ \A d, e \in Clients : req'[d] # NoImport /\ req'[e] # NoImport => d = e
             /\ \A d \in Clients : Serves(req'[d], db')
  <2> DEFINE p == [q EXCEPT !.at = v]
  <2>1. /\ \A d \in Clients : d # c => req[d] = NoImport
        /\ Working(q, db) /\ Journal(db) /\ history \in Histories /\ DOMAIN req = Clients
        /\ since \in 0..LastDay
    BY <1>2, <1>5, InUse DEF Waiting
  <2>2. IsRequest(q) /\ q.at # "mark"
    BY <1>2, <2>1 DEF Working
  <2>3. req' = [req EXCEPT ![c] = p]
    BY <1>1, <2>1
  <2>4. Alike(q, p) /\ p.at = v
    BY <2>2, SetAt
  <2> HIDE DEF q, p
  <2>5. Journal(db') /\ SameLines(db, db')
    <3>1. PICK a, b : Point(a, b)
      BY <1>4
    <3>2. db' = Pointed(db, a, b)
      BY <3>1 DEF Point, Pointed
    <3> QED BY <2>1, <3>2, PointKeeps
  <2>6. IsFiniteSet(db) /\ IsFiniteSet(db') /\ IsFiniteSet(q.old) /\ FromFile(q)
    BY <2>1, <2>5 DEF Journal, Numbered, Working
  <2>7. Accounted(p, db')
    <3> SUFFICES ASSUME NEW key
                 PROVE  \/ Cardinality(Ops(db', key)) <= Cardinality(Ops(p.old, key))
                        \/ Cardinality(Ops(db', key)) <= Cardinality(Seen(p, key, p.i))
      BY DEF Accounted
    <3>1. /\ Cardinality(Ops(db, key)) \in Nat /\ Cardinality(Ops(db', key)) \in Nat
          /\ Cardinality(Ops(q.old, key)) \in Nat
      BY <2>6, OpsFinite
    <3>2. Cardinality(Seen(q, key, q.i)) \in Nat
      BY <2>1, <2>6, SeenGrows DEF Working
    <3>3. p.old = q.old /\ Seen(p, key, p.i) = Seen(q, key, q.i)
      BY <2>4 DEF Alike, Seen, Considered
    <3>4. \/ Cardinality(Ops(db, key)) <= Cardinality(Ops(q.old, key))
          \/ Cardinality(Ops(db, key)) <= Cardinality(Seen(q, key, q.i))
      BY <2>1 DEF Working, Accounted
    <3>5. Cardinality(Ops(db', key)) = Cardinality(Ops(db, key))
      BY <2>5 DEF SameLines
    <3>6. \/ Cardinality(Ops(db', key)) <= Cardinality(Ops(q.old, key))
          \/ Cardinality(Ops(db', key)) <= Cardinality(Seen(q, key, q.i))
      BY <3>4, <3>5
    <3> QED BY <3>3, <3>6
  <2>8. FromFile(p) /\ PairSeen(p) = PairSeen(q)
    BY <2>4, <2>6 DEF Alike, FromFile, PairSeen
  <2>9. Working(p, db')
    BY <2>1, <2>4, <2>5, <2>7, <2>8 DEF Working, Alike, SameLines
  <2>10. Serves(p, db')
    BY <2>9 DEF Serves
  <2>11. /\ \A d, e \in Clients : req'[d] # NoImport /\ req'[e] # NoImport => d = e
         /\ \A d \in Clients : Serves(req'[d], db')
    BY <1>5, <2>1, <2>3, <2>10, OneMoves
  <2> QED BY <1>2, <2>1, <2>5, <2>11
<1> QED BY <1>2, <1>3, <1>5, Assemble

(* The mark an import leaves is a day, or 0.                               *)
LEMMA MarkIsDay ==
  ASSUME history \in Histories, NEW q, FromFile(q), q.since \in 0..LastDay,
         \A j \in q.told : j \in 1..Len(q.file)
  PROVE  NextImportSince(q) \in 0..LastDay
<1> DEFINE days(I) == {q.file[i].key.day : i \in I}
           putOff(i) == \E j \in q.told : q.file[j].event = q.file[i].event
           taken == {i \in Considered(q) : ~putOff(i) \/ q.file[i].key \in PairSeen(q)}
           next == Greatest({q.since} \cup days(taken))
<1>1. /\ DOMAIN q.file = 1..Len(q.file)
      /\ \A i \in 1..Len(q.file) : q.file[i].key.day \in 1..LastDay
  BY FileIs
<1>2. LastDay \in Nat
  BY Day0
<1>3. \A x \in {q.since} \cup days(taken) : x \in 0..LastDay
  BY <1>1 DEF Considered
<1>4. next \in 0..LastDay
  <2> DEFINE S == {q.since} \cup days(taken)
  <2>1. S \in SUBSET Nat /\ S # {} /\ \A x \in S : x <= LastDay
    BY <1>2, <1>3
  <2>2. \A x \in S : x \in 0..LastDay
    BY <1>3
  <2> HIDE DEF S
  <2>3. Greatest(S) \in S
    BY <1>2, <2>1, GreatestIs
  <2>4. Greatest(S) \in 0..LastDay
    BY <2>2, <2>3
  <2> QED BY <2>4 DEF S
<1> HIDE DEF next
<1>5. Least({next} \cup days(q.told)) \in 0..LastDay
  <2> DEFINE S == {next} \cup days(q.told)
  <2>1. \A x \in S : x \in 0..LastDay
    BY <1>1, <1>4
  <2>2. S \in SUBSET Nat /\ S # {}
    BY <1>2, <2>1
  <2> HIDE DEF S
  <2>3. Least(S) \in S
    BY <2>2, LeastIs
  <2>4. Least(S) \in 0..LastDay
    BY <2>1, <2>3
  <2> QED BY <2>4 DEF S
<1> QED BY <1>5 DEF NextImportSince, next

(* The end of a request, good or bad.                                      *)
LEMMA EndKeeps ==
  ASSUME TwiceInv, NEW c \in Clients, Finish(c) \/ Fail(c) PROVE TwiceInv'
<1> DEFINE q == req[c]
<1>1. req' = [req EXCEPT ![c] = NoImport]
  BY DEF Finish, Fail
<1>2. history' = history /\ limits' = limits /\ db' = db
  BY DEF Finish, Fail, countVars
<1>3. DOMAIN req' = Clients
  BY <1>1 DEF TwiceInv
<1>4. ASSUME limits.atOnce = 1
      PROVE  /\ Journal(db') /\ since' \in 0..LastDay
             /\ \A d, e \in Clients : req'[d] # NoImport /\ req'[e] # NoImport => d = e
             /\ \A d \in Clients : Serves(req'[d], db')
  <2>1. /\ Journal(db) /\ since \in 0..LastDay /\ history \in Histories
        /\ \A d \in Clients : req[d] = NoImport \/ Waiting(req[d]) \/ Working(req[d], db)
    BY <1>4 DEF TwiceInv
  <2>2. \A d \in Clients : Serves(req'[d], db')
    BY <1>1, <1>2, <2>1 DEF TwiceInv, Serves
  <2>3. \A d, e \in Clients : req'[d] # NoImport /\ req'[e] # NoImport => d = e
    BY <1>1, <1>4 DEF TwiceInv, OneImport
  <2>4. CASE Finish(c)
    <3>1. q.at = "rows" /\ since' = NextImportSince(q)
      BY <2>4 DEF Finish
    <3>2. Working(q, db)
      BY <1>4, <3>1, InUse DEF Waiting
    <3> HIDE DEF q
    <3>3. NextImportSince(q) \in 0..LastDay
      BY <2>1, <3>2, MarkIsDay DEF Working
    <3> QED BY <1>2, <2>1, <2>2, <2>3, <3>1, <3>3
  <2>5. CASE Fail(c)
    <3>1. since' = since
      BY <2>5 DEF Fail
    <3> QED BY <1>2, <2>1, <2>2, <2>3, <3>1
  <2> QED BY <2>4, <2>5
<1> QED BY <1>2, <1>3, <1>4, Assemble

(* The user enters no more operations than happened.                       *)
LEMMA EnterByHandKeeps ==
  ASSUME TwiceInv, EnterByHand PROVE TwiceInv'
<1>1. PICK n \in DOMAIN history :
        LET e == history[n]
            key == [day |-> e.day, kind |-> "buy", sym |-> e.sym]
        IN  /\ e.kind = "op"
            /\ Cardinality(Ops(db, key)) < Cardinality({m \in DOMAIN history : history[m] = e})
            /\ \A c \in Clients : req[c] = NoImport
            /\ db' = db \cup {[id |-> NextId, key |-> key, leg |-> FALSE, pair |-> 0]}
  BY DEF EnterByHand
<1> DEFINE e == history[n]
           key == Key(e.day, "buy", e.sym)
           x == [id |-> NextId, key |-> key, leg |-> FALSE, pair |-> 0]
<1>2. /\ e.kind = "op"
      /\ Cardinality(Ops(db, key)) < Cardinality({m \in DOMAIN history : history[m] = e})
      /\ \A c \in Clients : req[c] = NoImport
      /\ db' = db \cup {x}
  BY <1>1 DEF Key
<1>3. history' = history /\ limits' = limits /\ since' = since /\ req' = req
  BY DEF EnterByHand
<1>4. IsLine(x) /\ x.id = Cardinality(db) + 1 /\ x.leg = FALSE /\ x.key = key
  BY DEF NextId, IsLine
<1>5. history \in Histories /\ DOMAIN req = Clients
  BY DEF TwiceInv
<1>6. Cardinality({m \in DOMAIN history : history[m] = e}) <= Cardinality(Plain(Whole, key))
  BY <1>2, <1>5, HappenedRows
<1>7. IsFiniteSet({m \in DOMAIN history : history[m] = e})
  <2>1. PICK k \in Nat : DOMAIN history = 1..k
    BY <1>5, HistoryIs
  <2>2. IsFiniteSet(1..k)
    BY <2>1, FS_Interval
  <2>3. {m \in DOMAIN history : history[m] = e} \in SUBSET (1..k)
    BY <2>1
  <2> QED BY <2>2, <2>3, FS_Subset
<1>8. PICK often \in Nat : often = Cardinality({m \in DOMAIN history : history[m] = e})
  BY <1>7, FS_CardinalityType
<1> HIDE DEF x, key
<1>9. ASSUME limits.atOnce = 1
      PROVE  /\ Journal(db') /\ since' \in 0..LastDay
             /\ \A d, f \in Clients : req'[d] # NoImport /\ req'[f] # NoImport => d = f
             /\ \A d \in Clients : Serves(req'[d], db')
  <2>1. Journal(db) /\ since \in 0..LastDay
    BY <1>9 DEF TwiceInv
  <2>2. Numbered(db) /\ x.leg \in BOOLEAN
    BY <1>4, <2>1 DEF Journal
  <2>3. /\ Numbered(db') /\ \A k : k # x.key => Ops(db', k) = Ops(db, k)
        /\ Cardinality(Ops(db', x.key)) = Cardinality(Ops(db, x.key)) + 1
    BY <1>2, <1>4, <2>2, OneMore
  <2>4. Cardinality(Ops(db', key)) <= Cardinality(Plain(Whole, key))
    <3>1. Cardinality(Ops(db, key)) \in Nat /\ Cardinality(Plain(Whole, key)) \in Nat
      BY <1>5, <2>2, OpsFinite, PlainNumber DEF Numbered
    <3>2. Cardinality(Ops(db, key)) < often /\ often <= Cardinality(Plain(Whole, key))
      BY <1>2, <1>6, <1>8
    <3>3. Cardinality(Ops(db', key)) = Cardinality(Ops(db, key)) + 1
      BY <1>4, <2>3
    <3> QED BY <3>1, <3>2, <3>3
  <2>5. \A k : Cardinality(Ops(db', k)) <= Cardinality(Plain(Whole, k))
    <3>1. ASSUME NEW k, k # key
          PROVE  Cardinality(Ops(db', k)) <= Cardinality(Plain(Whole, k))
      BY <1>4, <2>1, <2>3, <3>1 DEF Journal, Happened
    <3> QED BY <2>4, <3>1
  <2>6. \A r \in db' : r.leg => r \in db
    BY <1>2, <1>4
  <2>7. Happened(db') /\ OneLeg(db')
    BY <2>1, <2>5, <2>6 DEF Journal, Happened, OneLeg
  <2>8. Journal(db')
    BY <2>3, <2>7 DEF Journal
  <2> QED BY <1>2, <1>3, <2>1, <2>8 DEF Serves
<1>10. DOMAIN req' = Clients
  BY <1>3, <1>5
<1> QED BY <1>3, <1>9, <1>10, Assemble

(* The other actions touch neither journal nor requests.                   *)
LEMMA OtherKeeps ==
  ASSUME TwiceInv, Supply \/ HandleImportSince \/ UNCHANGED vars PROVE TwiceInv'
<1>1. history' = history /\ limits' = limits /\ db' = db /\ req' = req
  BY DEF Supply, HandleImportSince, vars, countVars
<1>2. since \in 0..LastDay => since' \in 0..LastDay
  BY DEF Supply, HandleImportSince, vars, countVars
<1>3. DOMAIN req' = Clients
  BY <1>1 DEF TwiceInv
<1>4. ASSUME limits.atOnce = 1
      PROVE  /\ Journal(db') /\ since' \in 0..LastDay
             /\ \A d, f \in Clients : req'[d] # NoImport /\ req'[f] # NoImport => d = f
             /\ \A d \in Clients : Serves(req'[d], db')
  BY <1>1, <1>2, <1>4 DEF TwiceInv, OneImport, Serves
<1> QED BY <1>1, <1>3, <1>4, Assemble

(* So every step keeps the invariant.                                      *)
LEMMA TwiceNext ==
  ASSUME TwiceInv, [Next]_vars PROVE TwiceInv'
BY UploadKeeps, ReadJournalKeeps, ReadMarkKeeps, ImportRowKeeps, LinkFundOpsKeeps, EndKeeps,
   EnterByHandKeeps, OtherKeeps DEF Next

(* And it holds in the beginning.                                          *)
LEMMA TwiceInit ==
  ASSUME Init PROVE TwiceInv
<1>1. history \in Histories /\ db = {} /\ since = 0 /\ req = [c \in Clients |-> NoImport]
  BY DEF Init
<1>2. LastDay \in Nat
  BY <1>1, Day0
<1>3. Numbered(db) /\ OneLeg(db)
  BY <1>1, FS_EmptySet DEF Numbered, OneLeg
<1>4. \A key : Cardinality(Ops(db, key)) <= Cardinality(Plain(Whole, key))
  <2> TAKE key
  <2>1. Ops(db, key) = {}
    BY <1>1 DEF Ops
  <2>2. Cardinality(Ops(db, key)) = 0
    BY <2>1, FS_EmptySet
  <2>3. Cardinality(Plain(Whole, key)) \in Nat
    BY <1>1, PlainNumber
  <2> QED BY <2>2, <2>3
<1>5. Journal(db)
  BY <1>1, <1>3, <1>4 DEF Journal, Happened
<1> QED BY <1>1, <1>2, <1>5 DEF TwiceInv, OneImport

(* The rows that statements show are finitely many, so those of a key are. *)
LEMMA ShownFinite ==
  ASSUME history \in Histories
  PROVE  /\ IsFiniteSet(ShownRows)
         /\ \A row : Known(row) <=> row \in ShownRows
<1>1. ASSUME NEW u \in Days
      PROVE  /\ IsFiniteSet(Range(ParseInzhur(u)))
             /\ DOMAIN ParseInzhur(u) = 1..Len(ParseInzhur(u))
  <2>1. ParseInzhur(u) \in Seq(AllRows(history, u))
    BY ParsedAll DEF Parsed
  <2>2. DOMAIN ParseInzhur(u) = 1..Len(ParseInzhur(u)) /\ Len(ParseInzhur(u)) \in Nat
    BY <2>1
  <2>3. IsFiniteSet(DOMAIN ParseInzhur(u))
    BY <2>2, FS_Interval
  <2>4. Range(ParseInzhur(u)) = {ParseInzhur(u)[i] : i \in DOMAIN ParseInzhur(u)}
    BY DEF Range
  <2> DEFINE f == [row \in Range(ParseInzhur(u)) |->
                     CHOOSE i \in DOMAIN ParseInzhur(u) : ParseInzhur(u)[i] = row]
  <2>5. \A row \in Range(ParseInzhur(u)) :
          f[row] \in DOMAIN ParseInzhur(u) /\ ParseInzhur(u)[f[row]] = row
    BY <2>4
  <2>6. f \in [Range(ParseInzhur(u)) -> DOMAIN ParseInzhur(u)]
    BY <2>5
  <2>7. \A row, other \in Range(ParseInzhur(u)) : f[row] = f[other] => row = other
    BY <2>5
  <2> HIDE DEF f
  <2>8. IsFiniteSet(Range(ParseInzhur(u)))
    BY <2>3, <2>6, <2>7, CountBy
  <2> QED BY <2>2, <2>8
<1>2. IsFiniteSet(Days)
  <2>1. LastDay \in Nat
    BY Day0
  <2> QED BY <2>1, FS_Interval DEF Days
<1>3. IsFiniteSet({Range(ParseInzhur(u)) : u \in Days})
  <2> DEFINE Sets == {Range(ParseInzhur(u)) : u \in Days}
             g == [T \in Sets |-> CHOOSE u \in Days : Range(ParseInzhur(u)) = T]
  <2>1. \A T \in Sets : g[T] \in Days /\ Range(ParseInzhur(g[T])) = T
    OBVIOUS
  <2>2. g \in [Sets -> Days] /\ \A T, U \in Sets : g[T] = g[U] => T = U
    BY <2>1
  <2> HIDE DEF Sets, g
  <2>3. IsFiniteSet(Sets)
    BY <1>2, <2>2, CountBy
  <2> QED BY <2>3 DEF Sets
<1>4. IsFiniteSet(ShownRows)
  BY <1>1, <1>3, FS_UNION DEF ShownRows
<1>5. \A row : Known(row) <=> row \in ShownRows
  BY <1>1 DEF Known, ShownRows, Range
<1> QED BY <1>4, <1>5

(* The operations of a key are as many rows that some statement shows.     *)
LEMMA PlainShown ==
  ASSUME history \in Histories, NEW key, NEW leg, leg = {} \/ \E row : leg = {row} /\
         Known(row) /\ row.key = key /\ row.pair
  PROVE  /\ Cardinality(Plain(Whole, key)) + Cardinality(leg) <= Cardinality(ShownAs(key))
         /\ Cardinality(leg) = IF leg = {} THEN 0 ELSE 1
<1> DEFINE Rows == {Whole[i] : i \in Plain(Whole, key)}
           f == [i \in Plain(Whole, key) |-> Whole[i]]
<1>1. IsFiniteSet(ShownAs(key)) /\ Cardinality(ShownAs(key)) \in Nat
  BY ShownFinite, FS_Subset, FS_CardinalityType DEF ShownAs
<1>2. Parsed(Whole, history, Len(history), LastDay)
  BY ParsedAll DEF Whole
<1>3. \A i \in Plain(Whole, key) : i \in 1..Len(Whole) /\ Whole[i].key = key /\ ~Whole[i].pair
  BY DEF Plain
<1>4. ASSUME NEW i \in Plain(Whole, key)
      PROVE  LastDay \in Days /\ RowFits(Whole[i], history, Whole[i].event)
  <2>1. Whole[i].event \in Covered(history, LastDay)
    BY <1>2, <1>3 DEF Parsed
  <2>2. LastDay \in Days
    BY <2>1, HistoryIs, HistoriesAssumption DEF Covered, Days
  <2> QED BY <1>3, <2>2, RowKnown DEF Whole
<1>5. Rows \in SUBSET ShownAs(key) /\ \A row \in Rows : ~row.pair
  <2> SUFFICES ASSUME NEW i \in Plain(Whole, key)
               PROVE  Whole[i] \in ShownAs(key) /\ ~Whole[i].pair
    OBVIOUS
  <2>1. Known(Whole[i])
    BY <1>3, <1>4 DEF Known, Whole
  <2> QED BY <1>3, <2>1, ShownFinite DEF ShownAs
<1>6. IsFiniteSet(Rows) /\ Cardinality(Rows) \in Nat
  BY <1>1, <1>5, FS_Subset, FS_CardinalityType
<1>7. f \in [Plain(Whole, key) -> Rows]
  OBVIOUS
<1>8. \A i, k \in Plain(Whole, key) : f[i] = f[k] => i = k
  <2> TAKE i, k \in Plain(Whole, key)
  <2> HAVE f[i] = f[k]
  <2>1. Whole[i] = Whole[k]
    OBVIOUS
  <2>2. Whole[i].kind # "sell" /\ Whole[k].kind # "sell"
    BY <1>3, <1>4 DEF RowFits
  <2>3. ~(i < k) /\ ~(k < i)
    BY <1>2, <1>3, <2>1, <2>2 DEF Parsed
  <2> QED BY <1>3, <2>3
<1> HIDE DEF f, Rows
<1>9. Cardinality(Plain(Whole, key)) <= Cardinality(Rows)
      /\ Cardinality(Plain(Whole, key)) \in Nat
  BY <1>6, <1>7, <1>8, CountBy
<1>10. CASE leg = {}
  <2>1. Cardinality(leg) = 0
    BY <1>10, FS_EmptySet
  <2>2. Cardinality(Rows) <= Cardinality(ShownAs(key))
    BY <1>1, <1>5, FS_Subset
  <2> QED BY <1>1, <1>6, <1>9, <1>10, <2>1, <2>2
<1>11. CASE leg # {}
  <2>1. PICK row : leg = {row} /\ Known(row) /\ row.key = key /\ row.pair
    BY <1>11
  <2>2. row \notin Rows /\ Rows \cup {row} \in SUBSET ShownAs(key)
    BY <1>5, <2>1, ShownFinite DEF ShownAs
  <2>3. Cardinality(Rows \cup {row}) = Cardinality(Rows) + 1
    BY <1>6, <2>2, FS_AddElement
  <2>4. Cardinality(Rows \cup {row}) <= Cardinality(ShownAs(key))
    BY <1>1, <2>2, FS_Subset
  <2>5. Cardinality(leg) = 1
    BY <2>1, FS_Singleton
  <2> QED BY <1>1, <1>6, <1>9, <1>11, <2>3, <2>4, <2>5
<1> QED BY <1>10, <1>11

(* The lines of a key are its operations and at most one leg; so are the   *)
(* rows that statements show.                                              *)
LEMMA TwiceInvSays ==
  ASSUME TwiceInv PROVE NothingTwice
<1> SUFFICES ASSUME limits.atOnce = 1, NEW key
             PROVE  Cardinality({r \in db : r.key = key}) <= Cardinality(ShownAs(key))
  BY DEF NothingTwice
<1> DEFINE Lines == {r \in db : r.key = key}
<1>1. Journal(db) /\ history \in Histories
  BY DEF TwiceInv
<1>2. /\ IsFiniteSet(db) /\ IsFiniteSet(Ops(db, key)) /\ Cardinality(Ops(db, key)) \in Nat
      /\ Cardinality(Plain(Whole, key)) \in Nat
      /\ Cardinality(Ops(db, key)) <= Cardinality(Plain(Whole, key))
  BY <1>1, OpsFinite, PlainNumber DEF Journal, Numbered, Happened
<1>3. Cardinality(ShownAs(key)) \in Nat
  BY <1>1, ShownFinite, FS_Subset, FS_CardinalityType DEF ShownAs
<1>4. CASE \E leg \in Lines : leg.leg
  <2>1. PICK leg \in db : leg.key = key /\ leg.leg
    BY <1>4
  <2>2. Lines = Ops(db, key) \cup {leg} /\ leg \notin Ops(db, key)
    BY <1>1, <2>1 DEF Journal, OneLeg, Ops
  <2>3. Cardinality(Lines) = Cardinality(Ops(db, key)) + 1
    BY <1>2, <2>2, FS_AddElement
  <2>4. PICK row : Known(row) /\ row.key = key /\ row.pair
    BY <1>1, <2>1 DEF Journal, Happened
  <2>5. Cardinality(Plain(Whole, key)) + 1 <= Cardinality(ShownAs(key))
    <3>1. /\ Cardinality(Plain(Whole, key)) + Cardinality({row}) <= Cardinality(ShownAs(key))
          /\ Cardinality({row}) = IF {row} = {} THEN 0 ELSE 1
      BY <1>1, <2>4, PlainShown
    <3>2. {row} # {}
      OBVIOUS
    <3> QED BY <3>1, <3>2
  <2> HIDE DEF Lines
  <2>6. Cardinality(Lines) <= Cardinality(ShownAs(key))
    BY <1>2, <1>3, <2>3, <2>5
  <2> QED BY <2>6 DEF Lines
<1>5. CASE ~\E leg \in Lines : leg.leg
  <2>1. Lines = Ops(db, key)
    BY <1>5 DEF Ops
  <2>2. Cardinality(Plain(Whole, key)) + 0 <= Cardinality(ShownAs(key))
    BY <1>1, PlainShown
  <2> HIDE DEF Lines
  <2>3. Cardinality(Lines) <= Cardinality(ShownAs(key))
    BY <1>2, <1>3, <2>1, <2>2
  <2> QED BY <2>3 DEF Lines
<1> QED BY <1>4, <1>5

(* However often a statement is sent, with whatever failures, manual       *)
(* entries and moves of the mark in between, an operation is in the        *)
(* journal at most as many times as it happened, and a conversion's        *)
(* purchase at most once with each amount that some statement has shown    *)
(* for it: the twins and the keys of importing (handlers_import.go), for   *)
(* one import at a time.  A payment on top that a later statement adds     *)
(* changes the amount and with it the key; ConversionOnce, which would     *)
(* exclude the second purchase, does not hold.                             *)
THEOREM ImportsAddNothingTwice == Spec => []NothingTwice
<1>1. Init => TwiceInv
  BY TwiceInit
<1>2. TwiceInv /\ [Next]_vars => TwiceInv'
  BY TwiceNext
<1>3. TwiceInv => NothingTwice
  BY TwiceInvSays
<1> QED BY <1>1, <1>2, <1>3, PTL DEF Spec

-----------------------------------------------------------------------------
(* What the mark hides is in the journal.                                  *)

(* A row of the history that nobody needs to see any more.                 *)
Settled(row, rs, got) ==
  /\ row.kind = "coupon" => row.event \in got
  /\ row.pair => row.key \in Keys(rs)
  /\ row.kind # "coupon" /\ ~row.pair =>
       Cardinality(Plain(Whole, row.key)) <= Cardinality(Ops(rs, row.key))
AllSettled(s, rs, got) ==
  \A j \in 1..Len(Whole) : Whole[j].key.day < s => Settled(Whole[j], rs, got)

(* The rows behind are in the journal or told to the user; the half of a   *)
(* conversion, once for both.                                              *)
Told(q, i) == \E t \in q.told : t <= i /\ q.file[t].event = q.file[i].event
Caught(q, rs, got) ==
  /\ PairSeen(q) \subseteq Keys(rs)
  /\ \A key : Cardinality(Ops(q.old, key)) <= Cardinality(Ops(rs, key))
  /\ \A key : key.kind # "coupon" =>
       Cardinality(Seen(q, key, q.i)) <= Cardinality(Ops(rs, key))
  /\ \A i \in Considered(q) : i < q.i =>
       /\ q.file[i].kind = "coupon" => q.file[i].event \in got \/ i \in q.told
       /\ q.file[i].pair => q.file[i].key \in PairSeen(q) \/ Told(q, i)

(* A file holds every row of the days before its last one.                 *)
LEMMA RowInFile ==
  ASSUME history \in Histories, NEW u \in Days, NEW j \in 1..Len(Whole), Whole[j].key.day < u
  PROVE  \E i \in 1..Len(ParseInzhur(u)) : ParseInzhur(u)[i] = Whole[j]
<1> DEFINE F == ParseInzhur(u)
<1>1. /\ Parsed(F, history, Len(history), u)
      /\ Parsed(Whole, history, Len(history), LastDay)
  BY ParsedAll DEF Whole
<1> HIDE DEF F
<1>2. /\ Whole[j].event \in Covered(history, LastDay) /\ Whole[j].event <= Len(history)
      /\ Whole[j] \in RowsOf(history, Whole[j].event, LastDay)
  BY <1>1 DEF Parsed
<1>3. PICK n \in DOMAIN history : n = Whole[j].event
  BY <1>2 DEF Covered
<1>4. /\ history[n].kind \in {"op", "pair", "coupon"}
      /\ history[n].sold \in 1..LastDay /\ history[n].day \in 1..LastDay
      /\ history[n].day <= history[n].sold + 1 /\ history[n].sold <= history[n].day + 1
      /\ history[n].kind # "pair" => history[n].sold = history[n].day
  BY HistoryIs
<1>5. RowFits(Whole[j], history, n)
  BY <1>2, <1>3, <1>4, RowFields
<1>6. Whole[j].key.day = history[n].sold \/ Whole[j].key.day = history[n].day
  BY <1>5 DEF RowFits
<1>7. u \in Nat /\ LastDay \in Nat
  BY Day0 DEF Days
<1>8. history[n].sold <= u /\ history[n].day <= u
  BY <1>4, <1>6, <1>7
<1>9. n \in Covered(history, u)
  BY <1>4, <1>7, <1>8 DEF Covered
<1>10. \E i \in 1..Len(F) : F[i] = Whole[j]
  <2>1. ASSUME Whole[j].kind = "buy"
        PROVE  Bought(history[n], LastDay) = Bought(history[n], u)
    <3>1. Whole[j].key.day = history[n].day
      BY <1>5, <2>1 DEF RowFits
    <3>2. u <= LastDay
      BY <1>7 DEF Days
    <3>3. LastDay > history[n].day /\ u > history[n].day
      BY <1>4, <1>7, <3>1, <3>2
    <3> QED BY <3>3 DEF Bought
  <2>2. Whole[j] \in RowsOf(history, n, u)
    BY <1>2, <1>3, <1>4, <2>1, RowElsewhere
  <2> QED BY <1>1, <1>2, <1>3, <1>9, <2>2 DEF Parsed
<1> QED BY <1>10 DEF F

(* So it has as many equal rows of such a day as the history.              *)
LEMMA PlainAll ==
  ASSUME history \in Histories, NEW u \in Days, NEW key, key.day < u
  PROVE  Cardinality(Plain(Whole, key)) <= Cardinality(Plain(ParseInzhur(u), key))
<1> DEFINE F == ParseInzhur(u)
           f == [j \in Plain(Whole, key) |-> CHOOSE i \in 1..Len(F) : F[i] = Whole[j]]
<1>1. Parsed(Whole, history, Len(history), LastDay)
  BY ParsedAll DEF Whole
<1>2. \A j \in Plain(Whole, key) : \E i \in 1..Len(F) : F[i] = Whole[j]
  BY RowInFile DEF Plain
<1>3. \A j \in 1..Len(Whole) : RowFits(Whole[j], history, Whole[j].event)
  BY RowKnown, LastDayIsDay DEF Whole
<1> HIDE DEF F
<1>4. \A j \in Plain(Whole, key) : f[j] \in Plain(F, key) /\ F[f[j]] = Whole[j]
  <2> TAKE j \in Plain(Whole, key)
  <2>1. j \in 1..Len(Whole) /\ Whole[j].key = key /\ ~Whole[j].pair
    BY DEF Plain
  <2>2. f[j] \in 1..Len(F) /\ F[f[j]] = Whole[j]
    BY <1>2
  <2> HIDE DEF f
  <2> QED BY <2>1, <2>2 DEF Plain
<1>5. f \in [Plain(Whole, key) -> Plain(F, key)]
  BY <1>4
<1> HIDE DEF f
<1>6. \A i, k \in Plain(Whole, key) : Whole[i] = Whole[k] => i = k
  <2> TAKE i, k \in Plain(Whole, key)
  <2> HAVE Whole[i] = Whole[k]
  <2>1. i \in 1..Len(Whole) /\ k \in 1..Len(Whole) /\ ~Whole[i].pair /\ ~Whole[k].pair
    BY DEF Plain
  <2>2. Whole[i].kind # "sell" /\ Whole[k].kind # "sell"
    BY <1>3, <2>1 DEF RowFits
  <2>3. ~(i < k) /\ ~(k < i)
    BY <1>1, <2>1, <2>2 DEF Parsed
  <2> QED BY <2>1, <2>3
<1>7. \A i, k \in Plain(Whole, key) : f[i] = f[k] => i = k
  BY <1>4, <1>6
<1>8. IsFiniteSet(Plain(F, key))
  BY PlainFinite DEF F
<1>9. Cardinality(Plain(Whole, key)) <= Cardinality(Plain(F, key))
  BY <1>5, <1>7, <1>8, CountBy
<1> QED BY <1>9 DEF F

(* The mark: not after a row that was told, and not after the last row of  *)
(* the file unless it stays.                                               *)
LEMMA MarkBounds ==
  ASSUME history \in Histories, NEW q, FromFile(q), q.since \in 0..LastDay,
         \A j \in q.told : j \in 1..Len(q.file)
  PROVE  /\ \A t \in q.told : NextImportSince(q) <= q.file[t].key.day
         /\ \/ NextImportSince(q) <= q.since
            \/ \E i \in 1..Len(q.file) : NextImportSince(q) <= q.file[i].key.day
<1> DEFINE days(I) == {q.file[i].key.day : i \in I}
           putOff(i) == \E j \in q.told : q.file[j].event = q.file[i].event
           taken == {i \in Considered(q) : ~putOff(i) \/ q.file[i].key \in PairSeen(q)}
           next == Greatest({q.since} \cup days(taken))
           mark == Least({next} \cup days(q.told))
<1>1. /\ DOMAIN q.file = 1..Len(q.file)
      /\ \A i \in 1..Len(q.file) : q.file[i].key.day \in 1..LastDay
  BY FileIs
<1>2. LastDay \in Nat
  BY Day0
<1>3. \A x \in {q.since} \cup days(taken) : x \in 0..LastDay
  BY <1>1 DEF Considered
<1>4. next \in {q.since} \cup days(taken)
  <2> DEFINE S == {q.since} \cup days(taken)
  <2>1. S \in SUBSET Nat /\ S # {} /\ \A x \in S : x <= LastDay
    BY <1>2, <1>3
  <2> HIDE DEF S
  <2>2. Greatest(S) \in S
    BY <1>2, <2>1, GreatestIs
  <2> QED BY <2>2 DEF S
<1>5. next \in Nat
  BY <1>2, <1>3, <1>4
<1>6. next = q.since \/ \E i \in 1..Len(q.file) : next = q.file[i].key.day
  BY <1>1, <1>4 DEF Considered
<1> HIDE DEF next
<1>7. mark <= next /\ \A t \in q.told : mark <= q.file[t].key.day
  <2> DEFINE S == {next} \cup days(q.told)
  <2>1. \A x \in days(q.told) : x \in Nat
    BY <1>1, <1>2
  <2>2. S \in SUBSET Nat /\ S # {}
    BY <1>5, <2>1
  <2> HIDE DEF S
  <2>3. \A x \in S : Least(S) <= x
    BY <2>2, LeastIs
  <2> QED BY <2>3 DEF S
<1>8. NextImportSince(q) = mark
  BY DEF NextImportSince, next
<1> HIDE DEF mark
<1> QED BY <1>6, <1>7, <1>8

(* More lines, more coupons.                                               *)
Grows(rs, rt, got, gt) ==
  /\ Keys(rs) \subseteq Keys(rt) /\ got \subseteq gt
  /\ \A key : Cardinality(Ops(rs, key)) <= Cardinality(Ops(rt, key))

(* Nothing that is settled comes undone while the journal grows.           *)
LEMMA SettledStays ==
  ASSUME history \in Histories, NEW rs, NEW rt, NEW got, NEW gt, NEW s,
         IsFiniteSet(rs), IsFiniteSet(rt), Grows(rs, rt, got, gt), AllSettled(s, rs, got)
  PROVE  AllSettled(s, rt, gt)
<1> SUFFICES ASSUME NEW j \in 1..Len(Whole), Whole[j].key.day < s
             PROVE  Settled(Whole[j], rt, gt)
  BY DEF AllSettled
<1>1. Settled(Whole[j], rs, got)
  BY DEF AllSettled
<1>2. PICK key : key = Whole[j].key
  OBVIOUS
<1>3. Cardinality(Ops(rs, key)) \in Nat /\ Cardinality(Ops(rt, key)) \in Nat
      /\ Cardinality(Plain(Whole, key)) \in Nat
  BY OpsFinite, PlainNumber
<1>4. Cardinality(Plain(Whole, key)) <= Cardinality(Ops(rs, key)) =>
        Cardinality(Plain(Whole, key)) <= Cardinality(Ops(rt, key))
  <2>1. Cardinality(Ops(rs, key)) <= Cardinality(Ops(rt, key))
    BY DEF Grows
  <2> QED BY <1>3, <2>1
<1> QED BY <1>1, <1>2, <1>4 DEF Settled, Grows

(* When the row at hand counts among the rows behind it.                   *)
LEMMA SeenNext ==
  ASSUME history \in Histories, NEW q, FromFile(q), NEW n \in 1..Len(q.file), NEW key
  PROVE  /\ n \in Seen(q, key, n + 1) <=>
              n \in Considered(q) /\ q.file[n].key = key /\ ~q.file[n].pair
         /\ n \notin Seen(q, key, n + 1) => Seen(q, key, n + 1) = Seen(q, key, n)
<1>1. DOMAIN q.file = 1..Len(q.file) /\ Len(q.file) \in Nat
  BY FileIs
<1> QED BY <1>1 DEF Seen, Considered

Written(row) ==
  /\ Numbered(db') /\ Keys(db') = Keys(db) \cup {row.key}
  /\ \A key : ~(key = row.key /\ ~row.pair) => Ops(db', key) = Ops(db, key)
  /\ ~row.pair => Cardinality(Ops(db', row.key)) = Cardinality(Ops(db, row.key)) + 1

(* The INSERT of a row.                                                    *)
LEMMA WriteIs ==
  ASSUME Numbered(db), NEW row, row.pair \in BOOLEAN, db' = db \cup {New(row)}
  PROVE  Written(row)
<1> DEFINE x == New(row)
<1>1. IsLine(x) /\ x.id = Cardinality(db) + 1 /\ x.leg = row.pair /\ x.key = row.key
  BY DEF New, NextId, IsLine
<1>2. db' = db \cup {x}
  OBVIOUS
<1> HIDE DEF x
<1>3. IsLine(x) /\ x.id = Cardinality(db) + 1 /\ x.leg \in BOOLEAN
  BY <1>1
<1>4. /\ Numbered(db') /\ Keys(db') = Keys(db) \cup {x.key}
      /\ \A key : ~(key = x.key /\ ~x.leg) => Ops(db', key) = Ops(db, key)
      /\ ~x.leg => Cardinality(Ops(db', x.key)) = Cardinality(Ops(db, x.key)) + 1
  BY <1>2, <1>3, OneMore
<1> QED BY <1>1, <1>4 DEF Written

LEMMA WrittenGrows ==
  ASSUME Numbered(db), NEW row, Written(row)
  PROVE  /\ Keys(db) \subseteq Keys(db') /\ IsFiniteSet(db')
         /\ \A key : /\ Cardinality(Ops(db, key)) <= Cardinality(Ops(db', key))
                     /\ Cardinality(Ops(db, key)) \in Nat /\ Cardinality(Ops(db', key)) \in Nat
<1>1. IsFiniteSet(db) /\ IsFiniteSet(db') /\ Keys(db) \subseteq Keys(db')
  BY DEF Written, Numbered
<1>2. ASSUME NEW key
      PROVE  /\ Cardinality(Ops(db, key)) <= Cardinality(Ops(db', key))
             /\ Cardinality(Ops(db, key)) \in Nat /\ Cardinality(Ops(db', key)) \in Nat
  <2>1. Cardinality(Ops(db, key)) \in Nat /\ Cardinality(Ops(db', key)) \in Nat
    BY <1>1, OpsFinite
  <2>2. CASE key = row.key /\ ~row.pair
    <3>1. Cardinality(Ops(db', key)) = Cardinality(Ops(db, key)) + 1
      BY <2>2 DEF Written
    <3> QED BY <2>1, <3>1
  <2>3. CASE ~(key = row.key /\ ~row.pair)
    <3>1. Ops(db', key) = Ops(db, key)
      BY <2>3 DEF Written
    <3> QED BY <2>1, <3>1
  <2> QED BY <2>2, <2>3
<1> QED BY <1>1, <1>2

(* No row takes anything away.                                             *)
LEMMA RowGrows ==
  ASSUME history \in Histories, NEW q, NEW p, Journal(db), FromFile(q), q.i \in 1..Len(q.file),
         RowDone(q, p)
  PROVE  Grows(db, db', received, received') /\ IsFiniteSet(db) /\ IsFiniteSet(db')
<1>1. Numbered(db) /\ IsFiniteSet(db)
  BY DEF Journal, Numbered
<1>2. \A key : Cardinality(Ops(db, key)) \in Nat
  BY <1>1, OpsFinite
<1>3. CASE db' = db
  <2>1. received \subseteq received'
    BY DEF RowDone, Skips, Finds, Writes, PutsOff, Receives
  <2> QED BY <1>1, <1>2, <1>3, <2>1 DEF Grows
<1>4. CASE Writes(q, p)
  <2>1. q.file[q.i].pair \in BOOLEAN
    BY FileIs
  <2>2. received' = received /\ db' = db \cup {New(q.file[q.i])}
    BY <1>4 DEF Writes
  <2>3. Written(q.file[q.i])
    BY <1>1, <2>1, <2>2, WriteIs
  <2>4. /\ Keys(db) \subseteq Keys(db') /\ IsFiniteSet(db')
        /\ \A key : Cardinality(Ops(db, key)) <= Cardinality(Ops(db', key))
    BY <1>1, <2>3, WrittenGrows
  <2> QED BY <1>1, <2>2, <2>4 DEF Grows
<1> QED BY <1>3, <1>4 DEF RowDone, Skips, Finds, PutsOff, Receives

(* The row that was done is in the journal, or told.                       *)
Done(q, p) ==
  LET row == q.file[q.i]
  IN  q.i \in Considered(q) =>
        /\ row.kind = "coupon" => row.event \in received' \/ q.i \in p.told
        /\ row.pair => row.key \in PairSeen(p) \/ Told(p, q.i)
        /\ row.kind # "coupon" /\ ~row.pair =>
             Cardinality(Seen(q, row.key, q.i + 1)) <= Cardinality(Ops(db', row.key))

(* Each of the five ways of doing a row gets it done.                      *)
LEMMA RowIsDone ==
  ASSUME history \in Histories, NEW q, NEW p, Journal(db), Working(q, db),
         q.i \in 1..Len(q.file), RowDone(q, p), Caught(q, db, received)
  PROVE  Done(q, p)
<1> DEFINE i == q.i
           row == q.file[i]
<1> SUFFICES ASSUME i \in Considered(q)
             PROVE  /\ row.kind = "coupon" => row.event \in received' \/ i \in p.told
                    /\ row.pair => row.key \in PairSeen(p) \/ Told(p, i)
                    /\ row.kind # "coupon" /\ ~row.pair =>
                         Cardinality(Seen(q, row.key, i + 1)) <= Cardinality(Ops(db', row.key))
  BY DEF Done
<1>1. /\ FromFile(q) /\ i \in Nat \ {0} /\ IsFiniteSet(q.old) /\ q.since \in 0..LastDay
      /\ \A j \in q.told : j \in 1..Len(q.file) /\ j < i
  BY DEF Working
<1>2. /\ DOMAIN q.file = 1..Len(q.file) /\ row.pair \in BOOLEAN /\ row.key.day \in 1..LastDay
  BY <1>1, FileIs
<1>3. p.file = q.file /\ p.old = q.old
  BY DEF RowDone
<1>4. RowFits(row, history, row.event)
  BY <1>1, RowKnown DEF FromFile
<1>5. ~(row.key.day < q.since)
  BY <1>1, <1>2 DEF Considered
<1>6. Numbered(db) /\ IsFiniteSet(db)
  BY DEF Journal, Numbered
<1>7. Cardinality(Ops(db, row.key)) \in Nat /\ Cardinality(Ops(q.old, row.key)) \in Nat
      /\ Cardinality(Ops(q.old, row.key)) <= Cardinality(Ops(db, row.key))
  BY <1>1, <1>6, OpsFinite DEF Caught
<1>8. Cardinality(Seen(q, row.key, i + 1)) \in Nat /\ Cardinality(Seen(q, row.key, i)) \in Nat
  <2>1. i + 1 \in Nat \ {0}
    BY <1>1
  <2> QED BY <1>1, <2>1, SeenGrows
<1>9. CASE Finds(q, p)
  <2>1. PairSeen(p) = PairSeen(q) /\ db' = db
    BY <1>3, <1>9 DEF Finds, PairSeen
  <2>2. row.kind = "coupon" => ~row.pair /\ row.kind # "buy"
    BY <1>4 DEF RowFits
  <2>3. row.kind # "coupon"
    BY <1>9, <2>2 DEF Finds
  <2>4. row.pair => row.key \in PairSeen(p)
    BY <1>9, <2>1 DEF Finds
  <2>5. ASSUME ~row.pair
        PROVE  Cardinality(Seen(q, row.key, i + 1)) <= Cardinality(Ops(db', row.key))
    <3>1. SeenOp(q, row.key)
      BY <1>9, <2>5 DEF Finds
    <3>2. {j \in Considered(q) : j <= i /\ q.file[j].key = row.key /\ ~q.file[j].pair}
            = Seen(q, row.key, i + 1)
      BY <1>1, <1>2 DEF Seen, Considered
    <3>3. Cardinality(Seen(q, row.key, i + 1)) <= Cardinality(Ops(q.old, row.key))
      BY <3>1, <3>2 DEF SeenOp
    <3>4. Cardinality(Seen(q, row.key, i + 1)) <= Cardinality(Ops(db, row.key))
      BY <1>7, <1>8, <3>3
    <3> QED BY <2>1, <3>4
  <2> QED BY <2>3, <2>4, <2>5
<1>10. CASE Writes(q, p)
  <2>1. /\ p.mine = q.mine \cup {row.key} /\ db' = db \cup {New(row)}
    BY <1>10 DEF Writes
  <2>2. Written(row)
    BY <1>2, <1>6, <2>1, WriteIs
  <2>3. row.key \in PairSeen(p)
    BY <2>1 DEF PairSeen
  <2>4. row.kind = "coupon" => ~row.pair /\ row.kind # "buy"
    BY <1>4 DEF RowFits
  <2>5. row.kind # "coupon"
    BY <1>10, <2>4 DEF Writes
  <2>6. ASSUME ~row.pair
        PROVE  Cardinality(Seen(q, row.key, i + 1)) <= Cardinality(Ops(db', row.key))
    <3>1. i \in Seen(q, row.key, i + 1)
      BY <1>1, <2>6, SeenNext
    <3>2. Cardinality(Seen(q, row.key, i + 1)) = Cardinality(Seen(q, row.key, i)) + 1
      BY <1>1, <3>1, SeenGrows
    <3>3. row.key.kind # "coupon"
      BY <1>4, <2>5 DEF RowFits
    <3>4. Cardinality(Seen(q, row.key, i)) <= Cardinality(Ops(db, row.key))
      BY <3>3 DEF Caught
    <3>5. Cardinality(Ops(db', row.key)) = Cardinality(Ops(db, row.key)) + 1
      BY <2>2, <2>6 DEF Written
    <3> QED BY <1>7, <1>8, <3>2, <3>4, <3>5
  <2> QED BY <2>3, <2>5, <2>6
<1>11. CASE PutsOff(q, p)
  <2>1. row.kind = "coupon" => ~row.pair
    BY <1>4 DEF RowFits
  <2>2. row.kind = "coupon" \/ row.pair
    BY <1>11 DEF PutsOff
  <2>3. CASE p.told = q.told \cup {i}
    <3>1. i \in p.told /\ Told(p, i)
      BY <1>1, <2>3 DEF Told
    <3> QED BY <2>2, <3>1
  <2>4. CASE /\ row.pair /\ p.told = q.told
             /\ \E j \in q.told : q.file[j].event = row.event
    <3>1. PICK j \in q.told : q.file[j].event = row.event
      BY <2>4
    <3>2. j <= i
      BY <1>1, <3>1
    <3>3. Told(p, i)
      BY <1>3, <2>4, <3>1, <3>2 DEF Told
    <3> QED BY <2>1, <2>4, <3>3
  <2> QED BY <1>11, <2>3, <2>4 DEF PutsOff
<1>12. CASE Receives(q, p)
  <2>1. row.kind = "coupon" /\ row.event \in received'
    BY <1>12 DEF Receives
  <2>2. ~row.pair
    BY <1>4, <2>1 DEF RowFits
  <2> QED BY <2>1, <2>2
<1> QED BY <1>5, <1>9, <1>10, <1>11, <1>12 DEF RowDone, Skips

(* So the rows behind stay in the journal, or told.                        *)
LEMMA RowCatches ==
  ASSUME history \in Histories, NEW q, NEW p, Journal(db), Working(q, db),
         q.i \in 1..Len(q.file), RowDone(q, p), Caught(q, db, received)
  PROVE  Caught(p, db', received')
<1> DEFINE i == q.i
           row == q.file[i]
<1>1. /\ FromFile(q) /\ i \in Nat \ {0} /\ IsFiniteSet(q.old)
  BY DEF Working
<1>2. Done(q, p)
  BY RowIsDone
<1>3. Grows(db, db', received, received') /\ IsFiniteSet(db) /\ IsFiniteSet(db')
  BY <1>1, RowGrows
<1>4. /\ p.file = q.file /\ p.i = i + 1 /\ p.old = q.old /\ p.since = q.since
      /\ q.told \subseteq p.told /\ Considered(p) = Considered(q)
  BY DEF RowDone, Skips, Finds, Writes, PutsOff, Receives, Considered
<1>5. PairSeen(q) \subseteq PairSeen(p)
  BY <1>4 DEF RowDone, Skips, Finds, Writes, PutsOff, Receives, PairSeen
<1>6. PairSeen(p) \subseteq Keys(db')
  <2>1. PairSeen(q) \subseteq Keys(db')
    BY <1>3 DEF Caught, Grows
  <2>2. CASE p.mine = q.mine
    BY <1>4, <2>1, <2>2 DEF PairSeen
  <2>3. CASE Writes(q, p)
    <3>1. p.mine = q.mine \cup {row.key} /\ db' = db \cup {New(row)}
      BY <2>3 DEF Writes
    <3>2. New(row).key = row.key
      BY DEF New
    <3>3. row.key \in Keys(db')
      BY <3>1, <3>2 DEF Keys
    <3> QED BY <1>4, <2>1, <3>1, <3>3 DEF PairSeen
  <2> QED BY <2>2, <2>3 DEF RowDone, Skips, Finds, PutsOff, Receives
<1>7. ASSUME NEW key
      PROVE  Cardinality(Ops(p.old, key)) <= Cardinality(Ops(db', key))
  <2>1. /\ Cardinality(Ops(q.old, key)) <= Cardinality(Ops(db, key))
        /\ Cardinality(Ops(db, key)) <= Cardinality(Ops(db', key))
    BY <1>3 DEF Caught, Grows
  <2>2. /\ Cardinality(Ops(q.old, key)) \in Nat /\ Cardinality(Ops(db, key)) \in Nat
        /\ Cardinality(Ops(db', key)) \in Nat
    BY <1>1, <1>3, OpsFinite
  <2>3. Cardinality(Ops(q.old, key)) <= Cardinality(Ops(db', key))
    BY <2>1, <2>2
  <2> QED BY <1>4, <2>3
<1>8. ASSUME NEW key, key.kind # "coupon"
      PROVE  Cardinality(Seen(p, key, p.i)) <= Cardinality(Ops(db', key))
  <2>1. Seen(p, key, p.i) = Seen(q, key, i + 1)
    BY <1>4 DEF Seen
  <2>2. CASE i \in Seen(q, key, i + 1)
    <3>1. i \in Considered(q) /\ row.key = key /\ ~row.pair
      BY <1>1, <2>2, SeenNext
    <3>2. RowFits(row, history, row.event)
      BY <1>1, RowKnown DEF FromFile
    <3>3. row.kind # "coupon"
      BY <1>8, <3>1, <3>2 DEF RowFits
    <3>4. Cardinality(Seen(q, row.key, i + 1)) <= Cardinality(Ops(db', row.key))
      BY <1>2, <3>1, <3>3 DEF Done
    <3> QED BY <2>1, <3>1, <3>4
  <2>3. CASE i \notin Seen(q, key, i + 1)
    <3>1. Seen(q, key, i + 1) = Seen(q, key, i)
      BY <1>1, <2>3, SeenNext
    <3>2. /\ Cardinality(Seen(q, key, i)) <= Cardinality(Ops(db, key))
          /\ Cardinality(Ops(db, key)) <= Cardinality(Ops(db', key))
      BY <1>3, <1>8 DEF Caught, Grows
    <3>3. /\ Cardinality(Seen(q, key, i)) \in Nat /\ Cardinality(Ops(db, key)) \in Nat
          /\ Cardinality(Ops(db', key)) \in Nat
      BY <1>1, <1>3, OpsFinite, SeenGrows
    <3>4. Cardinality(Seen(q, key, i)) <= Cardinality(Ops(db', key))
      BY <3>2, <3>3
    <3> QED BY <2>1, <3>1, <3>4
  <2> QED BY <2>2, <2>3
<1>9. ASSUME NEW k \in Considered(p), k < p.i
      PROVE  /\ p.file[k].kind = "coupon" => p.file[k].event \in received' \/ k \in p.told
             /\ p.file[k].pair => p.file[k].key \in PairSeen(p) \/ Told(p, k)
  <2>1. k \in 1..Len(q.file) /\ k \in Considered(q)
    BY <1>1, <1>4, FileIs DEF Considered
  <2>2. CASE k < i
    <3>1. /\ q.file[k].kind = "coupon" => q.file[k].event \in received \/ k \in q.told
          /\ q.file[k].pair => q.file[k].key \in PairSeen(q) \/ Told(q, k)
      BY <2>1, <2>2 DEF Caught
    <3>2. Told(q, k) => Told(p, k)
      BY <1>4 DEF Told
    <3> QED BY <1>3, <1>4, <1>5, <3>1, <3>2 DEF Grows
  <2>3. CASE k = i
    BY <1>2, <1>4, <2>1, <2>3 DEF Done
  <2>4. k < i \/ k = i
    BY <1>1, <1>4, <1>9, <2>1
  <2> QED BY <2>2, <2>3, <2>4
<1> QED BY <1>6, <1>7, <1>8, <1>9 DEF Caught

(* When the file is done everything before the new mark is settled.        *)
LEMMA FinishSettles ==
  ASSUME history \in Histories, SoldFirst, NEW q, NEW rs, NEW got, IsFiniteSet(rs), FromFile(q),
         q.since \in 0..LastDay, \A t \in q.told : t \in 1..Len(q.file),
         q.i \in Nat, q.i > Len(q.file), Caught(q, rs, got), AllSettled(q.since, rs, got)
  PROVE  AllSettled(NextImportSince(q), rs, got)
<1> DEFINE mark == NextImportSince(q)
<1>1. PICK u \in Days : q.file = ParseInzhur(u)
  BY DEF FromFile
<1>2. Parsed(q.file, history, Len(history), u)
  BY <1>1, ParsedAll
<1>3. /\ DOMAIN q.file = 1..Len(q.file) /\ Len(q.file) \in Nat
      /\ \A i \in 1..Len(q.file) : q.file[i].key.day \in 1..LastDay
  BY FileIs
<1>4. mark \in 0..LastDay /\ LastDay \in Nat /\ u \in Nat
  BY MarkIsDay, Day0 DEF Days
<1>5. /\ \A t \in q.told : mark <= q.file[t].key.day
      /\ mark <= q.since \/ \E i \in 1..Len(q.file) : mark <= q.file[i].key.day
  BY MarkBounds
<1> HIDE DEF mark
<1> SUFFICES ASSUME NEW j \in 1..Len(Whole), Whole[j].key.day < mark
             PROVE  Settled(Whole[j], rs, got)
  BY DEF AllSettled, mark
<1> DEFINE row == Whole[j]
           d == row.key.day
<1>6. d \in 1..LastDay
  <2>1. LastDay \in Days /\ Whole = ParseInzhur(LastDay)
    BY LastDayIsDay, <1>1 DEF Whole
  <2>2. PICK n \in DOMAIN history : n = row.event
    BY <2>1, RowKnown
  <2>3. RowFits(row, history, n)
    BY <2>1, <2>2, RowKnown
  <2>4. history[n].sold \in 1..LastDay /\ history[n].day \in 1..LastDay
    BY HistoryIs
  <2> QED BY <2>3, <2>4 DEF RowFits
<1>7. CASE d < q.since
  BY <1>7 DEF AllSettled
<1>8. CASE ~(d < q.since)
  <2>1. PICK k \in 1..Len(q.file) : mark <= q.file[k].key.day
    BY <1>4, <1>5, <1>6, <1>8
  <2>2. q.file[k].key.day <= u
    <3>1. q.file[k].event \in Covered(history, u)
      BY <1>2 DEF Parsed
    <3>2. PICK n \in DOMAIN history : n = q.file[k].event /\ history[n].sold \in 1..u
                                      /\ history[n].day \in 1..u
      BY <3>1 DEF Covered
    <3>3. RowFits(q.file[k], history, n)
      BY <1>1, <3>2, RowKnown
    <3> QED BY <1>4, <3>2, <3>3 DEF RowFits
  <2>3. d < u
    <3>1. \A a, b, m, v \in Nat : a < m /\ m <= b /\ b <= v => a < v
      OBVIOUS
    <3>2. d \in Nat /\ q.file[k].key.day \in Nat /\ mark \in Nat
      BY <1>3, <1>4, <1>6
    <3>3. d < mark
      OBVIOUS
    <3> QED BY ONLY <3>1, <3>2, <3>3, <1>4, <2>1, <2>2
  <2>4. PICK i \in 1..Len(q.file) : q.file[i] = row
    BY <1>1, <2>3, RowInFile
  <2>5. i \in Considered(q) /\ i < q.i
    BY <1>3, <1>6, <1>8, <2>4 DEF Considered
  <2>6. RowFits(row, history, row.event) /\ row.event \in DOMAIN history
    BY <1>1, <2>4, RowKnown
  <2>7. i \notin q.told
    BY <1>4, <1>5, <1>6, <2>4
  <2>8. row.kind = "coupon" => row.event \in got
    BY <2>4, <2>5, <2>7 DEF Caught
  <2>9. row.pair => row.key \in Keys(rs)
    <3> SUFFICES ASSUME row.pair, row.key \notin Keys(rs) PROVE FALSE
      OBVIOUS
    <3>1. Told(q, i)
      BY <2>4, <2>5 DEF Caught
    <3>2. PICK t \in q.told : t <= i /\ q.file[t].event = q.file[i].event
      BY <3>1 DEF Told
    <3>3. t \in 1..Len(q.file) /\ t < i
      BY <2>7, <3>2, <1>3
    <3>4. q.file[t].kind = "sell" /\ q.file[i].kind = "buy"
      BY <1>2, <3>2, <3>3 DEF Parsed
    <3>5. PICK n \in DOMAIN history : n = row.event
      BY <2>6
    <3>6. RowFits(q.file[t], history, n) /\ RowFits(row, history, n)
      BY <1>1, <2>4, <2>6, <3>2, <3>3, <3>5, RowKnown
    <3>7. q.file[t].key.day = history[n].sold /\ d = history[n].day
      BY <2>4, <3>4, <3>6 DEF RowFits
    <3>8. history[n].sold <= history[n].day
      BY DEF SoldFirst
    <3>9. mark <= q.file[t].key.day
      BY <1>5
    <3> QED BY <1>3, <1>4, <1>6, <3>3, <3>7, <3>8, <3>9
  <2>10. ASSUME row.kind # "coupon", ~row.pair
         PROVE  Cardinality(Plain(Whole, row.key)) <= Cardinality(Ops(rs, row.key))
    <3> DEFINE key == row.key
    <3>1. Cardinality(Plain(Whole, key)) <= Cardinality(Plain(q.file, key))
      BY <1>1, <2>3, PlainAll
    <3>2. Plain(q.file, key) = Seen(q, key, q.i)
      <4>1. \A m \in 1..Len(q.file) : q.file[m].key = key => m \in Considered(q) /\ m < q.i
        BY <1>3, <1>6, <1>8 DEF Considered
      <4> QED BY <1>3, <4>1 DEF Plain, Seen, Considered
    <3>3. key.kind # "coupon"
      BY <2>6, <2>10 DEF RowFits
    <3>4. Cardinality(Seen(q, key, q.i)) <= Cardinality(Ops(rs, key))
      BY <3>3 DEF Caught
    <3>5. /\ Cardinality(Plain(Whole, key)) \in Nat /\ Cardinality(Plain(q.file, key)) \in Nat
          /\ Cardinality(Ops(rs, key)) \in Nat
      BY FileIs, OpsFinite, PlainNumber
    <3> HIDE DEF key
    <3>6. Cardinality(Plain(Whole, key)) <= Cardinality(Ops(rs, key))
      BY <3>1, <3>2, <3>4, <3>5
    <3> QED BY <3>6 DEF key
  <2> QED BY <2>8, <2>9, <2>10 DEF Settled
<1> QED BY <1>7, <1>8

-----------------------------------------------------------------------------
Fresh(q) == q.i = 1 /\ q.mine = {} /\ q.told = {}
Catches(q, s, rs, got) ==
  /\ q.at = "mark" => Fresh(q)
  /\ q.at \in {"rows", "link", "link back"} => q.since = s /\ Caught(q, rs, got)
HiddenInv ==
  /\ TwiceInv /\ moves \in Nat
  /\ limits.atOnce = 1 /\ moves = 0 /\ SoldFirst =>
       /\ AllSettled(since, db, received)
       /\ \A c \in Clients : Catches(req[c], since, db, received)

(* As SameFiles.                                                           *)
LEMMA SameRows ==
  ASSUME history' = history
  PROVE  /\ AllSettled(since, db, received)' <=> AllSettled(since', db', received')
         /\ SoldFirst' <=> SoldFirst
         /\ \A c : Catches(req[c], since, db, received)' <=> Catches(req'[c], since', db', received')
<1>1. Whole' = Whole
  BY SameFiles
<1>2. AllSettled(since, db, received)' <=> AllSettled(since', db', received')
  BY <1>1 DEF AllSettled, Settled, Plain
<1>3. SoldFirst' <=> SoldFirst
  BY DEF SoldFirst
<1>4. ASSUME NEW c
      PROVE  Catches(req[c], since, db, received)' <=> Catches(req'[c], since', db', received')
  BY DEF Catches, Caught
<1> QED BY <1>2, <1>3, <1>4

(* As Assemble.                                                            *)
LEMMA Collect ==
  ASSUME HiddenInv, TwiceInv', history' = history, limits' = limits,
         moves' \in Nat, moves' = 0 => moves = 0,
         limits.atOnce = 1 /\ moves' = 0 /\ SoldFirst =>
           /\ AllSettled(since', db', received')
           /\ \A c \in Clients : Catches(req'[c], since', db', received')
  PROVE  HiddenInv'
<1>1. /\ AllSettled(since, db, received)' <=> AllSettled(since', db', received')
      /\ SoldFirst' <=> SoldFirst
      /\ \A c : Catches(req[c], since, db, received)' <=> Catches(req'[c], since', db', received')
  BY SameRows
<1>2. ASSUME limits.atOnce = 1, moves' = 0, SoldFirst'
      PROVE  /\ AllSettled(since, db, received)'
             /\ \A c \in Clients : Catches(req[c], since, db, received)'
  BY <1>1, <1>2
<1> QED BY <1>2 DEF HiddenInv

(* An idle request owes nothing.                                           *)
LEMMA IdleCatches ==
  ASSUME NEW s, NEW rs, NEW got PROVE Catches(NoImport, s, rs, got)
BY DEF Catches, NoImport

(* As OneMoves.                                                            *)
LEMMA OneCatches ==
  ASSUME TwiceInv, NEW c \in Clients, NEW p, req' = [req EXCEPT ![c] = p],
         \A d \in Clients : d # c => req[d] = NoImport, Catches(p, since', db', received')
  PROVE  \A d \in Clients : Catches(req'[d], since', db', received')
<1>1. req'[c] = p /\ \A d \in Clients : d # c => req'[d] = NoImport
  BY DEF TwiceInv
<1> QED BY <1>1, IdleCatches

(* Action by action.                                                       *)
LEMMA UploadHides ==
  ASSUME HiddenInv, TwiceInv', NEW c \in Clients, Upload(c) PROVE HiddenInv'
<1>1. PICK u \in Days : req' = [req EXCEPT ![c] = [at |-> "journal", file |-> ParseInzhur(u)]]
  BY DEF Upload
<1>2. /\ history' = history /\ limits' = limits /\ db' = db /\ since' = since
      /\ received' = received /\ moves' = moves
  BY DEF Upload, countVars
<1>3. ASSUME limits.atOnce = 1, moves' = 0, SoldFirst
      PROVE  /\ AllSettled(since', db', received')
             /\ \A d \in Clients : Catches(req'[d], since', db', received')
  <2>1. AllSettled(since, db, received) /\ \A d \in Clients : Catches(req[d], since, db, received)
    BY <1>2, <1>3 DEF HiddenInv
  <2>2. Catches([at |-> "journal", file |-> ParseInzhur(u)], since, db, received)
    BY DEF Catches
  <2>3. \A d \in Clients : req'[d] = [at |-> "journal", file |-> ParseInzhur(u)] \/ req'[d] = req[d]
    BY <1>1 DEF HiddenInv, TwiceInv
  <2>4. \A d \in Clients : Catches(req'[d], since, db, received)
    BY <2>1, <2>2, <2>3
  <2> QED BY <1>2, <2>1, <2>4
<1> QED BY <1>2, <1>3, Collect DEF HiddenInv

LEMMA ReadJournalHides ==
  ASSUME HiddenInv, TwiceInv', NEW c \in Clients, ReadJournal(c) PROVE HiddenInv'
<1> DEFINE p == [at |-> "mark", file |-> req[c].file, i |-> 1, old |-> db,
        supplied |-> supplied, since |-> 0, mine |-> {}, healed |-> {},
        plans |-> {}, first |-> {}, told |-> {}, link |-> <<>>]
<1>1. req' = [req EXCEPT ![c] = p] /\ req[c].at = "journal"
  BY DEF ReadJournal
<1>2. /\ history' = history /\ limits' = limits /\ db' = db /\ since' = since
      /\ received' = received /\ moves' = moves
  BY DEF ReadJournal, countVars
<1>3. Catches(p, since', db', received')
  BY DEF Catches, Fresh
<1> HIDE DEF p
<1>4. ASSUME limits.atOnce = 1, moves' = 0, SoldFirst
      PROVE  /\ AllSettled(since', db', received')
             /\ \A d \in Clients : Catches(req'[d], since', db', received')
  <2>1. AllSettled(since, db, received)
    BY <1>2, <1>4 DEF HiddenInv
  <2>2. \A d \in Clients : d # c => req[d] = NoImport
    BY <1>1, <1>4, InUse DEF HiddenInv
  <2>3. \A d \in Clients : Catches(req'[d], since', db', received')
    BY <1>1, <1>3, <2>2, OneCatches DEF HiddenInv
  <2> QED BY <1>2, <2>1, <2>3
<1> QED BY <1>2, <1>4, Collect DEF HiddenInv

LEMMA ReadMarkHides ==
  ASSUME HiddenInv, TwiceInv', NEW c \in Clients, ReadMark(c) PROVE HiddenInv'
<1> DEFINE q == req[c]
           p == [[q EXCEPT !.at = "rows"] EXCEPT !.since = since]
<1>1. req[c].at = "mark" /\ req' = [req EXCEPT ![c].at = "rows", ![c].since = since]
  BY DEF ReadMark
<1>2. /\ history' = history /\ limits' = limits /\ db' = db /\ since' = since
      /\ received' = received /\ moves' = moves
  BY DEF ReadMark, countVars
<1>3. ASSUME limits.atOnce = 1, moves' = 0, SoldFirst
      PROVE  /\ AllSettled(since', db', received')
             /\ \A d \in Clients : Catches(req'[d], since', db', received')
  <2>1. AllSettled(since, db, received) /\ Fresh(q)
    BY <1>1, <1>2, <1>3 DEF HiddenInv, Catches
  <2>2. /\ \A d \in Clients : d # c => req[d] = NoImport
        /\ Working(q, db) /\ Journal(db) /\ history \in Histories /\ DOMAIN req = Clients
    BY <1>1, <1>3, InUse DEF HiddenInv, Waiting
  <2>3. req' = [req EXCEPT ![c] = p]
    BY <1>1, <2>2
  <2>4. IsRequest(q) /\ q.old = db /\ FromFile(q)
    BY <1>1, <2>2 DEF Working
  <2>5. /\ p.at = "rows" /\ p.since = since /\ p.file = q.file /\ p.i = 1 /\ p.old = db
        /\ p.mine = {}
    <3>1. PICK s : s = since
      OBVIOUS
    <3>2. PICK o : o = [[q EXCEPT !.at = "rows"] EXCEPT !.since = s]
      OBVIOUS
    <3>3. o = p
      BY <3>1, <3>2
    <3>4. IsRequest(q)
      BY <2>4
    <3> HIDE DEF q, p
    <3>5. /\ IsRequest(o) /\ o.at = "rows" /\ o.since = s
          /\ o.file = q.file /\ o.i = q.i /\ o.old = q.old /\ o.told = q.told /\ o.mine = q.mine
      BY ONLY <3>2, <3>4 DEF IsRequest, Fields
    <3> QED BY <2>1, <2>4, <3>1, <3>3, <3>5 DEF Fresh
  <2> HIDE DEF q, p
  <2>6. FromFile(p) /\ DOMAIN p.file = 1..Len(p.file)
    <3>1. FromFile(p)
      BY <2>4, <2>5 DEF FromFile
    <3> QED BY <2>2, <3>1, FileIs
  <2>7. IsFiniteSet(db)
    BY <2>2 DEF Journal, Numbered
  <2>8. PairSeen(p) \subseteq Keys(db)
    BY <2>5 DEF PairSeen
  <2>9. ASSUME NEW key
        PROVE  /\ Cardinality(Ops(p.old, key)) <= Cardinality(Ops(db, key))
               /\ Cardinality(Seen(p, key, p.i)) <= Cardinality(Ops(db, key))
    <3>1. Seen(p, key, p.i) = {}
      BY <2>5, <2>6 DEF Seen, Considered
    <3>2. Cardinality(Seen(p, key, p.i)) = 0
      BY <3>1, FS_EmptySet
    <3>3. Cardinality(Ops(db, key)) \in Nat
      BY <2>7, OpsFinite
    <3> QED BY <2>5, <3>2, <3>3
  <2>10. \A i \in Considered(p) : ~(i < p.i)
    BY <2>5, <2>6 DEF Considered
  <2>11. Caught(p, db, received)
    BY <2>8, <2>9, <2>10 DEF Caught
  <2>12. Catches(p, since', db', received')
    BY <1>2, <2>5, <2>11 DEF Catches
  <2>13. \A d \in Clients : Catches(req'[d], since', db', received')
    BY <2>2, <2>3, <2>12, OneCatches DEF HiddenInv
  <2> QED BY <1>2, <2>1, <2>13
<1> QED BY <1>2, <1>3, Collect DEF HiddenInv

LEMMA ImportRowHides ==
  ASSUME HiddenInv, TwiceInv', NEW c \in Clients, ImportRow(c) PROVE HiddenInv'
<1> DEFINE q == req[c]
<1>1. PICK p : req' = [req EXCEPT ![c] = p]
  BY DEF ImportRow, OpRow, LegRow, CouponRow, Advance
<1>2. /\ history' = history /\ limits' = limits /\ since' = since /\ moves' = moves
      /\ q.at = "rows" /\ q.i <= Len(q.file)
  BY DEF ImportRow, countVars
<1>3. ASSUME limits.atOnce = 1, moves' = 0, SoldFirst
      PROVE  /\ AllSettled(since', db', received')
             /\ \A d \in Clients : Catches(req'[d], since', db', received')
  <2>1. AllSettled(since, db, received) /\ q.since = since /\ Caught(q, db, received)
    BY <1>2, <1>3 DEF HiddenInv, Catches
  <2>2. /\ \A d \in Clients : d # c => req[d] = NoImport
        /\ Working(q, db) /\ Journal(db) /\ history \in Histories /\ DOMAIN req = Clients
    BY <1>2, <1>3, InUse DEF HiddenInv, Waiting
  <2>3. IsRequest(q) /\ FromFile(q)
    BY <2>2 DEF Working
  <2>4. RowDone(q, req'[c]) /\ req'[c] = p
    BY <1>1, <2>2, <2>3, RowStep
  <2>5. RowDone(q, p)
    BY <2>4
  <2> HIDE DEF q
  <2>6. q.i \in 1..Len(q.file)
    BY <1>2, <2>2, <2>3, FileIs DEF Working
  <2>7. Caught(p, db', received')
    BY <2>1, <2>2, <2>5, <2>6, RowCatches
  <2>8. Grows(db, db', received, received') /\ IsFiniteSet(db) /\ IsFiniteSet(db')
    BY <2>2, <2>3, <2>5, <2>6, RowGrows
  <2>9. AllSettled(since, db', received')
    BY <2>1, <2>2, <2>8, SettledStays
  <2>10. p.since = q.since /\ p.at # "mark"
    BY <2>5 DEF RowDone
  <2>11. Catches(p, since', db', received')
    BY <1>2, <2>1, <2>7, <2>10 DEF Catches
  <2>12. \A d \in Clients : Catches(req'[d], since', db', received')
    BY <1>1, <2>2, <2>11, OneCatches DEF HiddenInv
  <2> QED BY <1>2, <2>9, <2>12
<1> QED BY <1>2, <1>3, Collect DEF HiddenInv

(* Pointing lines at each other neither adds nor takes away.               *)
LEMMA SameGrows ==
  ASSUME NEW rs, NEW rt, NEW got, IsFiniteSet(rs), SameLines(rs, rt)
  PROVE  Grows(rs, rt, got, got)
<1>1. ASSUME NEW key PROVE Cardinality(Ops(rs, key)) <= Cardinality(Ops(rt, key))
  <2>1. Cardinality(Ops(rs, key)) \in Nat
    BY OpsFinite
  <2>2. Cardinality(Ops(rt, key)) = Cardinality(Ops(rs, key))
    BY DEF SameLines
  <2> QED BY <2>1, <2>2
<1> QED BY <1>1 DEF SameLines, Grows

LEMMA LinkFundOpsHides ==
  ASSUME HiddenInv, TwiceInv', NEW c \in Clients, LinkFundOps(c) PROVE HiddenInv'
<1> DEFINE q == req[c]
<1>1. PICK v \in {"rows", "link back"} : req' = [req EXCEPT ![c].at = v]
  BY DEF LinkFundOps
<1>2. /\ history' = history /\ limits' = limits /\ since' = since /\ moves' = moves
      /\ received' = received /\ q.at \in {"link", "link back"}
  BY DEF LinkFundOps, countVars
<1>3. PICK a, b : Point(a, b)
  BY DEF LinkFundOps
<1>4. ASSUME limits.atOnce = 1, moves' = 0, SoldFirst
      PROVE  /\ AllSettled(since', db', received')
             /\ \A d \in Clients : Catches(req'[d], since', db', received')
  <2> DEFINE p == [q EXCEPT !.at = v]
  <2>1. AllSettled(since, db, received) /\ q.since = since /\ Caught(q, db, received)
    BY <1>2, <1>4 DEF HiddenInv, Catches
  <2>2. /\ \A d \in Clients : d # c => req[d] = NoImport
        /\ Working(q, db) /\ Journal(db) /\ history \in Histories /\ DOMAIN req = Clients
    BY <1>2, <1>4, InUse DEF HiddenInv, Waiting
  <2>3. IsRequest(q)
    BY <2>2 DEF Working
  <2>4. req' = [req EXCEPT ![c] = p]
    BY <1>1, <2>2
  <2>5. Alike(q, p) /\ p.at = v
    BY <2>3, SetAt
  <2> HIDE DEF q, p
  <2>6. db' = Pointed(db, a, b)
    BY <1>3 DEF Point, Pointed
  <2>7. Journal(db') /\ SameLines(db, db')
    BY <2>2, <2>6, PointKeeps
  <2>8. IsFiniteSet(db) /\ IsFiniteSet(db')
    BY <2>2, <2>7 DEF Journal, Numbered
  <2>9. \A key : Cardinality(Ops(db, key)) \in Nat
    BY <2>8, OpsFinite
  <2>10. Grows(db, db', received, received')
    BY <1>2, <2>7, <2>8, SameGrows
  <2>11. AllSettled(since, db', received')
    BY <2>1, <2>2, <2>8, <2>10, SettledStays
  <2>12. Caught(p, db', received')
    <3>1. PairSeen(p) = PairSeen(q) /\ Considered(p) = Considered(q)
      BY <2>5 DEF Alike, PairSeen, Considered
    <3>2. \A key : Cardinality(Seen(p, key, p.i)) = Cardinality(Seen(q, key, q.i))
      BY <2>5, <3>1 DEF Alike, Seen
    <3>3. \A i : Told(q, i) => Told(p, i)
      BY <2>5 DEF Alike, Told
    <3>4. PairSeen(p) \subseteq Keys(db')
      BY <2>1, <2>7, <3>1 DEF Caught, SameLines
    <3>5. \A key : Cardinality(Ops(p.old, key)) <= Cardinality(Ops(db', key))
      BY <2>1, <2>5, <2>7 DEF Caught, SameLines, Alike
    <3>6. \A key : key.kind # "coupon" =>
            Cardinality(Seen(p, key, p.i)) <= Cardinality(Ops(db', key))
      BY <2>1, <2>7, <3>2 DEF Caught, SameLines
    <3>7. \A i \in Considered(p) : i < p.i =>
            /\ p.file[i].kind = "coupon" => p.file[i].event \in received' \/ i \in p.told
            /\ p.file[i].pair => p.file[i].key \in PairSeen(p) \/ Told(p, i)
      BY <1>2, <2>1, <2>5, <3>1, <3>3 DEF Caught, Alike
    <3> QED BY <3>4, <3>5, <3>6, <3>7 DEF Caught
  <2>13. Catches(p, since', db', received')
    BY <1>2, <2>1, <2>5, <2>12 DEF Catches, Alike
  <2>14. \A d \in Clients : Catches(req'[d], since', db', received')
    BY <2>2, <2>4, <2>13, OneCatches DEF HiddenInv
  <2> QED BY <1>2, <2>11, <2>14
<1> QED BY <1>2, <1>4, Collect DEF HiddenInv

LEMMA FinishHides ==
  ASSUME HiddenInv, TwiceInv', NEW c \in Clients, Finish(c) PROVE HiddenInv'
<1> DEFINE q == req[c]
<1>1. /\ req' = [req EXCEPT ![c] = NoImport] /\ q.at = "rows" /\ q.i > Len(q.file)
      /\ since' = NextImportSince(q)
  BY DEF Finish
<1>2. /\ history' = history /\ limits' = limits /\ db' = db /\ moves' = moves
      /\ received' = received
  BY DEF Finish, countVars
<1>3. ASSUME limits.atOnce = 1, moves' = 0, SoldFirst
      PROVE  /\ AllSettled(since', db', received')
             /\ \A d \in Clients : Catches(req'[d], since', db', received')
  <2>1. AllSettled(since, db, received) /\ q.since = since /\ Caught(q, db, received)
    BY <1>1, <1>2, <1>3 DEF HiddenInv, Catches
  <2>2. /\ \A d \in Clients : d # c => req[d] = NoImport
        /\ Working(q, db) /\ Journal(db) /\ history \in Histories
    BY <1>1, <1>3, InUse DEF HiddenInv, Waiting
  <2> HIDE DEF q
  <2>3. /\ FromFile(q) /\ q.since \in 0..LastDay /\ q.i \in Nat
        /\ \A t \in q.told : t \in 1..Len(q.file)
    BY <2>2 DEF Working
  <2>4. IsFiniteSet(db)
    BY <2>2 DEF Journal, Numbered
  <2>5. AllSettled(NextImportSince(q), db, received)
    BY <1>1, <1>3, <2>1, <2>2, <2>3, <2>4, FinishSettles
  <2>6. \A d \in Clients : Catches(req'[d], since', db', received')
    BY <1>1, <2>2, IdleCatches, OneCatches DEF HiddenInv
  <2> QED BY <1>1, <1>2, <2>5, <2>6
<1> QED BY <1>2, <1>3, Collect DEF HiddenInv

LEMMA FailHides ==
  ASSUME HiddenInv, TwiceInv', NEW c \in Clients, Fail(c) PROVE HiddenInv'
<1>1. req' = [req EXCEPT ![c] = NoImport]
  BY DEF Fail
<1>2. /\ history' = history /\ limits' = limits /\ db' = db /\ moves' = moves
      /\ received' = received /\ since' = since
  BY DEF Fail
<1>3. ASSUME limits.atOnce = 1, moves' = 0, SoldFirst
      PROVE  /\ AllSettled(since', db', received')
             /\ \A d \in Clients : Catches(req'[d], since', db', received')
  <2>1. AllSettled(since, db, received) /\ \A d \in Clients : Catches(req[d], since, db, received)
    BY <1>2, <1>3 DEF HiddenInv
  <2>2. \A d \in Clients : req'[d] = NoImport \/ req'[d] = req[d]
    BY <1>1 DEF HiddenInv, TwiceInv
  <2> QED BY <1>2, <2>1, <2>2, IdleCatches
<1> QED BY <1>2, <1>3, Collect DEF HiddenInv

LEMMA EnterByHandHides ==
  ASSUME HiddenInv, TwiceInv', EnterByHand PROVE HiddenInv'
<1>1. PICK key : db' = db \cup {[id |-> NextId, key |-> key, leg |-> FALSE, pair |-> 0]}
  BY DEF EnterByHand
<1>2. /\ history' = history /\ limits' = limits /\ req' = req /\ moves' = moves
      /\ received' = received /\ since' = since /\ \A c \in Clients : req[c] = NoImport
  BY DEF EnterByHand
<1>3. ASSUME limits.atOnce = 1, moves' = 0, SoldFirst
      PROVE  /\ AllSettled(since', db', received')
             /\ \A d \in Clients : Catches(req'[d], since', db', received')
  <2> DEFINE row == [key |-> key, pair |-> FALSE]
  <2>1. AllSettled(since, db, received) /\ Journal(db) /\ history \in Histories
    BY <1>2, <1>3 DEF HiddenInv, TwiceInv
  <2>2. Numbered(db)
    BY <2>1 DEF Journal
  <2>3. row.pair \in BOOLEAN /\ db' = db \cup {New(row)}
    BY <1>1 DEF New
  <2> HIDE DEF row
  <2>4. Written(row)
    BY <2>2, <2>3, WriteIs
  <2>5. IsFiniteSet(db) /\ IsFiniteSet(db') /\ Grows(db, db', received, received')
    BY <1>2, <2>2, <2>4, WrittenGrows DEF Numbered, Grows
  <2>6. AllSettled(since, db', received')
    BY <2>1, <2>5, SettledStays
  <2> QED BY <1>2, <2>6, IdleCatches
<1> QED BY <1>2, <1>3, Collect DEF HiddenInv

LEMMA OtherHides ==
  ASSUME HiddenInv, TwiceInv', Supply \/ HandleImportSince \/ UNCHANGED vars PROVE HiddenInv'
<1>1. CASE HandleImportSince
  <2>1. history' = history /\ limits' = limits /\ moves' = moves + 1
    BY <1>1 DEF HandleImportSince
  <2>2. moves' \in Nat /\ moves' # 0
    BY <2>1 DEF HiddenInv
  <2> QED BY <2>1, <2>2, Collect
<1>2. CASE Supply \/ UNCHANGED vars
  <2>1. /\ history' = history /\ limits' = limits /\ req' = req /\ moves' = moves
        /\ received' = received /\ since' = since /\ db' = db
    BY <1>2 DEF Supply, vars, countVars
  <2>2. limits.atOnce = 1 /\ moves' = 0 /\ SoldFirst =>
           /\ AllSettled(since', db', received')
           /\ \A c \in Clients : Catches(req'[c], since', db', received')
    BY <2>1 DEF HiddenInv
  <2> QED BY <2>1, <2>2, Collect DEF HiddenInv
<1> QED BY <1>1, <1>2

(* So every step keeps the invariant.                                      *)
LEMMA HiddenNext ==
  ASSUME HiddenInv, [Next]_vars PROVE HiddenInv'
<1>1. TwiceInv'
  BY TwiceNext DEF HiddenInv
<1> QED BY <1>1, UploadHides, ReadJournalHides, ReadMarkHides, ImportRowHides, LinkFundOpsHides,
           FinishHides, FailHides, EnterByHandHides, OtherHides DEF Next

(* And it holds in the beginning.                                          *)
LEMMA HiddenInit ==
  ASSUME Init PROVE HiddenInv
<1>1. TwiceInv
  BY TwiceInit
<1>2. moves = 0 /\ since = 0 /\ \A c \in Clients : req[c] = NoImport
  BY DEF Init
<1>3. AllSettled(0, db, received)
  <2>1. ASSUME NEW j \in 1..Len(Whole) PROVE Whole[j].key.day \in 1..LastDay
    <3>1. history \in Histories
      BY DEF Init
    <3>2. Parsed(Whole, history, Len(history), LastDay)
      BY <3>1, ParsedAll DEF Whole
    <3>3. PICK n \in DOMAIN history : n = Whole[j].event
      BY <3>2 DEF Parsed, Covered
    <3>4. history[n].sold \in 1..LastDay /\ history[n].day \in 1..LastDay
          /\ history[n].kind \in {"op", "pair", "coupon"}
      BY <3>1, HistoryIs
    <3>5. Whole[j] \in RowsOf(history, n, LastDay)
      BY <3>2, <3>3 DEF Parsed
    <3>6. RowFits(Whole[j], history, n)
      BY <3>4, <3>5, RowFields
    <3> QED BY <3>4, <3>6 DEF RowFits
  <2>2. LastDay \in Nat
    BY Day0 DEF Init
  <2> QED BY <2>1, <2>2 DEF AllSettled
<1> QED BY <1>1, <1>2, <1>3, IdleCatches DEF HiddenInv

(* The file of the whole history, in the order of ParseInzhur.             *)
LEMMA WholeIs ==
  ASSUME history \in Histories
  PROVE  /\ Parsed(Whole, history, Len(history), LastDay)
         /\ Len(Whole) \in Nat /\ DOMAIN Whole = 1..Len(Whole)
         /\ HistoryRows = {[row |-> Whole[i], i |-> i] : i \in DOMAIN Whole}
<1>1. Parsed(Whole, history, Len(history), LastDay)
  BY ParsedAll DEF Whole
<1>2. Whole \in Seq(AllRows(history, LastDay))
  BY <1>1 DEF Parsed
<1>3. Len(Whole) \in Nat /\ DOMAIN Whole = 1..Len(Whole)
  BY <1>2
<1>4. HistoryRows = {[row |-> Whole[i], i |-> i] : i \in DOMAIN Whole}
  BY DEF HistoryRows, Whole
<1> QED BY <1>1, <1>3, <1>4

(* Rows with the key of a leg are one row, and one row of the history.     *)
LEMMA OneShown ==
  ASSUME history \in Histories, LegsDistinct, NEW row, NEW other, Known(row), Known(other),
         row.pair, other.key = row.key
  PROVE  row = other
<1>1. row \in ShownAs(row.key) /\ other \in ShownAs(row.key) /\ row \in ShownRows
  BY ShownFinite DEF ShownAs
<1>2. Cardinality(ShownAs(row.key)) = 1
  BY <1>1 DEF LegsDistinct
<1>3. IsFiniteSet(ShownAs(row.key))
  BY ShownFinite, FS_Subset DEF ShownAs
<1>4. \E z : ShownAs(row.key) = {z}
  BY <1>2, <1>3, FS_Singleton
<1> QED BY <1>1, <1>4

LEMMA OneRow ==
  ASSUME history \in Histories, LegsDistinct, NEW i \in 1..Len(Whole), NEW j \in 1..Len(Whole),
         Whole[i].pair, Whole[j].key = Whole[i].key
  PROVE  i = j
<1>1. Parsed(Whole, history, Len(history), LastDay)
  BY WholeIs
<1>2. LastDay \in Days
  <2>1. Whole[i].event \in Covered(history, LastDay)
    BY <1>1 DEF Parsed
  <2> QED BY <2>1, HistoryIs, HistoriesAssumption DEF Covered, Days
<1>3. Known(Whole[i]) /\ Known(Whole[j])
  BY <1>2 DEF Known, Whole
<1>4. Whole[i] = Whole[j]
  BY <1>3, OneShown
<1>5. ~(i < j) /\ ~(j < i)
  <2>1. ASSUME i < j \/ j < i PROVE Whole[i].kind = "sell" /\ Whole[i].kind = "buy"
    BY <1>1, <1>4, <2>1 DEF Parsed
  <2> QED BY <2>1
<1> QED BY <1>5

(* A settled row is in the journal as often as in the history.             *)
LEMMA SettledInJournal ==
  ASSUME history \in Histories, Journal(db), LegsDistinct, NEW x \in HistoryRows,
         Settled(x.row, db, received)
  PROVE  InJournal(x)
<1> DEFINE key == x.row.key
           Lines == {r \in db : r.key = key}
<1>1. Parsed(Whole, history, Len(history), LastDay)
  BY ParsedAll DEF Whole
<1>2. Len(Whole) \in Nat /\ DOMAIN Whole = 1..Len(Whole)
  <2>1. Whole \in Seq(AllRows(history, LastDay))
    BY <1>1 DEF Parsed
  <2> QED BY <2>1
<1>3. HistoryRows = {[row |-> Whole[i], i |-> i] : i \in DOMAIN Whole}
  BY DEF HistoryRows, Whole
<1>4. CASE x.row.kind = "coupon"
  BY <1>4 DEF InJournal, Settled
<1>5. IsFiniteSet(db) /\ IsFiniteSet(Lines) /\ Cardinality(Lines) \in Nat
  <2>1. IsFiniteSet(db)
    BY DEF Journal, Numbered
  <2>2. Lines \in SUBSET db
    OBVIOUS
  <2> QED BY <2>1, <2>2, FS_Subset, FS_CardinalityType
<1>6. IsFiniteSet(Plain(Whole, key)) /\ Cardinality(Plain(Whole, key)) \in Nat
  <2>1. IsFiniteSet(1..Len(Whole))
    BY <1>2, FS_Interval
  <2>2. Plain(Whole, key) \in SUBSET (1..Len(Whole))
    BY DEF Plain
  <2> QED BY <2>1, <2>2, FS_Subset, FS_CardinalityType
<1>7. SUFFICES ASSUME x.row.kind # "coupon"
               PROVE  Cardinality(Twice(key)) <= Cardinality(Lines)
  BY <1>4, <1>5 DEF InJournal
<1>8. x.i \in 1..Len(Whole) /\ Whole[x.i] = x.row
  BY <1>2, <1>3
<1>9. CASE \E y \in Twice(key) : y.row.pair
  <2>1. PICK y \in HistoryRows : y.row.key = key /\ y.row.pair
    BY <1>9 DEF Twice
  <2>0. y.i \in 1..Len(Whole) /\ Whole[y.i] = y.row /\ y = [row |-> Whole[y.i], i |-> y.i]
    BY <1>2, <1>3, <2>1
  <2>2. Cardinality(Twice(key)) = 1
    <3>1. ASSUME NEW z \in Twice(key) PROVE z = y
      <4>1. z.i \in 1..Len(Whole) /\ z = [row |-> Whole[z.i], i |-> z.i] /\ Whole[z.i].key = key
        BY <1>2, <1>3 DEF Twice
      <4>2. z.i = y.i
        BY <2>0, <2>1, <4>1, OneRow
      <4> QED BY <2>0, <4>1, <4>2
    <3>2. y \in Twice(key)
      BY <2>1 DEF Twice
    <3>3. Twice(key) = {y}
      BY <3>1, <3>2
    <3> QED BY <3>3, FS_Singleton
  <2>3. Lines # {}
    <3>1. CASE x.row.pair
      <4>1. key \in Keys(db)
        BY <3>1 DEF Settled
      <4> QED BY <4>1 DEF Keys
    <3>2. CASE ~x.row.pair
      <4>1. Cardinality(Plain(Whole, key)) <= Cardinality(Ops(db, key))
        BY <1>7, <3>2 DEF Settled
      <4>2. x.i \in Plain(Whole, key)
        BY <1>8, <3>2 DEF Plain
      <4>3. Cardinality(Plain(Whole, key)) # 0
        BY <1>6, <4>2, FS_EmptySet
      <4>4. Cardinality(Ops(db, key)) \in Nat
        BY <1>5, OpsFinite
      <4> HIDE DEF Lines, key
      <4>5. Cardinality(Ops(db, key)) # 0
        BY <1>6, <4>1, <4>3, <4>4
      <4>6. Ops(db, key) # {}
        BY <4>5, FS_EmptySet
      <4> QED BY <4>6 DEF Ops, Lines
    <3> QED BY <3>1, <3>2
  <2> HIDE DEF Lines
  <2>4. Cardinality(Lines) # 0
    BY <1>5, <2>3, FS_EmptySet
  <2>5. 1 <= Cardinality(Lines)
    BY <1>5, <2>4
  <2> QED BY <2>2, <2>5
<1>10. CASE ~\E y \in Twice(key) : y.row.pair
  <2>1. ~x.row.pair
    BY <1>10 DEF Twice
  <2>2. Cardinality(Plain(Whole, key)) <= Cardinality(Ops(db, key))
    BY <1>7, <2>1 DEF Settled
  <2>3. Ops(db, key) \in SUBSET Lines
    BY DEF Ops
  <2>4. Cardinality(Ops(db, key)) <= Cardinality(Lines) /\ Cardinality(Ops(db, key)) \in Nat
    BY <1>5, <2>3, OpsFinite, FS_Subset
  <2> DEFINE f == [y \in Twice(key) |-> y.i]
  <2>5. f \in [Twice(key) -> Plain(Whole, key)]
    <3>1. \A y \in Twice(key) : y.i \in 1..Len(Whole) /\ Whole[y.i] = y.row
      BY <1>2, <1>3 DEF Twice
    <3>2. \A y \in Twice(key) : y.row.key = key /\ ~y.row.pair
      BY <1>10 DEF Twice
    <3> QED BY <3>1, <3>2 DEF Plain
  <2>6. \A y, z \in Twice(key) : f[y] = f[z] => y = z
    BY <1>2, <1>3 DEF Twice
  <2> HIDE DEF f, Lines, key
  <2>7. Cardinality(Twice(key)) <= Cardinality(Plain(Whole, key)) /\ Cardinality(Twice(key)) \in Nat
    BY <1>6, <2>5, <2>6, CountBy
  <2> QED BY <1>5, <1>6, <2>2, <2>4, <2>7
<1> QED BY <1>9, <1>10

(* What is settled is in the journal.                                      *)
LEMMA HiddenInvSays ==
  ASSUME HiddenInv PROVE NothingHidden
<1> SUFFICES ASSUME limits.atOnce = 1, moves = 0, LegsDistinct, SoldFirst,
                    NEW x \in HistoryRows, x.row.key.day < since
             PROVE  InJournal(x)
  BY DEF NothingHidden
<1>1. AllSettled(since, db, received) /\ Journal(db) /\ history \in Histories
  BY DEF HiddenInv, TwiceInv
<1>2. Parsed(Whole, history, Len(history), LastDay)
  BY <1>1, ParsedAll DEF Whole
<1>3. DOMAIN Whole = 1..Len(Whole)
  <2>1. Whole \in Seq(AllRows(history, LastDay))
    BY <1>2 DEF Parsed
  <2> QED BY <2>1
<1>4. x.i \in 1..Len(Whole) /\ Whole[x.i] = x.row
  BY <1>3 DEF HistoryRows, Whole
<1>5. Settled(x.row, db, received)
  BY <1>1, <1>4 DEF AllSettled
<1> QED BY <1>1, <1>5, SettledInJournal

(* What the mark hides is in the journal: a row that was put off, for a    *)
(* reason the user can remove, stays visible to the next import until it   *)
(* is in (nextImportSince, handlers_import.go), whatever fails in between, *)
(* for one import at a time, a mark that nobody moves by hand, and         *)
(* conversions told from other operations.                                 *)
THEOREM MarkHidesNothing == Spec => []NothingHidden
<1>1. Init => HiddenInv
  BY HiddenInit
<1>2. HiddenInv /\ [Next]_vars => HiddenInv'
  BY HiddenNext
<1>3. HiddenInv => NothingHidden
  BY HiddenInvSays
<1> QED BY <1>1, <1>2, <1>3, PTL DEF Spec

-----------------------------------------------------------------------------
(* The legs of a conversion that nothing was paid on top of, by the keys   *)
(* of its sale and of its purchase, and what the journal may have of them. *)

PairEvents ==
  {n \in DOMAIN history : history[n].kind = "pair" /\ history[n].full = history[n].sym}
Buy(n) == Row("buy", history[n].day, n, history[n].sym, TRUE)
SaleKey(n) == Sale(history, n).key
BuyKey(n) == Buy(n).key
LinesOf(rs, key) == {r \in rs : r.key = key}
Line(n, id) == [event |-> n, id |-> id]

NoLeg(rs, n) == LinesOf(rs, SaleKey(n)) = {} /\ LinesOf(rs, BuyKey(n)) = {}
Half(rs, n, a) == LinesOf(rs, SaleKey(n)) = {a} /\ LinesOf(rs, BuyKey(n)) = {} /\ a.pair = 0
Both(rs, n, a, b) == LinesOf(rs, SaleKey(n)) = {a} /\ LinesOf(rs, BuyKey(n)) = {b}
Loose(rs, n, a, b) == Both(rs, n, a, b) /\ a.pair = 0 /\ b.pair = 0
OneWay(rs, n, a, b) == Both(rs, n, a, b) /\ a.pair = b.id /\ b.pair = 0
Linked(rs, n) == \E a, b \in rs : Both(rs, n, a, b) /\ a.pair = b.id /\ b.pair = a.id
AtRest(rs, n) ==
  \/ NoLeg(rs, n) \/ Linked(rs, n)
  \/ \E a \in rs : Half(rs, n, a)
  \/ \E a, b \in rs : Loose(rs, n, a, b)

(* Between imports, or before the rows of this one: a leg has its history, *)
(* and what the mark hides is linked.                                      *)
Kept(s, rs, sup, n) ==
  AtRest(rs, n) /\ (NoLeg(rs, n) \/ n \in sup) /\ (history[n].sold < s => Linked(rs, n))

(* Where an import stands: before the sale, between the legs, behind both. *)
DoneKey(q, key) == \E i \in 1..Len(q.file) : i < q.i /\ q.file[i].key = key
Linking(q, rs, n) ==
  \E a, b \in rs :
    /\ q.link = <<a.id, b.id>>
    /\ \/ q.at = "link" /\ Loose(rs, n, a, b)
       \/ q.at = "link back" /\ OneWay(rs, n, a, b)
SameLegs(rs, rt, n) ==
  LinesOf(rs, SaleKey(n)) = LinesOf(rt, SaleKey(n)) /\ LinesOf(rs, BuyKey(n)) = LinesOf(rt, BuyKey(n))
Ahead(q, rs, n) ==
  /\ ~DoneKey(q, SaleKey(n)) /\ ~DoneKey(q, BuyKey(n))
  /\ SameLegs(q.old, rs, n) /\ First(q, n) = {} /\ Kept(q.since, rs, q.supplied, n)
Between(q, rs, n) ==
  /\ DoneKey(q, SaleKey(n)) /\ ~DoneKey(q, BuyKey(n))
  /\ LinesOf(q.old, BuyKey(n)) = LinesOf(rs, BuyKey(n)) /\ Kept(q.since, rs, q.supplied, n)
  /\ \/ Linked(rs, n)
     \/ NoLeg(rs, n) /\ n \notin q.supplied /\ First(q, n) = {}
     \/ \E a \in rs : Half(rs, n, a) /\ First(q, n) = {Line(n, a.id)}
     \/ \E a, b \in rs : Loose(rs, n, a, b) /\ First(q, n) = {Line(n, a.id)}
Behind(q, rs, n) ==
  /\ DoneKey(q, SaleKey(n)) /\ DoneKey(q, BuyKey(n))
  /\ NoLeg(rs, n) \/ n \in q.supplied
  /\ \/ Linked(rs, n)
     \/ NoLeg(rs, n) /\ ~(history[n].sold < q.since)
     \/ Linking(q, rs, n) /\ ~(history[n].sold < q.since)
Follows(q, rs, n) == Ahead(q, rs, n) \/ Between(q, rs, n) \/ Behind(q, rs, n)

(* What an import remembers.                                               *)
PlansFit(plans, sup) == \A x \in plans : x = [event |-> x.event, goes |-> x.event \in sup]
Tidy(q) ==
  /\ PlansFit(q.plans, q.supplied)
  /\ \A key \in q.healed \cup q.mine : DoneKey(q, key)

(* A line that is no leg of theirs.                                        *)
Foreign(key) == \A n \in PairEvents : key # SaleKey(n) /\ key # BuyKey(n)
Strange(rs, id) == \E r \in rs : r.id = id /\ Foreign(r.key)
Kin(rs, rt) == \A r \in rs : \E s \in rt : s.id = r.id /\ s.key = r.key

(* What is linked is such a conversion or has nothing to do with any.      *)
LinksOne(q, rs) ==
  /\ Kin(q.old, rs)
  /\ \A f \in q.first : f.event \in PairEvents \/ Strange(rs, f.id)
  /\ q.at \in {"link", "link back"} =>
       \/ \E n \in PairEvents : Linking(q, rs, n) /\ DoneKey(q, SaleKey(n)) /\ DoneKey(q, BuyKey(n))
       \/ Strange(rs, q.link[1]) /\ Strange(rs, q.link[2])
Tends(q, s, rs, sup) ==
  /\ q.at = "journal" => \A n \in PairEvents : Kept(s, rs, sup, n)
  /\ q.at = "mark" =>
       /\ q.supplied \subseteq sup /\ q.plans = {} /\ q.healed = {} /\ q.first = {}
       /\ \A n \in PairEvents : Kept(s, rs, q.supplied, n)
  /\ q.at \in {"rows", "link", "link back"} =>
       /\ q.supplied \subseteq sup /\ Tidy(q) /\ LinksOne(q, rs)
       /\ \A n \in PairEvents : Follows(q, rs, n)

OneByOne == limits.atOnce = 1 /\ moves = 0 /\ LegsDistinct /\ SoldFirst /\ torn = {}
Heals ==
  OneByOne =>
    /\ (\A c \in Clients : req[c] = NoImport) =>
         \A n \in PairEvents : Kept(since, db, supplied, n)
    /\ \A c \in Clients : req[c] # NoImport => Tends(req[c], since, db, supplied)

(* A key of a conversion is the key of that leg only.                      *)
Clear(n) ==
  \A row : Known(row) =>
    /\ row.key = SaleKey(n) => row = Sale(history, n)
    /\ row.key = BuyKey(n) => row = Buy(n)

(* Its rows are the same in every file.                                    *)
LEMMA RowsOfPair ==
  ASSUME NEW n \in PairEvents, NEW u
  PROVE  RowsOf(history, n, u) = {Sale(history, n), Buy(n)}
<1>1. history[n].kind = "pair" /\ Bought(history[n], u) = history[n].sym
  BY DEF PairEvents, Bought
<1>2. Purchase(history, n, u) = Buy(n)
  BY <1>1 DEF Purchase, Buy
<1> QED BY <1>1, <1>2 DEF RowsOf

(* Both are there.                                                         *)
LEMMA LegsKnown ==
  ASSUME history \in Histories, NEW n \in PairEvents
  PROVE  /\ \E i \in 1..Len(Whole) : Whole[i] = Sale(history, n)
         /\ Known(Sale(history, n)) /\ Known(Buy(n))
<1>1. n \in DOMAIN history /\ history[n].sold \in 1..LastDay /\ history[n].day \in 1..LastDay
  BY HistoryIs DEF PairEvents
<1>2. n \in Covered(history, LastDay) /\ n <= Len(history)
  BY <1>1, HistoryIs DEF Covered
<1>3. Sale(history, n) \in RowsOf(history, n, LastDay) /\ Buy(n) \in RowsOf(history, n, LastDay)
  BY RowsOfPair
<1>4. PICK i \in 1..Len(Whole) : Whole[i] = Sale(history, n)
  BY <1>2, <1>3, WholeIs DEF Parsed
<1>5. PICK j \in 1..Len(Whole) : Whole[j] = Buy(n)
  BY <1>2, <1>3, WholeIs DEF Parsed
<1>6. LastDay \in Days
  BY <1>1, HistoriesAssumption DEF Days
<1> QED BY <1>4, <1>5, <1>6 DEF Known, Whole

(* So the keys of a conversion are its own.                                *)
LEMMA LegKeys ==
  ASSUME history \in Histories, LegsDistinct, NEW n \in PairEvents PROVE Clear(n)
<1>1. Sale(history, n).pair /\ Buy(n).pair
  BY DEF Sale, Buy, Row
<1> QED BY <1>1, LegsKnown, OneShown DEF Clear, SaleKey, BuyKey

(* What tells the two legs of a conversion apart, and from others.         *)
LEMMA SaleIs ==
  ASSUME NEW n PROVE Sale(history, n).event = n /\ Sale(history, n).kind = "sell"
BY DEF Sale, Row
(* As SaleIs.                                                              *)
LEMMA PurchaseIs ==
  ASSUME NEW n PROVE Buy(n).event = n /\ Buy(n).kind = "buy"
BY DEF Buy, Row
(* The keys of the legs, field by field.                                   *)
LEMMA KeysAre ==
  ASSUME NEW n
  PROVE  /\ SaleKey(n) = Key(history[n].sold, "sell", history[n].sym)
         /\ BuyKey(n) = Key(history[n].day, "buy", history[n].sym)
BY DEF SaleKey, Sale, BuyKey, Buy, Row, Key
LEMMA KeysDiffer ==
  ASSUME NEW n
  PROVE  /\ SaleKey(n) # BuyKey(n)
         /\ SaleKey(n).day = history[n].sold /\ BuyKey(n).day = history[n].day
<1>1. SaleKey(n).kind = "sell" /\ SaleKey(n).day = history[n].sold
  BY KeysAre DEF Key
<1>2. BuyKey(n).kind = "buy" /\ BuyKey(n).day = history[n].day
  BY KeysAre DEF Key
<1> QED BY <1>1, <1>2

(* Different conversions have no key in common.                            *)
Own(n, m) ==
  SaleKey(n) # SaleKey(m) /\ SaleKey(n) # BuyKey(m) /\ BuyKey(n) # SaleKey(m) /\ BuyKey(n) # BuyKey(m)

LEMMA OwnKeys ==
  ASSUME history \in Histories, LegsDistinct, NEW n \in PairEvents, NEW m \in PairEvents, n # m
  PROVE  Own(n, m)
<1>1. Known(Sale(history, n)) /\ Known(Buy(n))
  BY LegsKnown
<1>2. Clear(m)
  BY LegKeys
<1>3. SaleKey(n) # SaleKey(m) /\ BuyKey(n) # SaleKey(m)
  BY <1>1, <1>2, SaleIs, PurchaseIs DEF Clear, SaleKey, BuyKey
<1>4. SaleKey(n) # BuyKey(m) /\ BuyKey(n) # BuyKey(m)
  BY <1>1, <1>2, SaleIs, PurchaseIs DEF Clear, SaleKey, BuyKey
<1> QED BY <1>3, <1>4 DEF Own

(* A row of a file with such a key is that leg, and both legs are there,   *)
(* the sale first.                                                         *)
LEMMA LegInFile ==
  ASSUME history \in Histories, LegsDistinct, NEW n \in PairEvents, NEW q, FromFile(q),
         NEW i \in 1..Len(q.file)
  PROVE  /\ q.file[i].key = SaleKey(n) => q.file[i] = Sale(history, n)
         /\ q.file[i].key = BuyKey(n) => q.file[i] = Buy(n)
<1>1. Known(q.file[i])
  BY FileIs
<1>2. Clear(n)
  BY LegKeys
<1> QED BY <1>1, <1>2 DEF Clear

LEMMA BothInFile ==
  ASSUME history \in Histories, NEW n \in PairEvents, NEW q, FromFile(q),
         NEW k \in 1..Len(q.file), q.file[k] = Sale(history, n) \/ q.file[k] = Buy(n)
  PROVE  \E i, j \in 1..Len(q.file) :
           i < j /\ q.file[i] = Sale(history, n) /\ q.file[j] = Buy(n)
<1>1. PICK u \in Days : q.file = ParseInzhur(u)
  BY DEF FromFile
<1>2. Parsed(q.file, history, Len(history), u)
  BY <1>1, ParsedAll
<1>3. q.file[k].event = n
  BY SaleIs, PurchaseIs
<1>4. n \in Covered(history, u) /\ n <= Len(history)
  BY <1>2, <1>3 DEF Parsed
<1>5. Sale(history, n) \in RowsOf(history, n, u) /\ Buy(n) \in RowsOf(history, n, u)
  BY RowsOfPair
<1>6. PICK i \in 1..Len(q.file) : q.file[i] = Sale(history, n)
  BY <1>2, <1>4, <1>5 DEF Parsed
<1>7. PICK j \in 1..Len(q.file) : q.file[j] = Buy(n)
  BY <1>2, <1>4, <1>5 DEF Parsed
<1>8. q.file[i].event = n /\ q.file[j].event = n /\ q.file[i].kind = "sell" /\ q.file[j].kind = "buy"
  BY <1>6, <1>7, SaleIs, PurchaseIs
<1>9. i # j
  BY <1>8
<1>10. ~(j < i)
  <2> SUFFICES ASSUME j < i PROVE FALSE
    OBVIOUS
  <2>1. q.file[j].kind = "sell"
    BY <1>2, <1>8 DEF Parsed
  <2> QED BY <1>8, <2>1
<1>11. i \in Int /\ j \in Int
  OBVIOUS
<1>12. i < j
  BY <1>9, <1>10, <1>11
<1> QED BY <1>6, <1>7, <1>12

(* Where the import stands when it comes to a leg.                         *)
LEMMA AtSale ==
  ASSUME history \in Histories, LegsDistinct, NEW n \in PairEvents, NEW q, FromFile(q),
         q.i \in 1..Len(q.file), q.file[q.i] = Sale(history, n)
  PROVE  ~DoneKey(q, SaleKey(n)) /\ ~DoneKey(q, BuyKey(n))
<1>1. PICK u \in Days : q.file = ParseInzhur(u)
  BY DEF FromFile
<1>2. Parsed(q.file, history, Len(history), u)
  BY <1>1, ParsedAll
<1> SUFFICES ASSUME NEW i \in 1..Len(q.file), i < q.i, q.file[i].key \in {SaleKey(n), BuyKey(n)}
             PROVE  FALSE
  BY DEF DoneKey
<1>3. q.file[i].event = n
  BY LegInFile, SaleIs, PurchaseIs
<1>4. q.file[q.i].event = n /\ q.file[q.i].kind = "sell"
  BY SaleIs, PurchaseIs
<1>5. q.file[q.i].kind = "buy"
  BY <1>2, <1>3, <1>4 DEF Parsed
<1> QED BY <1>4, <1>5

(* As AtSale: the sale is behind, and nothing comes between.               *)
LEMMA AtPurchase ==
  ASSUME history \in Histories, LegsDistinct, NEW n \in PairEvents, NEW q, FromFile(q),
         q.i \in 1..Len(q.file), q.file[q.i] = Buy(n)
  PROVE  DoneKey(q, SaleKey(n)) /\ ~DoneKey(q, BuyKey(n))
<1>1. PICK u \in Days : q.file = ParseInzhur(u)
  BY DEF FromFile
<1>2. Parsed(q.file, history, Len(history), u)
  BY <1>1, ParsedAll
<1>3. q.file[q.i].event = n /\ q.file[q.i].kind = "buy"
  BY SaleIs, PurchaseIs
<1>4. ~DoneKey(q, BuyKey(n))
  <2> SUFFICES ASSUME NEW i \in 1..Len(q.file), i < q.i, q.file[i].key = BuyKey(n) PROVE FALSE
    BY DEF DoneKey
  <2>1. q.file[i].event = n /\ q.file[i].kind = "buy"
    BY LegInFile, SaleIs, PurchaseIs
  <2>2. q.file[i].kind = "sell"
    BY <1>2, <1>3, <2>1 DEF Parsed
  <2> QED BY <2>1, <2>2
<1>5. DoneKey(q, SaleKey(n))
  <2>1. PICK i \in 1..Len(q.file), j \in 1..Len(q.file) :
          i < j /\ q.file[i] = Sale(history, n) /\ q.file[j] = Buy(n)
    BY BothInFile
  <2>2. q.file[i].key = SaleKey(n) /\ q.file[j].key = BuyKey(n)
    BY <2>1 DEF SaleKey, BuyKey
  <2>3. ~(j < q.i)
    BY <1>4, <2>2 DEF DoneKey
  <2>4. q.file[i].event = n /\ q.file[j].event = n /\ q.file[j].kind = "buy"
    BY <2>1, SaleIs, PurchaseIs
  <2>5. ~(q.i < j)
    <3> SUFFICES ASSUME q.i < j PROVE FALSE
      OBVIOUS
    <3>1. q.file[q.i].kind = "sell"
      BY <1>2, <1>3, <2>4 DEF Parsed
    <3> QED BY <1>3, <3>1
  <2>6. i < q.i
    BY <2>1, <2>3, <2>5
  <2> QED BY <2>2, <2>6 DEF DoneKey
<1> QED BY <1>4, <1>5

-----------------------------------------------------------------------------
(* What a row does to a leg: the request afterwards in full.               *)

Moves(q, p) ==
  /\ IsRequest(p) /\ p.file = q.file /\ p.i = q.i + 1 /\ p.old = q.old
  /\ p.since = q.since /\ p.supplied = q.supplied

(* The first leg of the file is remembered, the second one is linked.      *)
Remembers(q, p, n, id) ==
  \/ First(q, n) = {} /\ p.first = q.first \cup {Line(n, id)} /\ p.at = "rows"
  \/ /\ First(q, n) # {} /\ p.first = q.first /\ p.at = "link"
     /\ \E f \in First(q, n) : p.link = <<f.id, id>>
Quiet(q, p) == p.first = q.first /\ p.at = "rows"

WaySkip(q, p) ==
  /\ q.file[q.i].key.day < q.since /\ db' = db
  /\ Quiet(q, p) /\ p.plans = q.plans /\ p.healed = q.healed /\ p.mine = q.mine
WayPlain(q, p) ==
  /\ ~q.file[q.i].pair /\ db' \in {db, db \cup {New(q.file[q.i])}}
  /\ Quiet(q, p) /\ p.plans = q.plans /\ p.healed = q.healed
  /\ p.mine \subseteq q.mine \cup {q.file[q.i].key}
WayFound(q, p) ==
  /\ q.file[q.i].key \in PairSeen(q) /\ ~Orphan(q, q.file[q.i].key) /\ db' = db
  /\ Quiet(q, p) /\ p.plans = q.plans /\ p.healed = q.healed /\ p.mine = q.mine
WayHealed(q, p) ==
  /\ Orphan(q, q.file[q.i].key) /\ db' = db
  /\ Remembers(q, p, q.file[q.i].event, OrphanId(q, q.file[q.i].key))
  /\ p.plans = q.plans /\ p.healed = q.healed \cup {q.file[q.i].key} /\ p.mine = q.mine
WayWritten(q, p) ==
  /\ q.file[q.i].key \notin PairSeen(q) /\ q.file[q.i].event \in q.supplied
  /\ db' = db \cup {New(q.file[q.i])}
  /\ Remembers(q, p, q.file[q.i].event, NextId)
  /\ PlansFit(p.plans, q.supplied) /\ p.healed = q.healed
  /\ p.mine = q.mine \cup {q.file[q.i].key}
WayPutOff(q, p) ==
  /\ q.file[q.i].key \notin PairSeen(q) /\ q.file[q.i].event \notin q.supplied
  /\ db' = db
  /\ Quiet(q, p) /\ PlansFit(p.plans, q.supplied) /\ p.healed = q.healed /\ p.mine = q.mine

RowWay(q, p) ==
  /\ Moves(q, p)
  /\ \/ WaySkip(q, p)
     \/ ~(q.file[q.i].key.day < q.since) /\ q.file[q.i].pair
          /\ (WayFound(q, p) \/ WayHealed(q, p) \/ WayWritten(q, p) \/ WayPutOff(q, p))
     \/ ~(q.file[q.i].key.day < q.since) /\ WayPlain(q, p)

(* The fields one by one: S are those that may differ.                     *)
But(q, p, S) == IsRequest(p) /\ \A f \in Fields \ S : p[f] = q[f]

(* One lemma for each field that a row changes, as SetI.                   *)
LEMMA ButI ==
  ASSUME NEW q, IsRequest(q), NEW p, p = [q EXCEPT !.i = @ + 1]
  PROVE  But(q, p, {"i"}) /\ p.i = q.i + 1
BY DEF IsRequest, Fields, But
LEMMA ButHealed ==
  ASSUME NEW q, IsRequest(q), NEW v, NEW p, p = [q EXCEPT !.healed = v]
  PROVE  But(q, p, {"healed"}) /\ p.healed = v
BY DEF IsRequest, Fields, But
LEMMA ButPlans ==
  ASSUME NEW q, IsRequest(q), NEW v, NEW p, p = [q EXCEPT !.plans = v]
  PROVE  But(q, p, {"plans"}) /\ p.plans = v
BY DEF IsRequest, Fields, But
LEMMA ButMine ==
  ASSUME NEW q, IsRequest(q), NEW v, NEW p, p = [q EXCEPT !.mine = v]
  PROVE  But(q, p, {"mine"}) /\ p.mine = v
BY DEF IsRequest, Fields, But
LEMMA ButTold ==
  ASSUME NEW q, IsRequest(q), NEW v, NEW p, p = [q EXCEPT !.told = v]
  PROVE  But(q, p, {"told"})
BY DEF IsRequest, Fields, But
LEMMA ButFirst ==
  ASSUME NEW q, IsRequest(q), NEW v, NEW p, p = [q EXCEPT !.first = v]
  PROVE  But(q, p, {"first"}) /\ p.first = v
BY DEF IsRequest, Fields, But
LEMMA ButLink ==
  ASSUME NEW q, IsRequest(q), NEW v, NEW p, p = [q EXCEPT !.link = v, !.at = "link"]
  PROVE  But(q, p, {"link", "at"}) /\ p.link = v /\ p.at = "link"
BY DEF IsRequest, Fields, But
LEMMA ButAt ==
  ASSUME NEW q, IsRequest(q), NEW v, NEW p, p = [q EXCEPT !.at = v]
  PROVE  But(q, p, {"at"}) /\ p.at = v
BY DEF IsRequest, Fields, But
LEMMA ButSince ==
  ASSUME NEW q, IsRequest(q), NEW v, NEW p, p = [[q EXCEPT !.at = "rows"] EXCEPT !.since = v]
  PROVE  But(q, p, {"at", "since"}) /\ p.at = "rows" /\ p.since = v
BY DEF IsRequest, Fields, But

(* What a request keeps when only some of its fields may differ.           *)
LEMMA ButAll ==
  ASSUME NEW q, NEW p, NEW S, But(q, p, S)
  PROVE  /\ IsRequest(p)
         /\ "at" \notin S => p.at = q.at
         /\ "file" \notin S => p.file = q.file
         /\ "i" \notin S => p.i = q.i
         /\ "old" \notin S => p.old = q.old
         /\ "supplied" \notin S => p.supplied = q.supplied
         /\ "since" \notin S => p.since = q.since
         /\ "mine" \notin S => p.mine = q.mine
         /\ "healed" \notin S => p.healed = q.healed
         /\ "plans" \notin S => p.plans = q.plans
         /\ "first" \notin S => p.first = q.first
         /\ "told" \notin S => p.told = q.told
         /\ "link" \notin S => p.link = q.link
BY DEF But, Fields

(* Both legs are planned by what the user had entered when the import      *)
(* began.                                                                  *)
LEMMA PlanIs ==
  ASSUME NEW q, IsRequest(q), PlansFit(q.plans, q.supplied), NEW n, NEW p, p = PlanPair(q, n)
  PROVE  But(q, p, {"plans"}) /\ PlansFit(p.plans, q.supplied) /\ (Goes(p, n) <=> n \in q.supplied)
<1> DEFINE plan == [event |-> n, goes |-> n \in q.supplied]
<1>1. CASE n \in {x.event : x \in q.plans}
  <2>1. p = q
    BY <1>1 DEF PlanPair
  <2>2. PICK x \in q.plans : x.event = n
    BY <1>1
  <2>3. x = plan
    BY <2>2 DEF PlansFit
  <2>4. plan \in q.plans
    BY <2>2, <2>3
  <2>5. But(q, p, {"plans"})
    BY <2>1 DEF But
  <2>6. ASSUME n \in q.supplied PROVE Goes(p, n)
    BY <2>1, <2>4, <2>6 DEF Goes
  <2>7. ASSUME Goes(p, n) PROVE n \in q.supplied
    <3> DEFINE y == [event |-> n, goes |-> TRUE]
    <3>1. y \in q.plans
      BY <2>1, <2>7 DEF Goes
    <3>2. y = [event |-> y.event, goes |-> y.event \in q.supplied]
      BY <3>1 DEF PlansFit
    <3> QED BY <3>2
  <2> QED BY <2>1, <2>5, <2>6, <2>7
<1>2. CASE n \notin {x.event : x \in q.plans}
  <2>1. p = [q EXCEPT !.plans = @ \cup {plan}]
    BY <1>2 DEF PlanPair
  <2>2. But(q, p, {"plans"}) /\ p.plans = q.plans \cup {plan}
    BY <2>1, ButPlans
  <2>3. plan = [event |-> plan.event, goes |-> plan.event \in q.supplied]
    OBVIOUS
  <2>4. PlansFit(p.plans, q.supplied)
    BY <2>2, <2>3 DEF PlansFit
  <2>5. ASSUME n \in q.supplied PROVE Goes(p, n)
    BY <2>2, <2>5 DEF Goes
  <2>6. ASSUME Goes(p, n) PROVE n \in q.supplied
    <3> DEFINE y == [event |-> n, goes |-> TRUE]
    <3>1. y \in p.plans
      BY <2>6 DEF Goes
    <3>2. y = [event |-> y.event, goes |-> y.event \in q.supplied]
      BY <2>4, <3>1 DEF PlansFit
    <3> QED BY <3>2
  <2> QED BY <2>2, <2>4, <2>5, <2>6
<1> QED BY <1>1, <1>2

(* A leg with its id is remembered, or linked to the one remembered.       *)
LEMMA LinkIs ==
  ASSUME NEW q, IsRequest(q), q.at = "rows", NEW n, NEW id, NEW p, p = LinkOrRemember(q, n, id)
  PROVE  But(q, p, {"first", "link", "at"}) /\ Remembers(q, p, n, id)
<1>1. CASE First(q, n) = {}
  <2>1. p = [q EXCEPT !.first = @ \cup {Line(n, id)}]
    BY <1>1 DEF LinkOrRemember, Line
  <2>2. But(q, p, {"first"}) /\ p.first = q.first \cup {Line(n, id)}
    BY <2>1, ButFirst
  <2>3. p.at = "rows"
    BY <2>2, ButAll
  <2> QED BY <1>1, <2>2, <2>3 DEF But, Remembers
<1>2. CASE First(q, n) # {}
  <2>1. PICK f \in First(q, n) : p = [q EXCEPT !.link = <<f.id, id>>, !.at = "link"]
    BY <1>2 DEF LinkOrRemember
  <2>2. PICK v : v = <<f.id, id>>
    OBVIOUS
  <2>6. p = [q EXCEPT !.link = v, !.at = "link"]
    BY <2>1, <2>2
  <2>7. But(q, p, {"link", "at"}) /\ p.link = v /\ p.at = "link"
    BY ONLY IsRequest(q), <2>6 DEF IsRequest, Fields, But
  <2>3. But(q, p, {"link", "at"}) /\ p.link = <<f.id, id>> /\ p.at = "link"
    BY <2>2, <2>7
  <2>4. p.first = q.first
    BY <2>3, ButAll
  <2>5. Remembers(q, p, n, id)
    BY <1>2, <2>2, <2>3, <2>4 DEF Remembers
  <2> QED BY <2>3, <2>5 DEF But
<1> QED BY <1>1, <1>2

(* Remembering looks at the request's own fields only.                     *)
LEMMA RemembersSame ==
  ASSUME NEW q, NEW o, NEW v, NEW p, NEW n, NEW id, o.first = q.first, Remembers(o, v, n, id),
         p.first = v.first, p.at = v.at, p.link = v.link
  PROVE  Remembers(q, p, n, id)
BY DEF Remembers, First

(* Every ImportRow is one of the ways.                                     *)
LEMMA RowWays ==
  ASSUME NEW c \in Clients, ImportRow(c), IsRequest(req[c]), DOMAIN req = Clients,
         PlansFit(req[c].plans, req[c].supplied),
         req[c].file[req[c].i].pair => req[c].file[req[c].i].kind # "coupon"
  PROVE  RowWay(req[c], req'[c])
<1> DEFINE q == req[c]
           p == req'[c]
           row == q.file[q.i]
           key == row.key
           n == row.event
<1>1. q.at = "rows"
  BY DEF ImportRow
<1>2. \/ key.day < q.since /\ Advance(c, q) /\ db' = db
      \/ ~(key.day < q.since) /\ (OpRow(c, q, row) \/ LegRow(c, q, row) \/ CouponRow(c, q, row))
  BY DEF ImportRow
<1>3. ASSUME NEW o, IsRequest(o), Advance(c, o)
      PROVE  But(o, p, {"i"}) /\ p.i = o.i + 1
  <2>1. p = [o EXCEPT !.i = @ + 1]
    BY <1>3 DEF Advance
  <2> QED BY <1>3, <2>1, ButI
<1>4. IsRequest(q) /\ PlansFit(q.plans, q.supplied) /\ (row.pair => row.kind # "coupon")
  OBVIOUS
<1> HIDE DEF q, p
<1>5. ASSUME Advance(c, q) PROVE Moves(q, p) /\ Quiet(q, p) /\ p.plans = q.plans
                                 /\ p.healed = q.healed /\ p.mine = q.mine
  <2>1. But(q, p, {"i"}) /\ p.i = q.i + 1
    BY <1>3, <1>4, <1>5
  <2> QED BY <1>1, <2>1, ButAll DEF Moves, Quiet
<1>6. CASE key.day < q.since /\ Advance(c, q) /\ db' = db
  <2>1. WaySkip(q, p) /\ Moves(q, p)
    BY <1>5, <1>6 DEF WaySkip
  <2> QED BY <2>1 DEF RowWay, q, p
<1>7. CASE ~(key.day < q.since) /\ (OpRow(c, q, row) \/ CouponRow(c, q, row)) /\ ~row.pair
  <2>1. \/ Advance(c, q) /\ db' = db
        \/ Advance(c, [q EXCEPT !.told = @ \cup {q.i}]) /\ db' = db
        \/ Advance(c, [q EXCEPT !.mine = @ \cup {key}]) /\ db' = db \cup {New(row)}
    BY <1>7 DEF OpRow, CouponRow, Insert, New
  <2>2. CASE Advance(c, q) /\ db' = db
    <3>1. WayPlain(q, p) /\ Moves(q, p)
      BY <1>5, <1>7, <2>2 DEF WayPlain
    <3> QED BY <1>7, <3>1 DEF RowWay, q, p
  <2>3. CASE Advance(c, [q EXCEPT !.told = @ \cup {q.i}]) /\ db' = db
    <3> DEFINE o == [q EXCEPT !.told = @ \cup {q.i}]
    <3>1. But(q, o, {"told"})
      BY <1>4, ButTold
    <3>2. Advance(c, o)
      BY <2>3
    <3> HIDE DEF o
    <3>3. But(o, p, {"i"}) /\ p.i = o.i + 1
      BY <1>3, <3>1, <3>2 DEF But
    <3>4. /\ o.at = "rows" /\ o.file = q.file /\ o.i = q.i /\ o.old = q.old /\ o.supplied = q.supplied
          /\ o.since = q.since /\ o.mine = q.mine /\ o.healed = q.healed /\ o.plans = q.plans
          /\ o.first = q.first
      BY <1>1, <3>1, ButAll
    <3>5. Moves(q, p) /\ Quiet(q, p) /\ p.plans = q.plans /\ p.healed = q.healed /\ p.mine = q.mine
      BY <3>3, <3>4, ButAll DEF Moves, Quiet
    <3>6. WayPlain(q, p)
      BY <1>7, <2>3, <3>5 DEF WayPlain
    <3> QED BY <1>7, <3>5, <3>6 DEF RowWay, q, p
  <2>4. CASE Advance(c, [q EXCEPT !.mine = @ \cup {key}]) /\ db' = db \cup {New(row)}
    <3> DEFINE o == [q EXCEPT !.mine = @ \cup {key}]
    <3>1. But(q, o, {"mine"}) /\ o.mine = q.mine \cup {key}
      BY <1>4, ButMine
    <3>2. Advance(c, o)
      BY <2>4
    <3> HIDE DEF o
    <3>3. But(o, p, {"i"}) /\ p.i = o.i + 1
      BY <1>3, <3>1, <3>2 DEF But
    <3>4. /\ o.at = "rows" /\ o.file = q.file /\ o.i = q.i /\ o.old = q.old /\ o.supplied = q.supplied
          /\ o.since = q.since /\ o.healed = q.healed /\ o.plans = q.plans
          /\ o.first = q.first
      BY <1>1, <3>1, ButAll
    <3>5. Moves(q, p) /\ Quiet(q, p) /\ p.plans = q.plans /\ p.healed = q.healed
          /\ p.mine = q.mine \cup {key}
      BY <3>1, <3>3, <3>4, ButAll DEF Moves, Quiet
    <3>6. WayPlain(q, p)
      BY <1>7, <2>4, <3>5 DEF WayPlain
    <3> QED BY <1>7, <3>5, <3>6 DEF RowWay, q, p
  <2> QED BY <2>1, <2>2, <2>3, <2>4
<1>8. CASE ~(key.day < q.since) /\ row.pair /\ key \in PairSeen(q) /\ db' = db
           /\ ~Orphan(q, key) /\ Advance(c, q)
  <2>1. WayFound(q, p) /\ Moves(q, p)
    BY <1>5, <1>8 DEF WayFound
  <2> QED BY <1>8, <2>1 DEF RowWay, q, p
<1>9. CASE ~(key.day < q.since) /\ row.pair /\ db' = db /\ Orphan(q, key)
           /\ Advance(c, LinkOrRemember([q EXCEPT !.healed = @ \cup {key}], n, OrphanId(q, key)))
  <2> DEFINE o == [q EXCEPT !.healed = @ \cup {key}]
             v == LinkOrRemember(o, n, OrphanId(q, key))
  <2>1. But(q, o, {"healed"}) /\ o.healed = q.healed \cup {key}
    BY <1>4, ButHealed
  <2>2. Advance(c, v)
    BY <1>9
  <2> HIDE DEF o
  <2>3. /\ IsRequest(o) /\ o.at = "rows" /\ o.file = q.file /\ o.i = q.i /\ o.old = q.old
        /\ o.supplied = q.supplied /\ o.since = q.since /\ o.plans = q.plans /\ o.first = q.first
        /\ o.mine = q.mine
    BY <1>1, <2>1, ButAll
  <2>4. But(o, v, {"first", "link", "at"}) /\ Remembers(o, v, n, OrphanId(q, key))
    BY <2>3, LinkIs
  <2> HIDE DEF v
  <2>5. /\ IsRequest(v) /\ v.file = q.file /\ v.i = q.i /\ v.old = q.old
        /\ v.supplied = q.supplied /\ v.since = q.since /\ v.plans = q.plans
        /\ v.mine = q.mine /\ v.healed = o.healed
    BY <2>3, <2>4, ButAll
  <2>6. But(v, p, {"i"}) /\ p.i = v.i + 1
    BY <1>3, <2>2, <2>5
  <2>7. Moves(q, p) /\ p.plans = q.plans /\ p.mine = q.mine /\ p.healed = q.healed \cup {key}
    BY <2>1, <2>5, <2>6, ButAll DEF Moves
  <2>8. p.first = v.first /\ p.at = v.at /\ p.link = v.link
    BY <2>6, ButAll
  <2>9. Remembers(q, p, n, OrphanId(q, key))
    BY <2>3, <2>4, <2>8, RemembersSame
  <2>10. WayHealed(q, p)
    BY <1>9, <2>7, <2>9 DEF WayHealed
  <2> QED BY <1>9, <2>7, <2>10 DEF RowWay, q, p
<1>10. CASE ~(key.day < q.since) /\ row.pair /\ key \notin PairSeen(q) /\ Goes(PlanPair(q, n), n)
            /\ Insert(q, row)
            /\ Advance(c, LinkOrRemember([PlanPair(q, n) EXCEPT !.mine = @ \cup {key}], n, NextId))
  <2> DEFINE planned == PlanPair(q, n)
             o == [planned EXCEPT !.mine = @ \cup {key}]
             v == LinkOrRemember(o, n, NextId)
  <2>1. But(q, planned, {"plans"}) /\ PlansFit(planned.plans, q.supplied) /\ n \in q.supplied
    BY <1>4, <1>10, PlanIs
  <2>2. Advance(c, v)
    BY <1>10
  <2> HIDE DEF planned
  <2>3. /\ IsRequest(planned) /\ planned.at = "rows" /\ planned.file = q.file /\ planned.i = q.i
        /\ planned.old = q.old /\ planned.supplied = q.supplied /\ planned.since = q.since
        /\ planned.first = q.first /\ planned.mine = q.mine /\ planned.healed = q.healed
    BY <1>1, <2>1, ButAll
  <2>4. But(planned, o, {"mine"}) /\ o.mine = planned.mine \cup {key}
    BY <2>3, ButMine
  <2> HIDE DEF o
  <2>5. /\ IsRequest(o) /\ o.at = "rows" /\ o.file = q.file /\ o.i = q.i /\ o.old = q.old
        /\ o.supplied = q.supplied /\ o.since = q.since /\ o.plans = planned.plans /\ o.first = q.first
        /\ o.mine = q.mine \cup {key} /\ o.healed = q.healed
    BY <2>3, <2>4, ButAll
  <2>6. But(o, v, {"first", "link", "at"}) /\ Remembers(o, v, n, NextId)
    BY <2>5, LinkIs
  <2> HIDE DEF v
  <2>7. /\ IsRequest(v) /\ v.file = q.file /\ v.i = q.i /\ v.old = q.old
        /\ v.supplied = q.supplied /\ v.since = q.since /\ v.plans = planned.plans
        /\ v.mine = q.mine \cup {key} /\ v.healed = q.healed
    BY <2>5, <2>6, ButAll
  <2>8. But(v, p, {"i"}) /\ p.i = v.i + 1
    BY <1>3, <2>2, <2>7
  <2>9. Moves(q, p) /\ p.plans = planned.plans /\ p.mine = q.mine \cup {key} /\ p.healed = q.healed
    BY <2>7, <2>8, ButAll DEF Moves
  <2>10. p.first = v.first /\ p.at = v.at /\ p.link = v.link
    BY <2>8, ButAll
  <2>11. Remembers(q, p, n, NextId)
    BY <2>5, <2>6, <2>10, RemembersSame
  <2>12. WayWritten(q, p)
    BY <1>10, <2>1, <2>9, <2>11 DEF WayWritten, Insert, New
  <2> QED BY <1>10, <2>9, <2>12 DEF RowWay, q, p
<1>11. CASE ~(key.day < q.since) /\ row.pair /\ key \notin PairSeen(q) /\ ~Goes(PlanPair(q, n), n)
            /\ db' = db
            /\ \E w : Advance(c, [PlanPair(q, n) EXCEPT !.told = w])
  <2> DEFINE planned == PlanPair(q, n)
  <2>1. PICK w : Advance(c, [planned EXCEPT !.told = w])
    BY <1>11
  <2> DEFINE o == [planned EXCEPT !.told = w]
  <2>2. But(q, planned, {"plans"}) /\ PlansFit(planned.plans, q.supplied) /\ n \notin q.supplied
    BY <1>4, <1>11, PlanIs
  <2> HIDE DEF planned
  <2>3. /\ IsRequest(planned) /\ planned.at = "rows" /\ planned.file = q.file /\ planned.i = q.i
        /\ planned.old = q.old /\ planned.supplied = q.supplied /\ planned.since = q.since
        /\ planned.first = q.first /\ planned.mine = q.mine /\ planned.healed = q.healed
    BY <1>1, <2>2, ButAll
  <2>4. But(planned, o, {"told"})
    BY <2>3, ButTold
  <2>5. Advance(c, o)
    BY <2>1
  <2> HIDE DEF o
  <2>6. /\ IsRequest(o) /\ o.at = "rows" /\ o.file = q.file /\ o.i = q.i /\ o.old = q.old
        /\ o.supplied = q.supplied /\ o.since = q.since /\ o.plans = planned.plans /\ o.first = q.first
        /\ o.mine = q.mine /\ o.healed = q.healed
    BY <2>3, <2>4, ButAll
  <2>7. But(o, p, {"i"}) /\ p.i = o.i + 1
    BY <1>3, <2>5, <2>6
  <2>8. Moves(q, p) /\ Quiet(q, p) /\ p.plans = planned.plans /\ p.mine = q.mine /\ p.healed = q.healed
    BY <2>6, <2>7, ButAll DEF Moves, Quiet
  <2>9. WayPutOff(q, p)
    BY <1>11, <2>2, <2>8 DEF WayPutOff
  <2> QED BY <1>11, <2>8, <2>9 DEF RowWay, q, p
<1>12. ASSUME LegRow(c, q, row)
       PROVE  /\ row.pair
              /\ \/ key \in PairSeen(q) /\ db' = db /\ ~Orphan(q, key) /\ Advance(c, q)
                 \/ /\ db' = db /\ Orphan(q, key)
                    /\ Advance(c, LinkOrRemember([q EXCEPT !.healed = @ \cup {key}], n, OrphanId(q, key)))
                 \/ /\ key \notin PairSeen(q) /\ Goes(PlanPair(q, n), n) /\ Insert(q, row)
                    /\ Advance(c, LinkOrRemember([PlanPair(q, n) EXCEPT !.mine = @ \cup {key}], n, NextId))
                 \/ /\ key \notin PairSeen(q) /\ ~Goes(PlanPair(q, n), n) /\ db' = db
                    /\ \E w : Advance(c, [PlanPair(q, n) EXCEPT !.told = w])
  BY <1>12 DEF LegRow
<1>13. ASSUME OpRow(c, q, row) PROVE ~row.pair
  BY <1>13 DEF OpRow
<1>14. ASSUME CouponRow(c, q, row), row.pair PROVE FALSE
  BY <1>4, <1>14 DEF CouponRow
<1> QED BY <1>2, <1>6, <1>7, <1>8, <1>9, <1>10, <1>11, <1>12, <1>13, <1>14

-----------------------------------------------------------------------------
(* Lines that stay, and the conversions that they are of.                  *)

(* Where the lines of its legs stay, a conversion stays as it is.          *)
LEMMA StateSame ==
  ASSUME NEW rs, NEW rt, NEW n, SameLegs(rs, rt, n)
  PROVE  /\ NoLeg(rs, n) => NoLeg(rt, n)
         /\ Linked(rs, n) => Linked(rt, n)
         /\ \A a \in rs : Half(rs, n, a) => a \in rt /\ Half(rt, n, a)
         /\ \A a, b \in rs : Loose(rs, n, a, b) => a \in rt /\ b \in rt /\ Loose(rt, n, a, b)
<1>1. NoLeg(rs, n) => NoLeg(rt, n)
  BY DEF NoLeg, SameLegs
<1>2. ASSUME NEW a \in rs, Half(rs, n, a) PROVE a \in rt /\ Half(rt, n, a)
  <2>1. a \in LinesOf(rt, SaleKey(n))
    BY <1>2 DEF Half, SameLegs
  <2> QED BY <1>2, <2>1 DEF Half, SameLegs, LinesOf
<1>3. ASSUME NEW a \in rs, NEW b \in rs, Both(rs, n, a, b) PROVE a \in rt /\ b \in rt /\ Both(rt, n, a, b)
  <2>1. a \in LinesOf(rt, SaleKey(n)) /\ b \in LinesOf(rt, BuyKey(n))
    BY <1>3 DEF Both, SameLegs
  <2>2. a \in rt /\ b \in rt
    BY <2>1 DEF LinesOf
  <2> QED BY <1>3, <2>2 DEF Both, SameLegs
<1>4. Linked(rs, n) => Linked(rt, n)
  BY <1>3 DEF Linked
<1>5. \A a, b \in rs : Loose(rs, n, a, b) => a \in rt /\ b \in rt /\ Loose(rt, n, a, b)
  BY <1>3 DEF Loose
<1> QED BY <1>1, <1>2, <1>4, <1>5

(* As StateSame, for what an import leaves.                                *)
LEMMA KeptSame ==
  ASSUME NEW rs, NEW rt, NEW n, SameLegs(rs, rt, n), NEW s, NEW sup, Kept(s, rs, sup, n)
  PROVE  Kept(s, rt, sup, n)
<1>1. AtRest(rt, n)
  BY StateSame DEF Kept, AtRest
<1> QED BY <1>1, StateSame DEF Kept

(* What the user has entered since does no harm.                           *)
LEMMA KeptMore ==
  ASSUME NEW rs, NEW n, NEW s, NEW sup, NEW more, sup \subseteq more, Kept(s, rs, sup, n)
  PROVE  Kept(s, rs, more, n)
BY DEF Kept

(* The states of a conversion exclude each other.                          *)
Ids(rs) == \A r \in rs : r.id # 0
LEMMA Apart ==
  ASSUME NEW rs, Ids(rs), NEW n
  PROVE  /\ Linked(rs, n) => ~NoLeg(rs, n) /\ \A a, b \in rs : ~Loose(rs, n, a, b) /\ ~Half(rs, n, a)
         /\ NoLeg(rs, n) => \A a, b \in rs : ~Loose(rs, n, a, b) /\ ~Half(rs, n, a)
         /\ \A a, b, x \in rs : ~(Loose(rs, n, a, b) /\ Half(rs, n, x))
<1>1. ASSUME NEW a \in rs, NEW b \in rs, Both(rs, n, a, b)
      PROVE  a \in LinesOf(rs, SaleKey(n)) /\ b \in LinesOf(rs, BuyKey(n))
  BY <1>1 DEF Both
<1>2. ASSUME NoLeg(rs, n), NEW a \in rs, NEW b \in rs, Both(rs, n, a, b) PROVE FALSE
  BY <1>1, <1>2 DEF NoLeg
<1>3. ASSUME NoLeg(rs, n), NEW a \in rs, Half(rs, n, a) PROVE FALSE
  BY <1>3 DEF NoLeg, Half
<1>4. ASSUME NEW x \in rs, Half(rs, n, x), NEW a \in rs, NEW b \in rs, Both(rs, n, a, b) PROVE FALSE
  BY <1>1, <1>4 DEF Half
<1>5. ASSUME NEW a \in rs, NEW b \in rs, Loose(rs, n, a, b),
             NEW x \in rs, NEW y \in rs, Both(rs, n, x, y), x.pair = y.id PROVE FALSE
  <2>1. a = x /\ b = y
    BY <1>5 DEF Loose, Both
  <2> QED BY <1>5, <2>1 DEF Loose, Ids
<1> QED BY <1>2, <1>3, <1>4, <1>5 DEF Linked, Loose

(* A row of something else.                                                *)
Elsewhere(q, p, n) ==
  /\ p.old = q.old /\ p.since = q.since /\ p.supplied = q.supplied /\ First(p, n) = First(q, n)
  /\ DoneKey(p, SaleKey(n)) <=> DoneKey(q, SaleKey(n))
  /\ DoneKey(p, BuyKey(n)) <=> DoneKey(q, BuyKey(n))
(* A row of something else moves no conversion.                            *)
LEMMA FollowsSame ==
  ASSUME NEW q, NEW p, NEW rs, NEW rt, NEW n, Elsewhere(q, p, n), SameLegs(rs, rt, n),
         Follows(q, rs, n), ~Linking(q, rs, n)
  PROVE  Follows(p, rt, n)
<1>1. CASE Ahead(q, rs, n)
  <2>1. SameLegs(p.old, rt, n)
    BY <1>1 DEF Ahead, SameLegs, Elsewhere
  <2>2. Kept(p.since, rt, p.supplied, n)
    BY <1>1, KeptSame DEF Ahead, Elsewhere
  <2> QED BY <1>1, <2>1, <2>2 DEF Ahead, Elsewhere, Follows
<1>2. CASE Between(q, rs, n)
  <2>1. LinesOf(p.old, BuyKey(n)) = LinesOf(rt, BuyKey(n))
    BY <1>2 DEF Between, SameLegs, Elsewhere
  <2>2. Kept(p.since, rt, p.supplied, n)
    BY <1>2, KeptSame DEF Between, Elsewhere
  <2>3. \/ Linked(rt, n)
        \/ NoLeg(rt, n) /\ n \notin p.supplied /\ First(p, n) = {}
        \/ \E a \in rt : Half(rt, n, a) /\ First(p, n) = {Line(n, a.id)}
        \/ \E a, b \in rt : Loose(rt, n, a, b) /\ First(p, n) = {Line(n, a.id)}
    <3>1. CASE Linked(rs, n)
      BY <3>1, StateSame
    <3>2. CASE NoLeg(rs, n) /\ n \notin q.supplied /\ First(q, n) = {}
      BY <3>2, StateSame DEF Elsewhere
    <3>3. CASE \E a \in rs : Half(rs, n, a) /\ First(q, n) = {Line(n, a.id)}
      BY <3>3, StateSame DEF Elsewhere
    <3>4. CASE \E a, b \in rs : Loose(rs, n, a, b) /\ First(q, n) = {Line(n, a.id)}
      BY <3>4, StateSame DEF Elsewhere
    <3> QED BY <1>2, <3>1, <3>2, <3>3, <3>4 DEF Between
  <2> QED BY <1>2, <2>1, <2>2, <2>3 DEF Between, Elsewhere, Follows
<1>3. CASE Behind(q, rs, n)
  <2>1. Linked(rs, n) \/ (NoLeg(rs, n) /\ ~(history[n].sold < q.since))
    BY <1>3 DEF Behind
  <2>2. NoLeg(rt, n) \/ n \in p.supplied
    <3>1. SameLegs(rt, rs, n)
      BY DEF SameLegs
    <3>2. NoLeg(rs, n) => NoLeg(rt, n)
      BY StateSame
    <3> QED BY <1>3, <3>2 DEF Behind, Elsewhere
  <2>3. Linked(rt, n) \/ (NoLeg(rt, n) /\ ~(history[n].sold < p.since))
    BY <2>1, StateSame DEF Elsewhere
  <2> QED BY <1>3, <2>2, <2>3 DEF Behind, Elsewhere, Follows
<1> QED BY <1>1, <1>2, <1>3 DEF Follows

-----------------------------------------------------------------------------
(* A row of a conversion.                                                  *)

Steady(q) ==
  /\ history \in Histories /\ LegsDistinct /\ SoldFirst /\ Numbered(db)
  /\ FromFile(q) /\ IsRequest(q) /\ q.at = "rows" /\ q.i \in 1..Len(q.file) /\ Tidy(q)
  /\ q.since \in 0..LastDay /\ LastDay \in Nat

(* One row further, one key more is behind.                                *)
LEMMA DoneNext ==
  ASSUME history \in Histories, NEW q, NEW p, FromFile(q), q.i \in 1..Len(q.file), Moves(q, p), NEW key
  PROVE  DoneKey(p, key) <=> DoneKey(q, key) \/ q.file[q.i].key = key
<1>1. Len(q.file) \in Nat
  BY FileIs
<1>2. \A i \in 1..Len(q.file) : i < q.i + 1 <=> i < q.i \/ i = q.i
  BY <1>1
<1> QED BY <1>2 DEF DoneKey, Moves

(* What the import remembers of a leg is the line it has.                  *)
LEMMA RememberedFirst ==
  ASSUME NEW q, NEW p, NEW n, NEW id, Remembers(q, p, n, id)
  PROVE  /\ First(q, n) = {} => First(p, n) = {Line(n, id)} /\ p.at = "rows"
         /\ \A m : m # n => First(p, m) = First(q, m)
<1>1. Line(n, id).event = n
  BY DEF Line
<1> HIDE DEF Line
<1>2. CASE First(q, n) = {} /\ p.first = q.first \cup {Line(n, id)} /\ p.at = "rows"
  BY <1>1, <1>2 DEF First
<1>3. CASE First(q, n) # {} /\ p.first = q.first
  BY <1>3 DEF First
<1> QED BY <1>2, <1>3 DEF Remembers

(* The leg that orphanLeg finds is the half that stands in the journal.    *)
LEMMA OrphanIdIs ==
  ASSUME NEW q, NEW key, NEW a, LinesOf(q.old, key) = {a}, a.pair = 0, a.id \in Nat
  PROVE  OrphanId(q, key) = a.id
<1> DEFINE S == {r.id : r \in {x \in q.old : x.key = key /\ x.pair = 0}}
<1>1. S = {a.id}
  BY DEF LinesOf
<1>2. OrphanId(q, key) = Greatest(S)
  BY DEF OrphanId
<1> HIDE DEF S
<1>3. Greatest(S) \in S
  BY <1>1, GreatestIs
<1> QED BY <1>1, <1>2, <1>3

(* What a request that comes to a leg knows of it.                         *)
LEMMA LegSeen ==
  ASSUME NEW q, Tidy(q), NEW key, ~DoneKey(q, key)
  PROVE  /\ key \in PairSeen(q) <=> LinesOf(q.old, key) # {}
         /\ Orphan(q, key) <=> \E r \in LinesOf(q.old, key) : r.pair = 0
<1>1. key \notin q.mine /\ key \notin q.healed
  BY DEF Tidy
<1> QED BY <1>1 DEF PairSeen, Keys, Orphan, LinesOf

(* A line of a leg has an id, and only one line has it.                    *)
LEMMA IdsAre ==
  ASSUME Numbered(db) PROVE Ids(db) /\ (\A r \in db : r.id \in Nat) /\ NextId \in Nat \ {0}
<1>1. Cardinality(db) \in Nat
  BY FS_CardinalityType DEF Numbered
<1> QED BY <1>1 DEF Numbered, Ids, NextId

(* The sale of a conversion.                                               *)
LEMMA SaleRow ==
  ASSUME NEW q, Steady(q), NEW p, NEW rt, rt = db', RowWay(q, p), NEW n \in PairEvents,
         q.file[q.i] = Sale(history, n), Follows(q, db, n)
  PROVE  Between(p, rt, n) /\ p.at = "rows"
<1>1. Ahead(q, db, n)
  BY AtSale DEF Follows, Between, Behind, Steady
<1>2. q.file[q.i].key = SaleKey(n) /\ q.file[q.i].event = n
  BY SaleIs DEF SaleKey
<1>3. q.file[q.i].pair
  BY DEF Sale, Row
<1>4. Moves(q, p)
  BY DEF RowWay
<1>5. ~DoneKey(q, SaleKey(n)) /\ ~DoneKey(q, BuyKey(n))
  BY <1>1 DEF Ahead
<1>6. DoneKey(p, SaleKey(n)) /\ ~DoneKey(p, BuyKey(n))
  BY <1>2, <1>4, <1>5, DoneNext, KeysDiffer DEF Steady
<1>7. p.old = q.old /\ p.since = q.since /\ p.supplied = q.supplied
  BY <1>4 DEF Moves
<1>8. LinesOf(q.old, SaleKey(n)) = LinesOf(db, SaleKey(n)) /\ LinesOf(q.old, BuyKey(n)) = LinesOf(db, BuyKey(n))
  BY <1>1 DEF Ahead, SameLegs
<1>9. /\ SaleKey(n) \in PairSeen(q) <=> LinesOf(db, SaleKey(n)) # {}
      /\ Orphan(q, SaleKey(n)) <=> \E r \in LinesOf(db, SaleKey(n)) : r.pair = 0
  BY <1>5, <1>8, LegSeen DEF Steady
<1>10. Kept(q.since, db, q.supplied, n) /\ First(q, n) = {}
  BY <1>1 DEF Ahead
<1>11. SaleKey(n).day = history[n].sold
  BY KeysDiffer
<1>12. Ids(db) /\ (\A r \in db : r.id \in Nat) /\ NextId \in Nat \ {0}
  BY IdsAre DEF Steady
<1> DEFINE Goal == \/ Linked(rt, n)
                   \/ NoLeg(rt, n) /\ n \notin q.supplied /\ First(p, n) = {}
                   \/ \E a \in rt : Half(rt, n, a) /\ First(p, n) = {Line(n, a.id)}
<1>13. ASSUME Goal, LinesOf(rt, BuyKey(n)) = LinesOf(db, BuyKey(n)), Kept(q.since, rt, q.supplied, n)
       PROVE  Between(p, rt, n)
  BY <1>6, <1>7, <1>8, <1>13 DEF Between
<1>14. ASSUME rt = db, Goal PROVE Between(p, rt, n)
  BY <1>10, <1>13, <1>14
<1>15. CASE WaySkip(q, p)
  <2>1. Linked(db, n)
    BY <1>2, <1>10, <1>11, <1>15 DEF WaySkip, Kept
  <2> QED BY <1>14, <1>15, <2>1 DEF WaySkip, Quiet
<1>16. CASE WayFound(q, p)
  <2>1. LinesOf(db, SaleKey(n)) # {} /\ \A r \in LinesOf(db, SaleKey(n)) : r.pair # 0
    BY <1>2, <1>9, <1>16 DEF WayFound
  <2>2. ~NoLeg(db, n) /\ \A a, b \in db : ~Half(db, n, a) /\ ~Loose(db, n, a, b)
    BY <2>1 DEF NoLeg, Half, Loose, Both
  <2>3. Linked(db, n)
    BY <1>10, <2>2 DEF Kept, AtRest
  <2> QED BY <1>14, <1>16, <2>3 DEF WayFound, Quiet
<1>17. CASE WayHealed(q, p)
  <2>1. PICK r \in LinesOf(db, SaleKey(n)) : r.pair = 0
    BY <1>2, <1>9, <1>17 DEF WayHealed
  <2>2. r \in db
    BY <2>1 DEF LinesOf
  <2>3. ~NoLeg(db, n)
    BY <2>1 DEF NoLeg
  <2>4. ~Linked(db, n)
    <3> SUFFICES ASSUME NEW a \in db, NEW b \in db, Both(db, n, a, b), a.pair = b.id PROVE FALSE
      BY DEF Linked
    <3>1. r = a
      BY <2>1 DEF Both
    <3> QED BY <1>12, <2>1, <3>1 DEF Ids
  <2>5. PICK a \in db : LinesOf(db, SaleKey(n)) = {a} /\ a.pair = 0
    BY <1>10, <2>3, <2>4 DEF Kept, AtRest, Half, Loose, Both
  <2>6. OrphanId(q, SaleKey(n)) = a.id
    BY <1>8, <1>12, <2>5, OrphanIdIs
  <2>7. First(p, n) = {Line(n, a.id)} /\ p.at = "rows"
    BY <1>2, <1>10, <1>17, <2>6, RememberedFirst DEF WayHealed
  <2>8. rt = db
    BY <1>17 DEF WayHealed
  <2>9. \/ \E x \in db : Half(db, n, x) /\ First(p, n) = {Line(n, x.id)}
        \/ \E x, y \in db : Loose(db, n, x, y) /\ First(p, n) = {Line(n, x.id)}
    <3>1. CASE \E x \in db : Half(db, n, x)
      <4>1. PICK x \in db : Half(db, n, x)
        BY <3>1
      <4>2. x = a
        BY <2>5, <4>1 DEF Half
      <4> QED BY <2>7, <4>1, <4>2
    <3>2. CASE \E x, y \in db : Loose(db, n, x, y)
      <4>1. PICK x \in db, y \in db : Loose(db, n, x, y)
        BY <3>2
      <4>2. x = a
        BY <2>5, <4>1 DEF Loose, Both
      <4> QED BY <2>7, <4>1, <4>2
    <3> QED BY <1>10, <2>3, <2>4, <3>1, <3>2 DEF Kept, AtRest
  <2> HIDE DEF Goal
  <2> QED BY <1>6, <1>7, <1>8, <1>10, <2>7, <2>8, <2>9 DEF Between
<1>18. CASE WayWritten(q, p) /\ ~(q.file[q.i].key.day < q.since)
  <2> DEFINE x == New(q.file[q.i])
  <2>1. LinesOf(db, SaleKey(n)) = {} /\ n \in q.supplied /\ rt = db \cup {x}
    BY <1>2, <1>9, <1>18 DEF WayWritten
  <2>2. x.key = SaleKey(n) /\ x.pair = 0 /\ x.id = NextId
    BY <1>2 DEF New
  <2> HIDE DEF x
  <2>3. NoLeg(db, n)
    BY <1>10, <2>1 DEF Kept, AtRest, Half, Loose, Both, Linked
  <2>9. /\ \A key : key # x.key => LinesOf(rt, key) = LinesOf(db, key)
        /\ LinesOf(db, x.key) = {} => LinesOf(rt, x.key) = {x}
    <3>1. rt = db \cup {x}
      BY <2>1
    <3> QED BY ONLY <3>1 DEF LinesOf
  <2>4. LinesOf(rt, SaleKey(n)) = {x}
    BY <2>1, <2>2, <2>9
  <2>5. LinesOf(rt, BuyKey(n)) = LinesOf(db, BuyKey(n))
    BY <2>2, <2>9, KeysDiffer
  <2>6. Half(rt, n, x) /\ x \in rt
    BY <2>1, <2>2, <2>3, <2>4, <2>5 DEF Half, NoLeg
  <2>7. First(p, n) = {Line(n, x.id)} /\ p.at = "rows"
    BY <1>2, <1>10, <1>18, <2>2, RememberedFirst DEF WayWritten
  <2>8. Kept(q.since, rt, q.supplied, n)
    BY <1>2, <1>11, <1>18, <2>1, <2>6 DEF Kept, AtRest
  <2> QED BY <1>13, <2>5, <2>6, <2>7, <2>8
<1>19. CASE WayPutOff(q, p)
  <2>1. n \notin q.supplied
    BY <1>2, <1>19 DEF WayPutOff
  <2>2. NoLeg(db, n)
    BY <1>10, <2>1 DEF Kept
  <2>3. First(p, n) = {}
    BY <1>10, <1>19 DEF WayPutOff, Quiet, First
  <2> QED BY <1>14, <1>19, <2>1, <2>2, <2>3 DEF WayPutOff, Quiet
<1> QED BY <1>3, <1>15, <1>16, <1>17, <1>18, <1>19 DEF RowWay, WayPlain

(* The purchase of a conversion.                                           *)
LEMMA PurchaseRow ==
  ASSUME NEW q, Steady(q), NEW p, NEW rt, rt = db', RowWay(q, p), NEW n \in PairEvents,
         q.file[q.i] = Buy(n), Follows(q, db, n)
  PROVE  Behind(p, rt, n) /\ (p.at = "rows" \/ (p.at = "link" /\ Linking(p, rt, n)))
<1>1. Between(q, db, n)
  BY AtPurchase DEF Follows, Ahead, Behind, Steady
<1>2. q.file[q.i].key = BuyKey(n) /\ q.file[q.i].event = n
  BY PurchaseIs DEF BuyKey
<1>3. q.file[q.i].pair
  BY DEF Buy, Row
<1>4. Moves(q, p)
  BY DEF RowWay
<1>5. DoneKey(q, SaleKey(n)) /\ ~DoneKey(q, BuyKey(n))
  BY <1>1 DEF Between
<1>6. DoneKey(p, SaleKey(n)) /\ DoneKey(p, BuyKey(n))
  BY <1>2, <1>4, <1>5, DoneNext DEF Steady
<1>7. p.old = q.old /\ p.since = q.since /\ p.supplied = q.supplied
  BY <1>4 DEF Moves
<1>8. LinesOf(q.old, BuyKey(n)) = LinesOf(db, BuyKey(n))
  BY <1>1 DEF Between
<1>9. /\ BuyKey(n) \in PairSeen(q) <=> LinesOf(db, BuyKey(n)) # {}
      /\ Orphan(q, BuyKey(n)) <=> \E r \in LinesOf(db, BuyKey(n)) : r.pair = 0
  BY <1>5, <1>8, LegSeen DEF Steady
<1>10. Kept(q.since, db, q.supplied, n)
  BY <1>1 DEF Between
<1>11. \/ Linked(db, n)
       \/ NoLeg(db, n) /\ n \notin q.supplied
       \/ \E a \in db : Half(db, n, a) /\ First(q, n) = {Line(n, a.id)}
       \/ \E a, b \in db : Loose(db, n, a, b) /\ First(q, n) = {Line(n, a.id)}
  BY <1>1 DEF Between
<1>12. Ids(db) /\ (\A r \in db : r.id \in Nat) /\ NextId \in Nat \ {0}
  BY IdsAre DEF Steady
<1>13. BuyKey(n).day = history[n].day /\ history[n].sold <= history[n].day
  BY KeysDiffer DEF Steady, SoldFirst, PairEvents
<1>14. ASSUME ~Linked(db, n) PROVE ~(history[n].sold < q.since)
  BY <1>10, <1>14 DEF Kept
<1>15. NoLeg(db, n) \/ n \in q.supplied
  BY <1>10 DEF Kept
<1>16. ASSUME rt = db, p.at = "rows", Linked(db, n) \/ (NoLeg(db, n) /\ ~(history[n].sold < q.since))
       PROVE  Behind(p, rt, n) /\ p.at = "rows"
  BY <1>6, <1>7, <1>15, <1>16 DEF Behind
<1>17. ASSUME NEW a \in rt, NEW b \in rt, Loose(rt, n, a, b), p.at = "link", p.link = <<a.id, b.id>>,
              n \in q.supplied, ~(history[n].sold < q.since)
       PROVE  Behind(p, rt, n) /\ p.at = "link" /\ Linking(p, rt, n)
  <2>1. Linking(p, rt, n)
    BY <1>17 DEF Linking
  <2> QED BY <1>6, <1>7, <1>17, <2>1 DEF Behind
<1>18. CASE WaySkip(q, p)
  <2>1. history[n].sold < q.since
    <3>1. history[n].day < q.since
      BY <1>2, <1>13, <1>18 DEF WaySkip
    <3>2. PICK s \in Int : s = history[n].sold
      BY HistoryIs DEF Steady, PairEvents
    <3>3. PICK d \in Int : d = history[n].day
      BY HistoryIs DEF Steady, PairEvents
    <3>4. q.since \in Int
      BY DEF Steady
    <3> QED BY <1>13, <3>1, <3>2, <3>3, <3>4
  <2>2. Linked(db, n)
    BY <1>14, <2>1
  <2> QED BY <1>16, <1>18, <2>2 DEF WaySkip, Quiet
<1>19. CASE WayFound(q, p)
  <2>1. LinesOf(db, BuyKey(n)) # {} /\ \A r \in LinesOf(db, BuyKey(n)) : r.pair # 0
    BY <1>2, <1>9, <1>19 DEF WayFound
  <2>2. ~NoLeg(db, n) /\ \A a, b \in db : ~Half(db, n, a) /\ ~Loose(db, n, a, b)
    BY <2>1 DEF NoLeg, Half, Loose, Both
  <2>3. Linked(db, n)
    BY <1>11, <2>2
  <2> QED BY <1>16, <1>19, <2>3 DEF WayFound, Quiet
<1>20. CASE WayHealed(q, p)
  <2>1. PICK r \in LinesOf(db, BuyKey(n)) : r.pair = 0
    BY <1>2, <1>9, <1>20 DEF WayHealed
  <2>2. r \in db
    BY <2>1 DEF LinesOf
  <2>3. ~NoLeg(db, n) /\ \A a \in db : ~Half(db, n, a)
    BY <2>1 DEF NoLeg, Half
  <2>4. ~Linked(db, n)
    <3> SUFFICES ASSUME NEW a \in db, NEW b \in db, Both(db, n, a, b), b.pair = a.id PROVE FALSE
      BY DEF Linked
    <3>1. r = b
      BY <2>1 DEF Both
    <3> QED BY <1>12, <2>1, <3>1 DEF Ids
  <2>5. PICK a \in db, b \in db : Loose(db, n, a, b) /\ First(q, n) = {Line(n, a.id)}
    BY <1>11, <2>3, <2>4
  <2>6. OrphanId(q, BuyKey(n)) = b.id
    <3>1. LinesOf(q.old, BuyKey(n)) = {b} /\ b.pair = 0 /\ b.id \in Nat
      BY <1>8, <1>12, <2>5 DEF Loose, Both
    <3> QED BY <3>1, OrphanIdIs
  <2>7. rt = db /\ Remembers(q, p, n, b.id)
    BY <1>2, <1>20, <2>6 DEF WayHealed
  <2>8. p.at = "link" /\ p.link = <<a.id, b.id>>
    <3>1. Line(n, a.id).id = a.id
      BY DEF Line
    <3>2. PICK f \in First(q, n) : p.at = "link" /\ p.link = <<f.id, b.id>>
      BY <2>5, <2>7 DEF Remembers
    <3>3. f = Line(n, a.id)
      BY <2>5, <3>2
    <3> QED BY <3>1, <3>2, <3>3
  <2>9. n \in q.supplied /\ ~(history[n].sold < q.since)
    BY <1>14, <1>15, <2>3, <2>4
  <2> QED BY <1>17, <2>5, <2>7, <2>8, <2>9
<1>21. CASE WayWritten(q, p) /\ ~(q.file[q.i].key.day < q.since)
  <2> DEFINE x == New(q.file[q.i])
  <2>1. LinesOf(db, BuyKey(n)) = {} /\ n \in q.supplied /\ rt = db \cup {x}
    BY <1>2, <1>9, <1>21 DEF WayWritten
  <2>2. x.key = BuyKey(n) /\ x.pair = 0 /\ x.id = NextId
    BY <1>2 DEF New
  <2> HIDE DEF x
  <2>3. ~Linked(db, n) /\ \A a, b \in db : ~Loose(db, n, a, b)
    BY <2>1 DEF Loose, Both, Linked
  <2>4. PICK a \in db : Half(db, n, a) /\ First(q, n) = {Line(n, a.id)}
    BY <1>11, <2>1, <2>3
  <2>5. /\ \A key : key # x.key => LinesOf(rt, key) = LinesOf(db, key)
        /\ LinesOf(db, x.key) = {} => LinesOf(rt, x.key) = {x}
    <3>1. rt = db \cup {x}
      BY <2>1
    <3> QED BY ONLY <3>1 DEF LinesOf
  <2>6. LinesOf(rt, BuyKey(n)) = {x}
    BY <2>1, <2>2, <2>5
  <2>7. LinesOf(rt, SaleKey(n)) = LinesOf(db, SaleKey(n))
    BY <2>2, <2>5, KeysDiffer
  <2>8. Loose(rt, n, a, x) /\ a \in rt /\ x \in rt
    BY <2>1, <2>2, <2>4, <2>6, <2>7 DEF Half, Loose, Both
  <2>9. Remembers(q, p, n, x.id)
    BY <1>2, <1>21, <2>2 DEF WayWritten
  <2>10. p.at = "link" /\ p.link = <<a.id, x.id>>
    <3>1. Line(n, a.id).id = a.id
      BY DEF Line
    <3>2. PICK f \in First(q, n) : p.at = "link" /\ p.link = <<f.id, x.id>>
      BY <2>4, <2>9 DEF Remembers
    <3>3. f = Line(n, a.id)
      BY <2>4, <3>2
    <3> QED BY <3>1, <3>2, <3>3
  <2> QED BY <1>14, <1>17, <2>1, <2>3, <2>8, <2>10
<1>22. CASE WayPutOff(q, p)
  <2>1. n \notin q.supplied
    BY <1>2, <1>22 DEF WayPutOff
  <2>2. NoLeg(db, n)
    BY <1>15, <2>1
  <2>3. ~Linked(db, n)
    BY <1>12, <2>2, Apart
  <2> QED BY <1>14, <1>16, <1>22, <2>2, <2>3 DEF WayPutOff, Quiet
<1> QED BY <1>3, <1>18, <1>19, <1>20, <1>21, <1>22 DEF RowWay, WayPlain

(* What the import remembers after a row.                                  *)
LEMMA RowTidy ==
  ASSUME NEW q, Steady(q), NEW p, RowWay(q, p) PROVE Tidy(p)
<1>1. Moves(q, p) /\ PlansFit(q.plans, q.supplied) /\ \A key \in q.healed \cup q.mine : DoneKey(q, key)
  BY DEF RowWay, Steady, Tidy
<1>2. PlansFit(p.plans, p.supplied)
  BY <1>1 DEF RowWay, Moves, WaySkip, WayPlain, WayFound, WayHealed, WayWritten, WayPutOff
<1>3. p.healed \cup p.mine \subseteq (q.healed \cup q.mine) \cup {q.file[q.i].key}
  BY DEF RowWay, WaySkip, WayPlain, WayFound, WayHealed, WayWritten, WayPutOff
<1>4. \A key : DoneKey(p, key) <=> DoneKey(q, key) \/ q.file[q.i].key = key
  BY <1>1, DoneNext DEF Steady
<1>5. \A key \in p.healed \cup p.mine : DoneKey(p, key)
  BY <1>1, <1>3, <1>4
<1> QED BY <1>2, <1>5 DEF Tidy

(* The row at hand is a leg of the conversion, or has nothing to do with   *)
(* it.                                                                     *)
LEMMA RowIsLeg ==
  ASSUME NEW q, Steady(q), NEW n \in PairEvents
  PROVE  \/ q.file[q.i] = Sale(history, n)
         \/ q.file[q.i] = Buy(n)
         \/ /\ q.file[q.i].event # n
            /\ q.file[q.i].key # SaleKey(n) /\ q.file[q.i].key # BuyKey(n)
<1> DEFINE row == q.file[q.i]
<1>1. PICK u \in Days : q.file = ParseInzhur(u)
  BY DEF Steady, FromFile
<1>2. row \in RowsOf(history, row.event, u)
  BY <1>1, RowKnown DEF Steady
<1>3. CASE row.event = n
  <2>1. RowsOf(history, n, u) = {Sale(history, n), Buy(n)}
    BY RowsOfPair
  <2> QED BY <1>2, <1>3, <2>1
<1>4. CASE row.event # n
  <2>1. row.key = SaleKey(n) => row = Sale(history, n)
    BY LegInFile DEF Steady
  <2>2. row.key = BuyKey(n) => row = Buy(n)
    BY LegInFile DEF Steady
  <2> QED BY <1>4, <2>1, <2>2
<1> QED BY <1>3, <1>4

(* A row of a conversion is a leg of one of those, or has none of their    *)
(* keys.                                                                   *)
LEMMA PairRow ==
  ASSUME history \in Histories, LegsDistinct, NEW q, FromFile(q), NEW i \in 1..Len(q.file)
  PROVE  \/ \E n \in PairEvents : q.file[i] = Sale(history, n) \/ q.file[i] = Buy(n)
         \/ q.file[i].event \notin PairEvents /\ Foreign(q.file[i].key)
<1>1. PICK u \in Days : q.file = ParseInzhur(u)
  BY DEF FromFile
<1>2. CASE q.file[i].event \in PairEvents
  <2>1. q.file[i] \in RowsOf(history, q.file[i].event, u)
    BY <1>1, RowKnown
  <2> QED BY <1>2, <2>1, RowsOfPair
<1>3. CASE q.file[i].event \notin PairEvents
  <2>1. ASSUME NEW n \in PairEvents PROVE q.file[i].key # SaleKey(n) /\ q.file[i].key # BuyKey(n)
    BY <1>3, LegInFile, SaleIs, PurchaseIs
  <2> QED BY <1>3, <2>1 DEF Foreign
<1> QED BY <1>2, <1>3

(* The line that orphanLeg finds is still there.                           *)
LEMMA OrphanIn ==
  ASSUME NEW q, NEW rs, Numbered(rs), Kin(q.old, rs), NEW key, Orphan(q, key)
  PROVE  \E r \in rs : r.id = OrphanId(q, key) /\ r.key = key
<1> DEFINE S == {r.id : r \in {x \in q.old : x.key = key /\ x.pair = 0}}
<1>1. S # {} /\ OrphanId(q, key) = Greatest(S)
  BY DEF Orphan, OrphanId
<1>2. Cardinality(rs) \in Nat
  BY FS_CardinalityType DEF Numbered
<1>3. \A id \in S : id \in 1..Cardinality(rs) /\ \E r \in rs : r.id = id /\ r.key = key
  BY DEF Kin, Numbered
<1> HIDE DEF S
<1>4. S \in SUBSET Nat /\ \A id \in S : id <= Cardinality(rs)
  BY <1>2, <1>3
<1>5. Greatest(S) \in S
  BY <1>1, <1>2, <1>4, GreatestIs
<1> QED BY <1>1, <1>3, <1>5

(* What stays known of the lines.                                          *)
LEMMA KinStays ==
  ASSUME NEW rs, NEW rt, Kin(rs, rt)
  PROVE  /\ \A old : Kin(old, rs) => Kin(old, rt)
         /\ \A id : Strange(rs, id) => Strange(rt, id)
BY DEF Kin, Strange

(* A row of another conversion, or of none, is remembered with its line.   *)
LEMMA StrangeRow ==
  ASSUME NEW q, Steady(q), NEW p, NEW rt, rt = db', RowWay(q, p), LinksOne(q, db)
  PROVE  /\ Kin(p.old, rt)
         /\ \A f \in p.first : f.event \in PairEvents \/ Strange(rt, f.id)
         /\ p.at = "rows" \/ (p.at = "link" /\ q.file[q.i].pair)
         /\ p.at = "link" /\ q.file[q.i].event \notin PairEvents =>
              Strange(rt, p.link[1]) /\ Strange(rt, p.link[2])
<1> DEFINE row == q.file[q.i]
           x == New(row)
<1>1. rt = db \/ rt = db \cup {x}
  BY DEF RowWay, WaySkip, WayPlain, WayFound, WayHealed, WayWritten, WayPutOff
<1>2. x.id = NextId /\ x.key = row.key
  BY DEF New
<1> HIDE DEF x
<1>3. Kin(db, rt)
  BY <1>1 DEF Kin
<1>4. /\ Kin(q.old, db) /\ p.old = q.old
      /\ \A f \in q.first : f.event \in PairEvents \/ Strange(db, f.id)
  BY DEF LinksOne, RowWay, Moves
<1>5. Kin(p.old, rt) /\ \A f \in q.first : f.event \in PairEvents \/ Strange(rt, f.id)
  BY <1>3, <1>4, KinStays
<1>6. CASE Quiet(q, p)
  BY <1>5, <1>6 DEF Quiet
<1>7. ASSUME NEW id, Remembers(q, p, row.event, id), row.pair,
             row.event \notin PairEvents => Strange(rt, id)
      PROVE  /\ \A f \in p.first : f.event \in PairEvents \/ Strange(rt, f.id)
             /\ p.at = "rows" \/ p.at = "link"
             /\ p.at = "link" /\ row.event \notin PairEvents =>
                  Strange(rt, p.link[1]) /\ Strange(rt, p.link[2])
  <2>1. CASE p.first = q.first \cup {Line(row.event, id)} /\ p.at = "rows"
    <3>1. Line(row.event, id).event = row.event /\ Line(row.event, id).id = id
      BY DEF Line
    <3> QED BY <1>5, <1>7, <2>1, <3>1
  <2>2. CASE /\ p.first = q.first /\ p.at = "link"
             /\ \E f \in First(q, row.event) : p.link = <<f.id, id>>
    <3>1. PICK f \in First(q, row.event) : p.link = <<f.id, id>>
      BY <2>2
    <3>2. f \in q.first /\ f.event = row.event
      BY <3>1 DEF First
    <3>3. p.link[1] = f.id /\ p.link[2] = id
      BY <3>1
    <3> QED BY <1>5, <1>7, <2>2, <3>2, <3>3
  <2> QED BY <1>7, <2>1, <2>2 DEF Remembers
<1>8. row.event \notin PairEvents => Foreign(row.key)
  <2>1. ASSUME NEW n \in PairEvents, row = Sale(history, n) \/ row = Buy(n) PROVE row.event = n
    BY <2>1, SaleIs, PurchaseIs
  <2>2. \/ \E n \in PairEvents : row = Sale(history, n) \/ row = Buy(n)
        \/ row.event \notin PairEvents /\ Foreign(row.key)
    BY PairRow DEF Steady
  <2> QED BY <2>1, <2>2
<1>9. CASE row.pair /\ WayHealed(q, p)
  <2>1. Orphan(q, row.key) /\ Remembers(q, p, row.event, OrphanId(q, row.key))
    BY <1>9 DEF WayHealed
  <2>2. \E r \in db : r.id = OrphanId(q, row.key) /\ r.key = row.key
    BY <1>4, <2>1, OrphanIn DEF Steady
  <2>3. row.event \notin PairEvents => Strange(db, OrphanId(q, row.key))
    BY <1>8, <2>2 DEF Strange
  <2>4. row.event \notin PairEvents => Strange(rt, OrphanId(q, row.key))
    BY <1>3, <2>3, KinStays
  <2> QED BY <1>5, <1>7, <1>9, <2>1, <2>4
<1>10. CASE row.pair /\ WayWritten(q, p)
  <2>1. Remembers(q, p, row.event, NextId) /\ rt = db \cup {x}
    BY <1>10 DEF WayWritten, x
  <2>2. row.event \notin PairEvents => Strange(rt, NextId)
    BY <1>2, <1>8, <2>1 DEF Strange
  <2> QED BY <1>5, <1>7, <1>10, <2>1, <2>2
<1>11. Quiet(q, p) \/ (row.pair /\ (WayHealed(q, p) \/ WayWritten(q, p)))
  BY DEF RowWay, WaySkip, WayPlain, WayFound, WayPutOff
<1> QED BY <1>5, <1>6, <1>9, <1>10, <1>11 DEF Quiet

(* A row of the file, and every conversion.                                *)
LEMMA RowFollows ==
  ASSUME NEW q, Steady(q), NEW p, NEW rt, rt = db', RowWay(q, p), LinksOne(q, db),
         \A n \in PairEvents : Follows(q, db, n)
  PROVE  /\ Tidy(p) /\ LinksOne(p, rt) /\ p.at \in {"rows", "link"}
         /\ \A n \in PairEvents : Follows(p, rt, n)
<1>1. Moves(q, p) /\ history \in Histories /\ FromFile(q) /\ q.i \in 1..Len(q.file) /\ q.at = "rows"
  BY DEF RowWay, Steady
<1>2. Tidy(p)
  BY RowTidy
<1>3. ASSUME NEW n \in PairEvents, q.file[q.i] = Sale(history, n) PROVE Between(p, rt, n) /\ p.at = "rows"
  BY <1>3, SaleRow
<1>4. ASSUME NEW n \in PairEvents, q.file[q.i] = Buy(n)
      PROVE  Behind(p, rt, n) /\ (p.at = "rows" \/ (p.at = "link" /\ Linking(p, rt, n)))
  BY <1>4, PurchaseRow
<1>5. LinksOne(p, rt) /\ p.at \in {"rows", "link"}
  <2>1. /\ Kin(p.old, rt) /\ \A f \in p.first : f.event \in PairEvents \/ Strange(rt, f.id)
        /\ p.at = "rows" \/ (p.at = "link" /\ q.file[q.i].pair)
        /\ p.at = "link" /\ q.file[q.i].event \notin PairEvents =>
             Strange(rt, p.link[1]) /\ Strange(rt, p.link[2])
    BY StrangeRow
  <2>2. ASSUME p.at = "link"
        PROVE  \/ \E n \in PairEvents : Linking(p, rt, n) /\ DoneKey(p, SaleKey(n)) /\ DoneKey(p, BuyKey(n))
               \/ Strange(rt, p.link[1]) /\ Strange(rt, p.link[2])
    <3>1. CASE q.file[q.i].event \notin PairEvents
      BY <2>1, <2>2, <3>1
    <3>2. CASE \E n \in PairEvents : q.file[q.i] = Sale(history, n) \/ q.file[q.i] = Buy(n)
      <4>1. PICK n \in PairEvents : q.file[q.i] = Sale(history, n) \/ q.file[q.i] = Buy(n)
        BY <3>2
      <4>2. CASE q.file[q.i] = Sale(history, n)
        BY <1>3, <2>2, <4>2
      <4>3. CASE q.file[q.i] = Buy(n)
        <5>1. Behind(p, rt, n) /\ (p.at = "rows" \/ (p.at = "link" /\ Linking(p, rt, n)))
          BY <1>4, <4>3
        <5>2. DoneKey(p, SaleKey(n)) /\ DoneKey(p, BuyKey(n))
          BY <5>1 DEF Behind
        <5> QED BY <2>2, <5>1, <5>2
      <4> QED BY <4>1, <4>2, <4>3
    <3> QED BY <1>1, <3>1, <3>2, PairRow DEF Steady
  <2> QED BY <2>1, <2>2 DEF LinksOne
<1>6. ASSUME NEW n \in PairEvents, q.file[q.i].event # n,
             q.file[q.i].key # SaleKey(n), q.file[q.i].key # BuyKey(n)
      PROVE  Follows(p, rt, n)
  <2>1. (DoneKey(p, SaleKey(n)) <=> DoneKey(q, SaleKey(n))) /\ (DoneKey(p, BuyKey(n)) <=> DoneKey(q, BuyKey(n)))
    BY <1>1, <1>6, DoneNext
  <2>2. First(p, n) = First(q, n)
    <3>1. CASE Quiet(q, p)
      BY <3>1 DEF Quiet, First
    <3>2. CASE \E id : Remembers(q, p, q.file[q.i].event, id)
      BY <1>6, <3>2, RememberedFirst
    <3> QED BY <3>1, <3>2 DEF RowWay, WaySkip, WayPlain, WayFound, WayHealed, WayWritten, WayPutOff
  <2>3. Elsewhere(q, p, n)
    BY <1>1, <2>1, <2>2 DEF Elsewhere, Moves
  <2>4. SameLegs(db, rt, n)
    <3> DEFINE x == New(q.file[q.i])
    <3>1. rt = db \/ rt = db \cup {x}
      BY DEF RowWay, WaySkip, WayPlain, WayFound, WayHealed, WayWritten, WayPutOff
    <3>2. x.key = q.file[q.i].key
      BY DEF New
    <3> HIDE DEF x
    <3>3. CASE rt = db
      BY <3>3 DEF SameLegs
    <3>4. CASE rt = db \cup {x}
      <4>1. \A key : key # x.key => LinesOf(rt, key) = LinesOf(db, key)
        BY ONLY <3>4 DEF LinesOf
      <4> QED BY <1>6, <3>2, <4>1 DEF SameLegs
    <3> QED BY <3>1, <3>3, <3>4
  <2>5. ~Linking(q, db, n)
    BY <1>1 DEF Linking
  <2> QED BY <2>3, <2>4, <2>5, FollowsSame
<1>7. ASSUME NEW n \in PairEvents PROVE Follows(p, rt, n)
  BY <1>3, <1>4, <1>6, RowIsLeg DEF Follows
<1> QED BY <1>2, <1>5, <1>7

(* One UPDATE points one line.                                             *)
OnlyKey(rs, rt, key) == \A k : k # key => LinesOf(rt, k) = LinesOf(rs, k)
Changed(rs, rt, r, x, v) ==
  /\ x.id = r.id /\ x.key = r.key /\ x.pair = v /\ OnlyKey(rs, rt, r.key)
  /\ LinesOf(rs, r.key) = {r} => LinesOf(rt, r.key) = {x}
(* So the lines of that key change, and no others.                         *)
LEMMA PointedLines ==
  ASSUME NEW rs, Numbered(rs), NEW r \in rs, NEW v, NEW rt, rt = Pointed(rs, r.id, v)
  PROVE  \E x \in rt : Changed(rs, rt, r, x, v)
<1> DEFINE x == [r EXCEPT !.pair = v]
<1>1. IsLine(r)
  BY DEF Numbered
<1>2. x.id = r.id /\ x.key = r.key /\ x.pair = v
  BY <1>1 DEF IsLine
<1>3. \A s \in rs : s.id = r.id => s = r
  BY DEF Numbered
<1>4. rt = {IF s = r THEN x ELSE s : s \in rs}
  BY <1>3 DEF Pointed
<1> HIDE DEF x
<1>5. x \in rt
  BY <1>4
<1>6. ASSUME NEW key, key # r.key PROVE LinesOf(rt, key) = LinesOf(rs, key)
  BY <1>2, <1>4, <1>6 DEF LinesOf
<1>7. ASSUME LinesOf(rs, r.key) = {r} PROVE LinesOf(rt, r.key) = {x}
  <2>1. ASSUME NEW y \in LinesOf(rt, r.key) PROVE y = x
    <3>1. PICK s \in rs : y = IF s = r THEN x ELSE s
      BY <1>4, <2>1 DEF LinesOf
    <3>2. CASE s # r
      <4>1. s \in LinesOf(rs, r.key)
        BY <2>1, <3>1, <3>2 DEF LinesOf
      <4> QED BY <1>7, <3>2, <4>1
    <3> QED BY <3>1, <3>2
  <2>2. x \in LinesOf(rt, r.key)
    BY <1>2, <1>5 DEF LinesOf
  <2> QED BY <2>1, <2>2
<1> QED BY <1>2, <1>5, <1>6, <1>7 DEF Changed, OnlyKey

(* The request while a conversion is being linked.                         *)
LEMMA TidySame ==
  ASSUME NEW q, NEW p, But(q, p, {"at"}), Tidy(q)
  PROVE  Tidy(p) /\ \A key : DoneKey(p, key) <=> DoneKey(q, key)
<1>1. /\ p.file = q.file /\ p.i = q.i /\ p.plans = q.plans /\ p.supplied = q.supplied
      /\ p.healed = q.healed /\ p.mine = q.mine
  BY ButAll
<1>2. \A key : DoneKey(p, key) <=> DoneKey(q, key)
  BY <1>1 DEF DoneKey
<1> QED BY <1>1, <1>2 DEF Tidy

(* The legs of another conversion stay.                                    *)
LEMMA LinkOthers ==
  ASSUME history \in Histories, LegsDistinct, NEW q, NEW p, But(q, p, {"at"}),
         NEW rs, Numbered(rs), NEW rt, NEW n \in PairEvents, NEW r \in rs,
         r.key = SaleKey(n) \/ r.key = BuyKey(n), OnlyKey(rs, rt, r.key),
         Linking(q, rs, n), NEW m \in PairEvents, m # n, Follows(q, rs, m)
  PROVE  Follows(p, rt, m)
<1>1. Own(n, m)
  BY OwnKeys
<1>2. SameLegs(rs, rt, m)
  BY <1>1 DEF SameLegs, Own, OnlyKey
<1>3. /\ p.file = q.file /\ p.i = q.i /\ p.old = q.old /\ p.supplied = q.supplied
      /\ p.since = q.since /\ p.first = q.first
  BY ButAll
<1>4. Elsewhere(q, p, m)
  BY <1>3 DEF Elsewhere, DoneKey, First
<1>5. ~Linking(q, rs, m)
  <2> SUFFICES ASSUME Linking(q, rs, m) PROVE FALSE
    OBVIOUS
  <2>1. PICK a \in rs, b \in rs : q.link = <<a.id, b.id>> /\ Both(rs, n, a, b)
    BY DEF Linking, Loose, OneWay
  <2>2. PICK x \in rs, y \in rs : q.link = <<x.id, y.id>> /\ Both(rs, m, x, y)
    BY DEF Linking, Loose, OneWay
  <2>3. a.id = x.id
    BY <2>1, <2>2
  <2>4. a = x
    BY <2>3 DEF Numbered
  <2>5. a.key = SaleKey(n) /\ x.key = SaleKey(m)
    <3>1. a \in LinesOf(rs, SaleKey(n)) /\ x \in LinesOf(rs, SaleKey(m))
      BY <2>1, <2>2 DEF Both
    <3> QED BY <3>1 DEF LinesOf
  <2> QED BY <1>1, <2>4, <2>5 DEF Own
<1> QED BY <1>2, <1>4, <1>5, FollowsSame

(* Pointing a line keeps the lines' keys.                                  *)
LEMMA PointedKin ==
  ASSUME NEW rs, Numbered(rs), NEW a, NEW b, NEW rt, rt = Pointed(rs, a, b)
  PROVE  /\ Kin(rs, rt)
         /\ Strange(rs, a) => \A n \in PairEvents : SameLegs(rs, rt, n)
<1>1. \A r \in rs : IsLine(r)
  BY DEF Numbered
<1>2. ASSUME NEW r \in rs
      PROVE  \E s \in rt : s.id = r.id /\ s.key = r.key
  <2> DEFINE s == IF r.id = a THEN [r EXCEPT !.pair = b] ELSE r
  <2>1. s \in rt
    BY DEF Pointed
  <2>2. s.id = r.id /\ s.key = r.key
    BY <1>1, PointedLine
  <2> QED BY <2>1, <2>2
<1>3. ASSUME Strange(rs, a), NEW n \in PairEvents PROVE SameLegs(rs, rt, n)
  <2>1. PICK r \in rs : r.id = a /\ Foreign(r.key)
    BY <1>3 DEF Strange
  <2>2. PICK x \in rt : Changed(rs, rt, r, x, b)
    BY <2>1, PointedLines
  <2>3. OnlyKey(rs, rt, r.key) /\ SaleKey(n) # r.key /\ BuyKey(n) # r.key
    BY <2>1, <2>2 DEF Changed, Foreign
  <2> QED BY <2>3 DEF OnlyKey, SameLegs
<1> QED BY <1>2, <1>3 DEF Kin

(* A link of two strangers leaves the conversions.                         *)
LEMMA StrangeLink ==
  ASSUME NEW q, NEW p, But(q, p, {"at"}), Tidy(q),
         NEW rs, Numbered(rs), NEW a, NEW b, NEW rt, rt = Pointed(rs, a, b), Strange(rs, a),
         Strange(rs, q.link[1]), NEW n \in PairEvents, Follows(q, rs, n)
  PROVE  Follows(p, rt, n)
<1>1. SameLegs(rs, rt, n)
  BY PointedKin
<1>2. /\ p.file = q.file /\ p.i = q.i /\ p.old = q.old /\ p.supplied = q.supplied
      /\ p.since = q.since /\ p.first = q.first
  BY ButAll
<1>3. Elsewhere(q, p, n)
  BY <1>2 DEF Elsewhere, DoneKey, First
<1>4. ~Linking(q, rs, n)
  <2> SUFFICES ASSUME Linking(q, rs, n) PROVE FALSE
    OBVIOUS
  <2>1. PICK x \in rs, y \in rs : q.link = <<x.id, y.id>> /\ Both(rs, n, x, y)
    BY DEF Linking, Loose, OneWay
  <2>2. PICK r \in rs : r.id = q.link[1] /\ Foreign(r.key)
    BY DEF Strange
  <2>3. r = x
    BY <2>1, <2>2 DEF Numbered
  <2>4. x \in LinesOf(rs, SaleKey(n))
    BY <2>1 DEF Both
  <2> QED BY <2>2, <2>3, <2>4 DEF LinesOf, Foreign
<1> QED BY <1>1, <1>3, <1>4, FollowsSame

(* The statement of LinkFundOps at hand, and every conversion.             *)
LEMMA LinkStep ==
  ASSUME history \in Histories, LegsDistinct, NEW q, NEW p, But(q, p, {"at"}), Tidy(q),
         NEW rs, Numbered(rs), Ids(rs), NEW rt, LinksOne(q, rs),
         \/ q.at = "link" /\ p.at = "link back" /\ rt = Pointed(rs, q.link[1], q.link[2])
         \/ q.at = "link back" /\ p.at = "rows" /\ rt = Pointed(rs, q.link[2], q.link[1]),
         \A n \in PairEvents : Follows(q, rs, n)
  PROVE  /\ Tidy(p) /\ LinksOne(p, rt)
         /\ \A n \in PairEvents : Follows(p, rt, n)
<1>0. /\ p.link = q.link /\ p.old = q.old /\ p.first = q.first
      /\ Kin(rs, rt) /\ Kin(q.old, rs)
      /\ \A f \in q.first : f.event \in PairEvents \/ Strange(rs, f.id)
  <2>1. p.link = q.link /\ p.old = q.old /\ p.first = q.first
    BY ONLY But(q, p, {"at"}) DEF But, Fields
  <2>2. rt = Pointed(rs, q.link[1], q.link[2]) \/ rt = Pointed(rs, q.link[2], q.link[1])
    OBVIOUS
  <2>3. CASE rt = Pointed(rs, q.link[1], q.link[2])
    <3>1. Kin(rs, rt)
      BY <2>3, PointedKin
    <3> QED BY <2>1, <3>1 DEF LinksOne
  <2>4. CASE rt = Pointed(rs, q.link[2], q.link[1])
    <3>1. Kin(rs, rt)
      BY <2>4, PointedKin
    <3> QED BY <2>1, <3>1 DEF LinksOne
  <2> QED BY <2>2, <2>3, <2>4
<1>11. /\ Kin(p.old, rt) /\ \A f \in p.first : f.event \in PairEvents \/ Strange(rt, f.id)
       /\ \A id : Strange(rs, id) => Strange(rt, id)
  BY <1>0, KinStays
<1>12. SUFFICES ASSUME ~(Strange(rs, q.link[1]) /\ Strange(rs, q.link[2]))
                PROVE  /\ Tidy(p) /\ LinksOne(p, rt)
                       /\ \A n \in PairEvents : Follows(p, rt, n)
  <2>1. ASSUME Strange(rs, q.link[1]), Strange(rs, q.link[2])
        PROVE  /\ Tidy(p) /\ LinksOne(p, rt)
               /\ \A n \in PairEvents : Follows(p, rt, n)
    <3>1. LinksOne(p, rt) /\ Tidy(p)
      BY <1>0, <1>11, <2>1, TidySame DEF LinksOne
    <3>2. \A a, b : rt = Pointed(rs, a, b) /\ Strange(rs, a) =>
                       \A n \in PairEvents : Follows(p, rt, n)
      BY <2>1, StrangeLink
    <3>3. \A n \in PairEvents : Follows(p, rt, n)
      BY <2>1, <3>2
    <3> QED BY <3>1, <3>3
  <2> QED BY <2>1
<1>1. PICK n \in PairEvents : Linking(q, rs, n) /\ DoneKey(q, SaleKey(n)) /\ DoneKey(q, BuyKey(n))
  BY <1>12 DEF LinksOne
<1>2. PICK a \in rs, b \in rs :
        /\ q.link = <<a.id, b.id>>
        /\ \/ q.at = "link" /\ Loose(rs, n, a, b)
           \/ q.at = "link back" /\ OneWay(rs, n, a, b)
  BY <1>1 DEF Linking
<1>3. q.link[1] = a.id /\ q.link[2] = b.id /\ Both(rs, n, a, b)
  <2>1. q.link = <<a.id, b.id>>
    BY ONLY <1>2
  <2>2. q.link[1] = a.id /\ q.link[2] = b.id
    BY ONLY <2>1
  <2>3. Both(rs, n, a, b)
    BY ONLY <1>2 DEF Loose, OneWay
  <2> QED BY <2>2, <2>3
<1>4. /\ LinesOf(rs, SaleKey(n)) = {a} /\ LinesOf(rs, BuyKey(n)) = {b}
      /\ a.key = SaleKey(n) /\ b.key = BuyKey(n)
  <2>1. LinesOf(rs, SaleKey(n)) = {a} /\ LinesOf(rs, BuyKey(n)) = {b}
    BY <1>3 DEF Both
  <2>2. a \in LinesOf(rs, SaleKey(n)) /\ b \in LinesOf(rs, BuyKey(n))
    BY <2>1
  <2> QED BY <2>1, <2>2 DEF LinesOf
<1>5. SaleKey(n) # BuyKey(n)
  BY KeysDiffer
<1>6. Tidy(p) /\ DoneKey(p, SaleKey(n)) /\ DoneKey(p, BuyKey(n))
  BY <1>1, TidySame
<1>7. p.link = q.link /\ p.since = q.since /\ p.supplied = q.supplied
  BY ONLY But(q, p, {"at"}), ButAll
<1>8. n \in q.supplied /\ ~(history[n].sold < q.since)
  <2>1. Behind(q, rs, n)
    BY <1>1 DEF Follows, Ahead, Between
  <2>2. ~NoLeg(rs, n)
    BY <1>4 DEF NoLeg
  <2>3. ~Linked(rs, n)
    <3> SUFFICES ASSUME NEW x \in rs, NEW y \in rs, Both(rs, n, x, y), y.pair = x.id PROVE FALSE
      BY DEF Linked
    <3>1. y = b /\ x = a
      BY <1>4 DEF Both
    <3> QED BY <1>2, <3>1 DEF Loose, OneWay, Ids
  <2> QED BY <2>1, <2>2, <2>3 DEF Behind
<1>9. CASE q.at = "link" /\ p.at = "link back" /\ rt = Pointed(rs, q.link[1], q.link[2])
  <2>1. rt = Pointed(rs, a.id, b.id) /\ a.pair = 0 /\ b.pair = 0
    BY <1>2, <1>3, <1>9 DEF Loose
  <2>0. PICK x \in rt : Changed(rs, rt, a, x, b.id)
    BY <2>1, PointedLines
  <2>2. /\ x.id = a.id /\ x.key = a.key /\ x.pair = b.id /\ OnlyKey(rs, rt, a.key)
        /\ LinesOf(rs, a.key) = {a} => LinesOf(rt, a.key) = {x}
    BY <2>0 DEF Changed
  <2>3. LinesOf(rt, SaleKey(n)) = {x} /\ LinesOf(rt, BuyKey(n)) = {b}
    BY <1>4, <1>5, <2>2 DEF OnlyKey
  <2>4. b \in rt
    <3>1. b \in LinesOf(rt, BuyKey(n))
      BY <2>3
    <3> QED BY <3>1 DEF LinesOf
  <2>5. OneWay(rt, n, x, b)
    BY <2>1, <2>2, <2>3 DEF OneWay, Both
  <2>6. p.link = <<x.id, b.id>>
    BY <1>2, <1>7, <2>2
  <2>7. Linking(p, rt, n)
    BY <1>9, <2>4, <2>5, <2>6 DEF Linking
  <2>8. Follows(p, rt, n)
    BY <1>6, <1>7, <1>8, <2>7 DEF Behind, Follows
  <2>9. ASSUME NEW m \in PairEvents, m # n PROVE Follows(p, rt, m)
    BY <1>1, <1>4, <2>2, <2>9, LinkOthers
  <2>10. LinksOne(p, rt)
    BY <1>6, <1>11, <2>7 DEF LinksOne
  <2> QED BY <1>6, <2>8, <2>9, <2>10
<1>10. CASE q.at = "link back" /\ p.at = "rows" /\ rt = Pointed(rs, q.link[2], q.link[1])
  <2>1. rt = Pointed(rs, b.id, a.id) /\ a.pair = b.id
    BY <1>2, <1>3, <1>10 DEF OneWay
  <2>0. PICK y \in rt : Changed(rs, rt, b, y, a.id)
    BY <2>1, PointedLines
  <2>2. /\ y.id = b.id /\ y.key = b.key /\ y.pair = a.id /\ OnlyKey(rs, rt, b.key)
        /\ LinesOf(rs, b.key) = {b} => LinesOf(rt, b.key) = {y}
    BY <2>0 DEF Changed
  <2>3. LinesOf(rt, SaleKey(n)) = {a} /\ LinesOf(rt, BuyKey(n)) = {y}
    BY <1>4, <1>5, <2>2 DEF OnlyKey
  <2>4. a \in rt
    <3>1. a \in LinesOf(rt, SaleKey(n))
      BY <2>3
    <3> QED BY <3>1 DEF LinesOf
  <2>5. Linked(rt, n)
    BY <2>1, <2>2, <2>3, <2>4 DEF Linked, Both
  <2>8. Follows(p, rt, n)
    BY <1>6, <1>7, <1>8, <2>5 DEF Behind, Follows
  <2>9. ASSUME NEW m \in PairEvents, m # n PROVE Follows(p, rt, m)
    BY <1>1, <1>4, <2>2, <2>9, LinkOthers
  <2>10. LinksOne(p, rt)
    BY <1>10, <1>11 DEF LinksOne
  <2> QED BY <1>6, <2>8, <2>9, <2>10
<1> QED BY <1>9, <1>10

(* What an import leaves when it ends, but for a link half made.           *)
LEMMA FollowsKept ==
  ASSUME NEW q, NEW rs, NEW n, Follows(q, rs, n), q.at # "link back", NEW sup, q.supplied \subseteq sup
  PROVE  Kept(q.since, rs, sup, n)
<1>1. CASE Ahead(q, rs, n) \/ Between(q, rs, n)
  BY <1>1, KeptMore DEF Ahead, Between
<1>2. CASE Behind(q, rs, n)
  <2>1. AtRest(rs, n)
    BY <1>2 DEF Behind, Linking, AtRest
  <2>2. NoLeg(rs, n) \/ n \in sup
    BY <1>2 DEF Behind
  <2>3. history[n].sold < q.since => Linked(rs, n)
    BY <1>2 DEF Behind
  <2> QED BY <2>1, <2>2, <2>3 DEF Kept
<1> QED BY <1>1, <1>2 DEF Follows

-----------------------------------------------------------------------------
(* The steps.                                                              *)

HealInv == HiddenInv /\ Heals
Ends(s, rs, sup) == \A n \in PairEvents : Kept(s, rs, sup, n)

(* As SameRows.                                                            *)
LEMMA SameHeals ==
  ASSUME history' = history
  PROVE  /\ LegsDistinct' <=> LegsDistinct
         /\ Ends(since, db, supplied)' <=> Ends(since', db', supplied')
         /\ \A c : Tends(req[c], since, db, supplied)' <=> Tends(req'[c], since', db', supplied')
<1>1. Whole' = Whole /\ \A u : ParseInzhur(u)' = ParseInzhur(u)
  BY SameFiles
<1>2. LegsDistinct' <=> LegsDistinct
  BY <1>1 DEF LegsDistinct, ShownRows, ShownAs, Range, Days
<1>3. PairEvents' = PairEvents
  BY DEF PairEvents
<1>4. \A n : SaleKey(n)' = SaleKey(n) /\ BuyKey(n)' = BuyKey(n)
  BY DEF SaleKey, BuyKey, Sale, Buy, Row
<1>5. ASSUME NEW n PROVE Kept(since, db, supplied, n)' <=> Kept(since', db', supplied', n)
  BY <1>4 DEF Kept, AtRest, NoLeg, Linked, Half, Loose, Both, LinesOf
<1>6. Ends(since, db, supplied)' <=> Ends(since', db', supplied')
  BY <1>3, <1>5 DEF Ends
<1>7. ASSUME NEW c, NEW n
      PROVE  /\ Kept(since, db, req[c].supplied, n)' <=> Kept(since', db', req'[c].supplied, n)
             /\ Follows(req[c], db, n)' <=> Follows(req'[c], db', n)
             /\ Linking(req[c], db, n)' <=> Linking(req'[c], db', n)
             /\ DoneKey(req[c], SaleKey(n))' <=> DoneKey(req'[c], SaleKey(n))
             /\ DoneKey(req[c], BuyKey(n))' <=> DoneKey(req'[c], BuyKey(n))
  <2>1. Linking(req[c], db, n)' <=> Linking(req'[c], db', n)
    BY <1>4 DEF Linking, Loose, OneWay, Both, LinesOf
  <2>2. /\ DoneKey(req[c], SaleKey(n))' <=> DoneKey(req'[c], SaleKey(n))
        /\ DoneKey(req[c], BuyKey(n))' <=> DoneKey(req'[c], BuyKey(n))
    BY <1>4 DEF DoneKey
  <2>4. Kept(since, db, req[c].supplied, n)' <=> Kept(since', db', req'[c].supplied, n)
    BY <1>4 DEF Kept, AtRest, NoLeg, Linked, Half, Loose, Both, LinesOf
  <2>5. Kept(req[c].since, db, req[c].supplied, n)' <=> Kept(req'[c].since, db', req'[c].supplied, n)
    BY <1>4 DEF Kept, AtRest, NoLeg, Linked, Half, Loose, Both, LinesOf
  <2>6. Ahead(req[c], db, n)' <=> Ahead(req'[c], db', n)
    BY <1>4, <2>2, <2>5 DEF Ahead, SameLegs, LinesOf, First
  <2>7. Between(req[c], db, n)' <=> Between(req'[c], db', n)
    BY <1>4, <2>2, <2>5 DEF Between, LinesOf, First, NoLeg, Linked, Half, Loose, Both
  <2>8. Behind(req[c], db, n)' <=> Behind(req'[c], db', n)
    BY <1>4, <2>1, <2>2 DEF Behind, LinesOf, NoLeg, Linked, Both
  <2>9. Follows(req[c], db, n)' <=> Follows(req'[c], db', n)
    BY <2>6, <2>7, <2>8 DEF Follows
  <2> QED BY <2>1, <2>2, <2>4, <2>9
<1>8. ASSUME NEW c
      PROVE  Tends(req[c], since, db, supplied)' <=> Tends(req'[c], since', db', supplied')
  <2>1. Tidy(req[c])' <=> Tidy(req'[c])
    BY DEF Tidy, PlansFit, DoneKey
  <2>3. \A id : Strange(db, id)' <=> Strange(db', id)
    BY <1>3, <1>4 DEF Strange, Foreign
  <2>2. LinksOne(req[c], db)' <=> LinksOne(req'[c], db')
    BY <1>3, <1>4, <1>7 DEF LinksOne, Strange, Foreign, Kin
  <2> QED BY <1>3, <1>5, <1>7, <2>1, <2>2 DEF Tends
<1> QED BY <1>2, <1>6, <1>8

(* As Assemble.                                                            *)
LEMMA Gather ==
  ASSUME HealInv, HiddenInv', history' = history, limits' = limits,
         limits.atOnce = 1 /\ moves' = 0 /\ LegsDistinct /\ SoldFirst /\ torn' = {} =>
           /\ (\A c \in Clients : req'[c] = NoImport) => Ends(since', db', supplied')
           /\ \A c \in Clients : req'[c] # NoImport => Tends(req'[c], since', db', supplied')
  PROVE  HealInv'
<1>1. /\ LegsDistinct' <=> LegsDistinct
      /\ Ends(since, db, supplied)' <=> Ends(since', db', supplied')
      /\ \A c : Tends(req[c], since, db, supplied)' <=> Tends(req'[c], since', db', supplied')
  BY SameHeals
<1>2. SoldFirst' <=> SoldFirst
  BY DEF SoldFirst
<1>3. NoImport' = NoImport
  BY DEF NoImport
<1>4. ASSUME OneByOne'
      PROVE  /\ (\A c \in Clients : req'[c] = NoImport) => Ends(since, db, supplied)'
             /\ \A c \in Clients : req'[c] # NoImport => Tends(req[c], since, db, supplied)'
  <2>1. limits.atOnce = 1 /\ moves' = 0 /\ LegsDistinct /\ SoldFirst /\ torn' = {}
    BY <1>1, <1>2, <1>4 DEF OneByOne
  <2> QED BY <1>1, <2>1
<1>5. Heals'
  BY <1>4 DEF Heals, Ends
<1> QED BY <1>5 DEF HealInv

(* Before the step: what is known when one import at a time is under way.  *)
LEMMA HealsNow ==
  ASSUME HealInv, limits.atOnce = 1, moves = 0, LegsDistinct, SoldFirst, torn = {}
  PROVE  /\ (\A c \in Clients : req[c] = NoImport) => Ends(since, db, supplied)
         /\ \A c \in Clients : req[c] # NoImport => Tends(req[c], since, db, supplied)
BY DEF HealInv, Heals, OneByOne, Ends

(* As OneMoves.                                                            *)
LEMMA OneTends ==
  ASSUME TwiceInv, NEW c \in Clients, NEW p, p.at # "idle", req' = [req EXCEPT ![c] = p],
         \A d \in Clients : d # c => req[d] = NoImport, Tends(p, since', db', supplied')
  PROVE  /\ (\A d \in Clients : req'[d] = NoImport) => Ends(since', db', supplied')
         /\ \A d \in Clients : req'[d] # NoImport => Tends(req'[d], since', db', supplied')
<1>1. req'[c] = p /\ \A d \in Clients : d # c => req'[d] = NoImport
  BY DEF TwiceInv
<1>2. p # NoImport
  BY DEF NoImport
<1> QED BY <1>1, <1>2

(* At the end of a request nothing is under way.                           *)
LEMMA NoneTends ==
  ASSUME TwiceInv, NEW c \in Clients, req' = [req EXCEPT ![c] = NoImport],
         \A d \in Clients : d # c => req[d] = NoImport, Ends(since', db', supplied')
  PROVE  /\ (\A d \in Clients : req'[d] = NoImport) => Ends(since', db', supplied')
         /\ \A d \in Clients : req'[d] # NoImport => Tends(req'[d], since', db', supplied')
<1>1. \A d \in Clients : req'[d] = NoImport
  BY DEF TwiceInv
<1> QED BY <1>1

(* Action by action.                                                       *)
LEMMA UploadHeals ==
  ASSUME HealInv, HiddenInv', NEW c \in Clients, Upload(c) PROVE HealInv'
<1>1. PICK u \in Days : req' = [req EXCEPT ![c] = [at |-> "journal", file |-> ParseInzhur(u)]]
  BY DEF Upload
<1>2. /\ history' = history /\ limits' = limits /\ db' = db /\ since' = since
      /\ supplied' = supplied /\ moves' = moves /\ torn' = torn /\ req[c] = NoImport
  BY DEF Upload
<1>3. ASSUME limits.atOnce = 1, moves' = 0, LegsDistinct, SoldFirst, torn' = {}
      PROVE  /\ (\A d \in Clients : req'[d] = NoImport) => Ends(since', db', supplied')
             /\ \A d \in Clients : req'[d] # NoImport => Tends(req'[d], since', db', supplied')
  <2> DEFINE p == [at |-> "journal", file |-> ParseInzhur(u)]
  <2>1. p.at = "journal" /\ p # NoImport /\ req' = [req EXCEPT ![c] = p]
    BY <1>1 DEF NoImport
  <2> HIDE DEF p
  <2>2. TwiceInv /\ OneImport'
    BY <1>2, <1>3 DEF HealInv, HiddenInv, TwiceInv
  <2>3. \A d \in Clients : d # c => req[d] = NoImport
    <3>1. req'[c] = p /\ \A d \in Clients : d # c => req'[d] = req[d]
      BY <2>1, <2>2 DEF TwiceInv
    <3>2. NoImport' = NoImport
      BY DEF NoImport
    <3> QED BY <2>1, <2>2, <3>1, <3>2 DEF OneImport
  <2>4. Ends(since, db, supplied)
    BY <1>2, <1>3, <2>3, HealsNow
  <2>5. Tends(p, since', db', supplied')
    BY <1>2, <2>1, <2>4 DEF Tends, Ends
  <2> QED BY <2>1, <2>2, <2>3, <2>5, OneTends
<1> QED BY <1>2, <1>3, Gather

(* The rows that orphanLeg will look at are those of the journal.          *)
LEMMA ReadJournalHeals ==
  ASSUME HealInv, HiddenInv', NEW c \in Clients, ReadJournal(c) PROVE HealInv'
<1> DEFINE p == [at |-> "mark", file |-> req[c].file, i |-> 1, old |-> db,
        supplied |-> supplied, since |-> 0, mine |-> {}, healed |-> {},
        plans |-> {}, first |-> {}, told |-> {}, link |-> <<>>]
<1>1. req' = [req EXCEPT ![c] = p] /\ req[c].at = "journal"
  BY DEF ReadJournal
<1>2. /\ history' = history /\ limits' = limits /\ db' = db /\ since' = since
      /\ supplied' = supplied /\ moves' = moves /\ torn' = torn
  BY DEF ReadJournal, countVars
<1>3. p.at = "mark" /\ p.supplied = supplied /\ p.plans = {} /\ p.healed = {} /\ p.first = {}
  OBVIOUS
<1> HIDE DEF p
<1>4. ASSUME limits.atOnce = 1, moves' = 0, LegsDistinct, SoldFirst, torn' = {}
      PROVE  /\ (\A d \in Clients : req'[d] = NoImport) => Ends(since', db', supplied')
             /\ \A d \in Clients : req'[d] # NoImport => Tends(req'[d], since', db', supplied')
  <2>1. Tends(req[c], since, db, supplied)
    BY <1>1, <1>2, <1>4, HealsNow DEF NoImport
  <2>2. TwiceInv /\ \A d \in Clients : d # c => req[d] = NoImport
    BY <1>1, <1>4, InUse DEF HealInv, HiddenInv
  <2>3. Tends(p, since', db', supplied')
    BY <1>1, <1>2, <1>3, <2>1 DEF Tends
  <2> QED BY <1>1, <1>3, <2>2, <2>3, OneTends
<1> QED BY <1>2, <1>4, Gather

(* The first row: nothing is behind, everything ahead.                     *)
LEMMA FirstRow ==
  ASSUME history \in Histories, NEW q, FromFile(q), q.i = 1, q.at = "rows", q.mine = {}, q.plans = {},
         q.healed = {}, q.first = {}, NEW rs, q.old = rs,
         \A n \in PairEvents : Kept(q.since, rs, q.supplied, n)
  PROVE  Tidy(q) /\ LinksOne(q, rs) /\ \A n \in PairEvents : Follows(q, rs, n)
<1>1. \A key : ~DoneKey(q, key)
  BY FileIs DEF DoneKey
<1>2. Tidy(q) /\ LinksOne(q, rs)
  BY DEF Tidy, PlansFit, LinksOne, Kin
<1>3. ASSUME NEW n \in PairEvents PROVE Follows(q, rs, n)
  BY <1>1 DEF Follows, Ahead, SameLegs, First
<1> QED BY <1>2, <1>3

(* The import comes to its first row.                                      *)
LEMMA ReadMarkHeals ==
  ASSUME HealInv, HiddenInv', NEW c \in Clients, ReadMark(c) PROVE HealInv'
<1> DEFINE q == req[c]
<1>1. req[c].at = "mark" /\ req' = [req EXCEPT ![c].at = "rows", ![c].since = since]
  BY DEF ReadMark
<1>2. /\ history' = history /\ limits' = limits /\ db' = db /\ since' = since
      /\ supplied' = supplied /\ moves' = moves /\ torn' = torn
  BY DEF ReadMark, countVars
<1>3. ASSUME limits.atOnce = 1, moves' = 0, LegsDistinct, SoldFirst, torn' = {}
      PROVE  /\ (\A d \in Clients : req'[d] = NoImport) => Ends(since', db', supplied')
             /\ \A d \in Clients : req'[d] # NoImport => Tends(req'[d], since', db', supplied')
  <2>1. Tends(q, since, db, supplied)
    BY <1>1, <1>2, <1>3, HealsNow DEF NoImport
  <2>2. /\ TwiceInv /\ \A d \in Clients : d # c => req[d] = NoImport
        /\ Working(q, db) /\ history \in Histories /\ DOMAIN req = Clients
    BY <1>1, <1>3, InUse DEF HealInv, HiddenInv, Waiting
  <2>3. Fresh(q)
    BY <1>1, <1>2, <1>3 DEF HealInv, HiddenInv, Catches
  <2>4. IsRequest(q) /\ q.old = db /\ FromFile(q)
    BY <1>1, <2>2 DEF Working
  <2>5. PICK s : s = since
    OBVIOUS
  <2>6. PICK p : p = [[q EXCEPT !.at = "rows"] EXCEPT !.since = s]
    OBVIOUS
  <2>7. req' = [req EXCEPT ![c] = p]
    BY <1>1, <2>2, <2>5, <2>6
  <2>8. q.at = "mark"
    BY <1>1
  <2> HIDE DEF q
  <2>9. But(q, p, {"at", "since"}) /\ p.at = "rows" /\ p.since = s
    BY ONLY <2>4, <2>6 DEF IsRequest, Fields, But
  <2>10. /\ p.file = q.file /\ p.i = q.i /\ p.old = q.old /\ p.supplied = q.supplied
         /\ p.mine = q.mine /\ p.plans = q.plans /\ p.healed = q.healed /\ p.first = q.first
    BY ONLY <2>9, ButAll
  <2>11. /\ q.supplied \subseteq supplied /\ q.plans = {} /\ q.healed = {} /\ q.first = {}
         /\ \A n \in PairEvents : Kept(since, db, q.supplied, n)
    BY <2>1, <2>8 DEF Tends
  <2>12. FromFile(p) /\ p.i = 1 /\ p.mine = {} /\ p.old = db
    BY <2>3, <2>4, <2>10 DEF Fresh, FromFile
  <2>13. \A n \in PairEvents : Kept(p.since, db, p.supplied, n)
    BY <2>5, <2>9, <2>10, <2>11
  <2>14. Tidy(p) /\ LinksOne(p, db) /\ \A n \in PairEvents : Follows(p, db, n)
    BY <2>2, <2>9, <2>10, <2>11, <2>12, <2>13, FirstRow
  <2>15. Tends(p, since', db', supplied')
    BY <1>2, <2>9, <2>10, <2>11, <2>14 DEF Tends
  <2> QED BY <2>2, <2>7, <2>9, <2>15, OneTends
<1> QED BY <1>2, <1>3, Gather

(* Any row, by RowFollows.                                                 *)
LEMMA ImportRowHeals ==
  ASSUME HealInv, HiddenInv', NEW c \in Clients, ImportRow(c) PROVE HealInv'
<1> DEFINE q == req[c]
<1>1. PICK p : req' = [req EXCEPT ![c] = p]
  BY DEF ImportRow, OpRow, LegRow, CouponRow, Advance
<1>2. /\ history' = history /\ limits' = limits /\ since' = since /\ moves' = moves
      /\ supplied' = supplied /\ torn' = torn /\ q.at = "rows" /\ q.i <= Len(q.file)
  BY DEF ImportRow, countVars
<1>3. ASSUME limits.atOnce = 1, moves' = 0, LegsDistinct, SoldFirst, torn' = {}
      PROVE  /\ (\A d \in Clients : req'[d] = NoImport) => Ends(since', db', supplied')
             /\ \A d \in Clients : req'[d] # NoImport => Tends(req'[d], since', db', supplied')
  <2>1. Tends(q, since, db, supplied)
    BY <1>2, <1>3, HealsNow DEF NoImport
  <2>2. /\ TwiceInv /\ \A d \in Clients : d # c => req[d] = NoImport
        /\ Working(q, db) /\ Journal(db) /\ history \in Histories /\ DOMAIN req = Clients
    BY <1>2, <1>3, InUse DEF HealInv, HiddenInv, Waiting
  <2>3. IsRequest(q) /\ FromFile(q) /\ Numbered(db)
    BY <2>2 DEF Working, Journal
  <2>4. /\ q.supplied \subseteq supplied /\ Tidy(q) /\ LinksOne(q, db)
        /\ \A n \in PairEvents : Follows(q, db, n)
    BY <1>2, <2>1 DEF Tends
  <2>5. q.i \in 1..Len(q.file)
    BY <1>2, <2>2, <2>3, FileIs DEF Working
  <2>6. q.file[q.i].pair => q.file[q.i].kind # "coupon"
    <3>1. PICK u \in Days : q.file = ParseInzhur(u)
      BY <2>3 DEF FromFile
    <3>2. RowFits(q.file[q.i], history, q.file[q.i].event)
      BY <2>2, <2>5, <3>1, RowKnown
    <3> QED BY <3>2 DEF RowFits
  <2>7. RowWay(q, req'[c]) /\ req'[c] = p
    BY <1>1, <2>2, <2>3, <2>4, <2>6, RowWays DEF Tidy
  <2>8. RowWay(q, p)
    BY <2>7
  <2>9. Steady(q)
    <3>1. LastDay \in Nat /\ q.since \in 0..LastDay
      BY <2>2, Day0 DEF Working
    <3> QED BY <1>2, <1>3, <2>2, <2>3, <2>4, <2>5, <3>1 DEF Steady
  <2> HIDE DEF q
  <2>10. PICK rt : rt = db'
    OBVIOUS
  <2>11. /\ Tidy(p) /\ LinksOne(p, rt) /\ p.at \in {"rows", "link"}
         /\ \A n \in PairEvents : Follows(p, rt, n)
    BY <2>4, <2>8, <2>9, <2>10, RowFollows
  <2>12. p.supplied = q.supplied
    BY <2>8 DEF RowWay, Moves
  <2>13. Tends(p, since', db', supplied')
    BY <1>2, <2>4, <2>10, <2>11, <2>12 DEF Tends
  <2>14. p.at # "idle"
    BY <2>11
  <2> QED BY <1>1, <2>2, <2>13, <2>14, OneTends
<1> QED BY <1>2, <1>3, Gather

(* Either statement of a link, by LinkStep.                                *)
LEMMA LinkFundOpsHeals ==
  ASSUME HealInv, HiddenInv', NEW c \in Clients, LinkFundOps(c) PROVE HealInv'
<1> DEFINE q == req[c]
<1>1. /\ history' = history /\ limits' = limits /\ since' = since /\ moves' = moves
      /\ supplied' = supplied /\ torn' = torn /\ q.at \in {"link", "link back"}
  BY DEF LinkFundOps, countVars
<1>2. \/ /\ q.at = "link" /\ db' = Pointed(db, q.link[1], q.link[2])
         /\ req' = [req EXCEPT ![c].at = "link back"]
      \/ /\ q.at = "link back" /\ db' = Pointed(db, q.link[2], q.link[1])
         /\ req' = [req EXCEPT ![c].at = "rows"]
  BY DEF LinkFundOps, Point, Pointed
<1>3. ASSUME limits.atOnce = 1, moves' = 0, LegsDistinct, SoldFirst, torn' = {}
      PROVE  /\ (\A d \in Clients : req'[d] = NoImport) => Ends(since', db', supplied')
             /\ \A d \in Clients : req'[d] # NoImport => Tends(req'[d], since', db', supplied')
  <2>1. Tends(q, since, db, supplied)
    <3>1. q # NoImport
      <4>1. NoImport.at = "idle"
        BY DEF NoImport
      <4>2. q.at # "idle"
        BY <1>1
      <4> QED BY ONLY <4>1, <4>2
    <3> QED BY <1>1, <1>3, <3>1, HealsNow
  <2>2. /\ TwiceInv /\ \A d \in Clients : d # c => req[d] = NoImport
        /\ Working(q, db) /\ Journal(db) /\ history \in Histories /\ DOMAIN req = Clients
    BY <1>1, <1>3, InUse DEF HealInv, HiddenInv, Waiting
  <2>3. IsRequest(q) /\ Numbered(db) /\ Ids(db)
    BY <2>2, IdsAre DEF Working, Journal
  <2>4. /\ q.supplied \subseteq supplied /\ Tidy(q) /\ LinksOne(q, db)
        /\ \A n \in PairEvents : Follows(q, db, n)
    BY <1>1, <2>1 DEF Tends
  <2>5. PICK rt : rt = db'
    OBVIOUS
  <2>6. PICK v \in {"rows", "link back"} :
          /\ req' = [req EXCEPT ![c].at = v]
          /\ \/ q.at = "link" /\ v = "link back" /\ rt = Pointed(db, q.link[1], q.link[2])
             \/ q.at = "link back" /\ v = "rows" /\ rt = Pointed(db, q.link[2], q.link[1])
    BY <1>2, <2>5
  <2>7. PICK p : p = [q EXCEPT !.at = v]
    OBVIOUS
  <2>8. req' = [req EXCEPT ![c] = p]
    BY <2>2, <2>6, <2>7
  <2> HIDE DEF q
  <2>9. But(q, p, {"at"}) /\ p.at = v
    BY ONLY <2>3, <2>7, ButAt
  <2>10. p.supplied = q.supplied
    BY ONLY <2>9 DEF But, Fields
  <2>11. /\ Tidy(p) /\ LinksOne(p, rt) /\ \A n \in PairEvents : Follows(p, rt, n)
    BY <1>3, <2>2, <2>3, <2>4, <2>6, <2>9, LinkStep
  <2>12. Tends(p, since', db', supplied')
    BY <1>1, <2>4, <2>5, <2>6, <2>9, <2>10, <2>11 DEF Tends
  <2>13. p.at # "idle"
    BY <2>9
  <2> QED BY <2>2, <2>8, <2>12, <2>13, OneTends
<1> QED BY <1>1, <1>3, Gather

(* When the file is done, what it has is linked; so is what the new mark   *)
(* hides.                                                                  *)
LEMMA DoneLinked ==
  ASSUME history \in Histories, LegsDistinct, NEW q, FromFile(q), q.i \in Nat, q.i > Len(q.file),
         q.at = "rows", NEW rs, NEW n \in PairEvents, Follows(q, rs, n), ~NoLeg(rs, n),
         NEW k \in 1..Len(q.file), q.file[k] = Sale(history, n) \/ q.file[k] = Buy(n)
  PROVE  Linked(rs, n)
<1>1. PICK i \in 1..Len(q.file), j \in 1..Len(q.file) :
        i < j /\ q.file[i] = Sale(history, n) /\ q.file[j] = Buy(n)
  BY BothInFile
<1>2. Len(q.file) \in Nat
  BY FileIs
<1>3. i < q.i /\ j < q.i
  BY <1>1, <1>2
<1>4. q.file[i].key = SaleKey(n) /\ q.file[j].key = BuyKey(n)
  BY <1>1 DEF SaleKey, BuyKey
<1>5. DoneKey(q, SaleKey(n)) /\ DoneKey(q, BuyKey(n))
  BY <1>3, <1>4 DEF DoneKey
<1>6. Behind(q, rs, n)
  BY <1>5 DEF Follows, Ahead, Between
<1> QED BY <1>6 DEF Behind, Linking

(* So an import that gets to the end leaves every conversion at rest.      *)
LEMMA FinishLinks ==
  ASSUME history \in Histories, LegsDistinct, NEW q, FromFile(q), q.i \in Nat, q.i > Len(q.file),
         q.at = "rows", q.since \in 0..LastDay, \A j \in q.told : j \in 1..Len(q.file),
         NEW rs, NEW got, AllSettled(NextImportSince(q), rs, got),
         NEW n \in PairEvents, Follows(q, rs, n), NEW sup, q.supplied \subseteq sup
  PROVE  Kept(NextImportSince(q), rs, sup, n)
<1> DEFINE next == NextImportSince(q)
<1>1. Kept(q.since, rs, sup, n)
  BY FollowsKept
<1>2. ASSUME history[n].sold < next PROVE Linked(rs, n)
  <2>1. /\ history[n].sold \in 1..LastDay /\ history[n].day \in 1..LastDay /\ n \in DOMAIN history
        /\ LastDay \in Nat
    BY HistoryIs, Day0 DEF PairEvents
  <2>2. next \in 0..LastDay
    BY MarkIsDay
  <2>5. PICK j \in 1..Len(Whole) : Whole[j] = Sale(history, n)
    BY LegsKnown
  <2>6. Whole[j].key = SaleKey(n) /\ SaleKey(n).day = history[n].sold
    BY <2>5, KeysDiffer DEF SaleKey
  <2>7. ~NoLeg(rs, n)
    <3>1. Settled(Whole[j], rs, got)
      BY <1>2, <2>6 DEF AllSettled
    <3>2. Whole[j].pair
      BY <2>5 DEF Sale, Row
    <3>3. SaleKey(n) \in Keys(rs)
      BY <2>6, <3>1, <3>2 DEF Settled
    <3> QED BY <3>3 DEF NoLeg, LinesOf, Keys
  <2>8. CASE next <= q.since
    <3>1. history[n].sold < q.since
      <4> HIDE DEF next
      <4>1. PICK s \in Int : s = history[n].sold
        BY <2>1
      <4> QED BY <1>2, <2>1, <2>2, <2>8, <4>1
    <3> QED BY <1>1, <3>1 DEF Kept
  <2>9. CASE \E i \in 1..Len(q.file) : next <= q.file[i].key.day
    <3>1. PICK i \in 1..Len(q.file) : next <= q.file[i].key.day
      BY <2>9
    <3>2. PICK u \in Days : q.file = ParseInzhur(u)
      BY DEF FromFile
    <3>3. q.file[i].key.day <= u
      <4>1. Parsed(q.file, history, Len(history), u)
        BY <3>2, ParsedAll
      <4>2. PICK m \in Covered(history, u) : m = q.file[i].event /\ q.file[i] \in RowsOf(history, m, u)
        BY <4>1 DEF Parsed
      <4>3. RowFits(q.file[i], history, m)
        BY <3>2, <4>2, RowKnown
      <4>4. history[m].sold \in 1..u /\ history[m].day \in 1..u
        BY <4>2 DEF Covered
      <4> QED BY <4>3, <4>4 DEF RowFits
    <3>4. Whole[j].key.day < u
      <4> HIDE DEF next
      <4>1. PICK s \in Int : s = history[n].sold
        BY <2>1
      <4>2. PICK d \in Int : d = q.file[i].key.day
        <5>1. q.file[i].key.day \in 1..LastDay
          BY FileIs
        <5> QED BY <2>1, <5>1
      <4>3. u \in Int
        BY <2>1 DEF Days
      <4>4. next \in Int
        BY <2>2
      <4>5. s < u
        BY <1>2, <3>1, <3>3, <4>1, <4>2, <4>3, <4>4
      <4> QED BY <2>6, <4>1, <4>5
    <3>5. PICK k \in 1..Len(q.file) : q.file[k] = Sale(history, n)
      BY <2>5, <3>2, <3>4, RowInFile
    <3> QED BY <2>7, <3>5, DoneLinked
  <2> QED BY <2>8, <2>9, MarkBounds
<1> QED BY <1>1, <1>2 DEF Kept

(* The end of an import, and the new mark.                                 *)
LEMMA FinishHeals ==
  ASSUME HealInv, HiddenInv', NEW c \in Clients, Finish(c) PROVE HealInv'
<1> DEFINE q == req[c]
<1>1. /\ req' = [req EXCEPT ![c] = NoImport] /\ q.at = "rows" /\ q.i > Len(q.file)
      /\ since' = NextImportSince(q)
  BY DEF Finish
<1>2. /\ history' = history /\ limits' = limits /\ db' = db /\ moves' = moves
      /\ received' = received /\ supplied' = supplied /\ torn' = torn
  BY DEF Finish, countVars
<1>3. ASSUME limits.atOnce = 1, moves' = 0, LegsDistinct, SoldFirst, torn' = {}
      PROVE  /\ (\A d \in Clients : req'[d] = NoImport) => Ends(since', db', supplied')
             /\ \A d \in Clients : req'[d] # NoImport => Tends(req'[d], since', db', supplied')
  <2>1. Tends(q, since, db, supplied)
    <3>1. q # NoImport
      BY <1>1 DEF NoImport
    <3> QED BY <1>2, <1>3, <3>1, HealsNow
  <2>2. /\ TwiceInv /\ \A d \in Clients : d # c => req[d] = NoImport
        /\ Working(q, db) /\ history \in Histories
    BY <1>1, <1>3, InUse DEF HealInv, HiddenInv, Waiting
  <2>3. AllSettled(since, db, received) /\ q.since = since /\ Caught(q, db, received)
    BY <1>1, <1>2, <1>3 DEF HealInv, HiddenInv, Catches
  <2>4. Journal(db)
    BY <1>1, <1>3, InUse DEF HealInv, HiddenInv
  <2> HIDE DEF q
  <2>5. /\ FromFile(q) /\ q.since \in 0..LastDay /\ q.i \in Nat
        /\ \A t \in q.told : t \in 1..Len(q.file)
    BY <2>2 DEF Working
  <2>6. IsFiniteSet(db)
    BY <2>4 DEF Journal, Numbered
  <2>7. AllSettled(NextImportSince(q), db, received)
    BY <1>1, <1>3, <2>2, <2>3, <2>5, <2>6, FinishSettles
  <2>8. q.supplied \subseteq supplied /\ \A n \in PairEvents : Follows(q, db, n)
    BY <1>1, <2>1 DEF Tends
  <2>9. \A n \in PairEvents : Kept(NextImportSince(q), db, supplied, n)
    BY <1>1, <1>3, <2>2, <2>5, <2>7, <2>8, FinishLinks
  <2>10. Ends(since', db', supplied')
    BY <1>1, <1>2, <2>9 DEF Ends
  <2> QED BY <1>1, <2>2, <2>10, NoneTends
<1> QED BY <1>2, <1>3, Gather

(* A failure leaves a half at most, unless it tears a link.                *)
LEMMA FailHeals ==
  ASSUME HealInv, HiddenInv', NEW c \in Clients, Fail(c) PROVE HealInv'
<1> DEFINE q == req[c]
<1>1. req' = [req EXCEPT ![c] = NoImport] /\ q # NoImport
  BY DEF Fail
<1>2. /\ history' = history /\ limits' = limits /\ db' = db /\ moves' = moves
      /\ since' = since /\ supplied' = supplied
  BY DEF Fail
<1>3. ASSUME limits.atOnce = 1, moves' = 0, LegsDistinct, SoldFirst, torn' = {}
      PROVE  /\ (\A d \in Clients : req'[d] = NoImport) => Ends(since', db', supplied')
             /\ \A d \in Clients : req'[d] # NoImport => Tends(req'[d], since', db', supplied')
  <2>1. torn = {} /\ q.at # "link back"
    BY <1>3 DEF Fail
  <2>2. Tends(q, since, db, supplied)
    BY <1>1, <1>2, <1>3, <2>1, HealsNow
  <2>3. /\ TwiceInv /\ \A d \in Clients : d # c => req[d] = NoImport
        /\ Waiting(q) \/ Working(q, db)
    <3>1. TwiceInv
      BY DEF HealInv, HiddenInv
    <3>2. \A d \in Clients : d # c => req[d] = NoImport
      BY <1>1, <1>3, <3>1 DEF TwiceInv, OneImport
    <3>3. Waiting(q) \/ Working(q, db)
      BY <1>1, <1>3, <3>1 DEF TwiceInv
    <3> QED BY <3>1, <3>2, <3>3
  <2>4. q.since = since \/ q.at \in {"journal", "mark"}
    <3>1. Catches(q, since, db, received)
      BY <1>2, <1>3 DEF HealInv, HiddenInv
    <3> QED BY <2>3, <3>1 DEF Catches, Waiting, Working
  <2> HIDE DEF q
  <2>5. CASE q.at = "journal"
    <3>1. Ends(since, db, supplied)
      BY <2>2, <2>5 DEF Tends, Ends
    <3> QED BY <1>1, <1>2, <2>3, <3>1, NoneTends
  <2>6. CASE q.at = "mark"
    <3>1. Ends(since, db, supplied)
      BY <2>2, <2>6, KeptMore DEF Tends, Ends
    <3> QED BY <1>1, <1>2, <2>3, <3>1, NoneTends
  <2>7. CASE q.at \in {"rows", "link"}
    <3>1. q.supplied \subseteq supplied /\ \A n \in PairEvents : Follows(q, db, n)
      BY <2>2, <2>7 DEF Tends
    <3>2. \A n \in PairEvents : Kept(q.since, db, supplied, n)
      BY <2>1, <3>1, FollowsKept
    <3>3. Ends(since, db, supplied)
      BY <2>4, <2>7, <3>2 DEF Ends
    <3> QED BY <1>1, <1>2, <2>3, <3>3, NoneTends
  <2> QED BY <2>1, <2>3, <2>5, <2>6, <2>7 DEF Waiting, Working
<1> QED BY <1>2, <1>3, Gather

(* What the user has entered for a later import.                           *)
LEMMA SupplyHeals ==
  ASSUME HealInv, HiddenInv', Supply PROVE HealInv'
<1>1. /\ history' = history /\ limits' = limits /\ db' = db /\ moves' = moves /\ since' = since
      /\ req' = req /\ torn' = torn /\ supplied \subseteq supplied'
  BY DEF Supply, countVars
<1>2. ASSUME limits.atOnce = 1, moves' = 0, LegsDistinct, SoldFirst, torn' = {}
      PROVE  /\ (\A d \in Clients : req'[d] = NoImport) => Ends(since', db', supplied')
             /\ \A d \in Clients : req'[d] # NoImport => Tends(req'[d], since', db', supplied')
  <2>1. /\ (\A c \in Clients : req[c] = NoImport) => Ends(since, db, supplied)
        /\ \A c \in Clients : req[c] # NoImport => Tends(req[c], since, db, supplied)
    BY <1>1, <1>2, HealsNow
  <2>2. PICK sup : sup = supplied' /\ supplied \subseteq sup
    BY <1>1
  <2>3. Ends(since, db, supplied) => Ends(since, db, sup)
    BY <2>2, KeptMore DEF Ends
  <2>4. \A c \in Clients : Tends(req[c], since, db, supplied) => Tends(req[c], since, db, sup)
    BY <2>2, KeptMore DEF Tends
  <2> QED BY <1>1, <2>1, <2>2, <2>3, <2>4
<1> QED BY <1>1, <1>2, Gather

(* A row entered by hand is no leg.                                        *)
LEMMA HandKey ==
  ASSUME history \in Histories, LegsDistinct, NEW m \in DOMAIN history, history[m].kind = "op",
         NEW n \in PairEvents
  PROVE  Key(history[m].day, "buy", history[m].sym) \notin {SaleKey(n), BuyKey(n)}
<1> DEFINE row == Operation(history, m)
           key == Key(history[m].day, "buy", history[m].sym)
<1>1. /\ history[m].sold \in 1..LastDay /\ history[m].day \in 1..LastDay
  BY HistoryIs
<1>2. m \in Covered(history, LastDay) /\ m <= Len(history)
  BY <1>1, HistoryIs DEF Covered
<1>3. row \in RowsOf(history, m, LastDay)
  BY DEF RowsOf
<1>4. Known(row)
  <2>1. PICK j \in 1..Len(Whole) : Whole[j] = row
    BY <1>2, <1>3, WholeIs DEF Parsed
  <2>2. LastDay \in Days
    BY <1>1, HistoriesAssumption DEF Days
  <2> QED BY <2>1, <2>2 DEF Known, Whole
<1>5. row.key = key /\ row.event = m
  BY DEF Operation, Row, Key
<1>6. Clear(n)
  BY LegKeys
<1>7. m # n
  BY DEF PairEvents
<1> HIDE DEF row, key
<1>8. key # SaleKey(n)
  BY <1>4, <1>5, <1>6, <1>7, SaleIs DEF Clear
<1>9. key # BuyKey(n)
  BY <1>4, <1>5, <1>6, <1>7, PurchaseIs DEF Clear
<1> QED BY <1>8, <1>9 DEF key

(* So it touches no conversion.                                            *)
LEMMA EnterByHandHeals ==
  ASSUME HealInv, HiddenInv', EnterByHand PROVE HealInv'
<1>1. PICK m \in DOMAIN history :
        /\ history[m].kind = "op"
        /\ db' = db \cup {[id |-> NextId, key |-> Key(history[m].day, "buy", history[m].sym),
                           leg |-> FALSE, pair |-> 0]}
  BY DEF EnterByHand, Key
<1>2. /\ history' = history /\ limits' = limits /\ req' = req /\ moves' = moves /\ torn' = torn
      /\ since' = since /\ supplied' = supplied /\ \A c \in Clients : req[c] = NoImport
  BY DEF EnterByHand
<1>3. ASSUME limits.atOnce = 1, moves' = 0, LegsDistinct, SoldFirst, torn' = {}
      PROVE  /\ (\A d \in Clients : req'[d] = NoImport) => Ends(since', db', supplied')
             /\ \A d \in Clients : req'[d] # NoImport => Tends(req'[d], since', db', supplied')
  <2>1. Ends(since, db, supplied) /\ history \in Histories
    BY <1>2, <1>3, HealsNow DEF HealInv, HiddenInv, TwiceInv
  <2> DEFINE key == Key(history[m].day, "buy", history[m].sym)
             x == [id |-> NextId, key |-> key, leg |-> FALSE, pair |-> 0]
  <2>2. \A n \in PairEvents : key # SaleKey(n) /\ key # BuyKey(n)
    BY <1>1, <1>3, <2>1, HandKey
  <2>3. PICK rt : rt = db' /\ rt = db \cup {x}
    BY <1>1
  <2>4. x.key = key
    OBVIOUS
  <2> HIDE DEF x, key
  <2>5. \A k : k # x.key => LinesOf(rt, k) = LinesOf(db, k)
    <3>1. rt = db \cup {x}
      BY <2>3
    <3> QED BY ONLY <3>1 DEF LinesOf
  <2>6. ASSUME NEW n \in PairEvents PROVE Kept(since, rt, supplied, n)
    <3>1. SameLegs(db, rt, n)
      BY <2>2, <2>4, <2>5 DEF SameLegs
    <3> QED BY <2>1, <3>1, KeptSame DEF Ends
  <2>7. Ends(since', db', supplied')
    BY <1>2, <2>3, <2>6 DEF Ends
  <2> QED BY <1>2, <2>7
<1> QED BY <1>2, <1>3, Gather

(* The other actions touch nothing of this, or move the mark by hand.      *)
LEMMA OtherHeals ==
  ASSUME HealInv, HiddenInv', HandleImportSince \/ UNCHANGED vars PROVE HealInv'
<1>1. history' = history /\ limits' = limits
  BY DEF HandleImportSince, vars, countVars
<1>2. CASE HandleImportSince
  <2>1. moves' # 0
    BY <1>2 DEF HandleImportSince, HealInv, HiddenInv
  <2> QED BY <1>1, <2>1, Gather
<1>3. CASE UNCHANGED vars
  <2>1. /\ since' = since /\ db' = db /\ supplied' = supplied /\ req' = req
        /\ moves' = moves /\ torn' = torn
    BY <1>3 DEF vars, countVars
  <2> QED BY <1>1, <2>1, HealsNow, Gather
<1> QED BY <1>2, <1>3

(* So every step keeps the invariant.                                      *)
LEMMA HealNext ==
  ASSUME HealInv, [Next]_vars PROVE HealInv'
<1>1. HiddenInv'
  BY HiddenNext DEF HealInv
<1> QED BY <1>1, UploadHeals, ReadJournalHeals, ReadMarkHeals, ImportRowHeals, LinkFundOpsHeals,
           FinishHeals, FailHeals, SupplyHeals, EnterByHandHeals, OtherHeals DEF Next

(* And it holds in the beginning.                                          *)
LEMMA HealInit ==
  ASSUME Init PROVE HealInv
<1>1. HiddenInv
  BY HiddenInit
<1>2. db = {} /\ since = 0 /\ history \in Histories /\ \A c \in Clients : req[c] = NoImport
  BY DEF Init
<1>3. ASSUME NEW n \in PairEvents PROVE Kept(since, db, supplied, n)
  <2>1. NoLeg(db, n)
    BY <1>2 DEF NoLeg, LinesOf
  <2>2. history[n].sold \in 1..LastDay
    BY <1>2, HistoryIs DEF PairEvents
  <2>3. LastDay \in Nat
    BY <1>2, Day0
  <2>4. ~(history[n].sold < since)
    BY <1>2, <2>2, <2>3
  <2> QED BY <2>1, <2>4 DEF Kept, AtRest
<1> QED BY <1>1, <1>2, <1>3 DEF HealInv, Heals

(* A leg of a conversion that nothing was paid on top of.                  *)
PaidAtOnce(key) ==
  \E n \in DOMAIN history :
    /\ history[n].kind = "pair" /\ history[n].full = history[n].sym
    /\ \E row \in ShownRows : row.event = n /\ row.key = key
HealsUnlessPaidOnTop ==
  [][\A c \in Clients :
       Finish(c) /\ limits.atOnce = 1 /\ moves = 0 /\ LegsDistinct /\ SoldFirst =>
         \A r \in db : r.leg /\ r.key.day >= req[c].since /\ torn = {}
                         /\ r.key \in {req[c].file[i].key : i \in DOMAIN req[c].file}
                         /\ PaidAtOnce(r.key)
                       => Mutual(r)]_vars

(* What the end of an import leaves of the conversions of its file.        *)
LEMMA FinishMutual ==
  ASSUME HealInv, NEW c \in Clients, Finish(c), limits.atOnce = 1, moves = 0, LegsDistinct, SoldFirst,
         NEW r \in db, r.leg, torn = {}, r.key \in {req[c].file[i].key : i \in DOMAIN req[c].file},
         PaidAtOnce(r.key)
  PROVE  Mutual(r)
<1> DEFINE q == req[c]
<1>1. q.at = "rows" /\ q.i > Len(q.file)
  BY DEF Finish
<1>2. Tends(q, since, db, supplied)
  <2>1. q # NoImport
    BY <1>1 DEF NoImport
  <2> QED BY <2>1, HealsNow
<1>3. Working(q, db) /\ Journal(db) /\ history \in Histories
  BY <1>1, InUse DEF HealInv, HiddenInv, Waiting
<1>4. PICK k \in DOMAIN q.file : q.file[k].key = r.key
  OBVIOUS
<1> HIDE DEF q
<1>5. FromFile(q) /\ q.i \in Nat
  BY <1>3 DEF Working
<1>6. k \in 1..Len(q.file)
  BY <1>3, <1>4, <1>5, FileIs
<1>7. PICK n \in PairEvents : \E row \in ShownRows : row.event = n /\ row.key = r.key
  BY DEF PaidAtOnce, PairEvents
<1>8. PICK row : Known(row) /\ row.event = n /\ row.key = r.key
  BY <1>3, <1>7, ShownFinite
<1>9. r.key = SaleKey(n) \/ r.key = BuyKey(n)
  <2>3. PICK u \in Days : \E i \in 1..Len(ParseInzhur(u)) : ParseInzhur(u)[i] = row
    BY <1>8 DEF Known
  <2>1. PICK i \in 1..Len(ParseInzhur(u)) : ParseInzhur(u)[i] = row
    BY <2>3
  <2>2. row \in RowsOf(history, n, u)
    BY <1>3, <1>8, <2>1, RowKnown
  <2> QED BY <1>8, <2>2, RowsOfPair DEF SaleKey, BuyKey
<1>10. q.file[k] = Sale(history, n) \/ q.file[k] = Buy(n)
  BY <1>3, <1>4, <1>5, <1>6, <1>9, LegInFile
<1>11. ~NoLeg(db, n)
  BY <1>9 DEF NoLeg, LinesOf
<1>12. Follows(q, db, n)
  BY <1>1, <1>2 DEF Tends
<1>13. Linked(db, n)
  BY <1>1, <1>3, <1>5, <1>6, <1>10, <1>11, <1>12, DoneLinked
<1>14. PICK a \in db, b \in db : Both(db, n, a, b) /\ a.pair = b.id /\ b.pair = a.id
  BY <1>13 DEF Linked
<1>15. r = a \/ r = b
  BY <1>9, <1>14 DEF Both, LinesOf
<1> QED BY <1>14, <1>15 DEF Mutual

(* A conversion that a failure has torn is made whole, and its legs are    *)
(* linked, by the next import of a file with it that gets to the end       *)
(* (orphanLeg, planPair and LinkFundOps, handlers_import.go), however many *)
(* imports have failed before, unless a failure fell between the two       *)
(* statements of the link: for one import at a time, a mark that nobody    *)
(* moves by hand, and conversions told from other operations, sold before  *)
(* they are bought and with nothing paid on top.  Other conversions of the *)
(* same history may have been paid on top; one of those may stand in the   *)
(* journal with two purchases (ConversionOnce fails), and then one of      *)
(* these keeps no pair.                                                    *)
THEOREM ConversionsHeal == Spec => HealsUnlessPaidOnTop
<1>1. Init => HealInv
  BY HealInit
<1>2. HealInv /\ [Next]_vars => HealInv'
  BY HealNext
<1>3. HealInv => \A c \in Clients :
        Finish(c) /\ limits.atOnce = 1 /\ moves = 0 /\ LegsDistinct /\ SoldFirst =>
          \A r \in db : r.leg /\ r.key.day >= req[c].since /\ torn = {}
                          /\ r.key \in {req[c].file[i].key : i \in DOMAIN req[c].file}
                          /\ PaidAtOnce(r.key)
                        => Mutual(r)
  BY FinishMutual
<1> QED BY <1>1, <1>2, <1>3, PTL DEF Spec, HealsUnlessPaidOnTop
=============================================================================
