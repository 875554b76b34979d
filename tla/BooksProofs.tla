----------------------------- MODULE BooksProofs -----------------------------
(***************************************************************************)
(* Proofs about Books, for any portfolios, clients, sets of tables and     *)
(* bounds.                                                                 *)
(*                                                                         *)
(* First the restore: each of its loops goes over one table of the file,   *)
(* and Underway says how far the rows of the file have been brought back;  *)
(* a row of the file becomes its image Moved, references included, and     *)
(* nothing fails as long as the wipe succeeds and no mark refers to a      *)
(* source of income that is gone.  Then the statements: BooksInv is kept   *)
(* by every one of them.  Its heart is that the rows are RowsOK, and that  *)
(* the row a request has looked up, if it is still there, belongs to the   *)
(* portfolio of the request (Known): ids are not given out twice.  Last,   *)
(* the legs of transfers and the journal of the plan: KeptInv adds to      *)
(* BooksInv what each linking of two legs has done so far (Legs) and that  *)
(* the journal of the database, and of the file, tells the sources of      *)
(* income they hold (Told); most actions leave both alone (Quiet).         *)
(***************************************************************************)
EXTENDS Books, WellFoundedInduction, TLAPS

-----------------------------------------------------------------------------
(* Numbers: induction, the maximum, and a recursive function over 0..n.    *)

(* A set of numbers that holds 0, and with each number the next, holds them *)
(* all.                                                                    *)
LEMMA Induct ==
  ASSUME NEW T, 0 \in T, \A k \in Nat : k \in T => k + 1 \in T
  PROVE  \A k \in Nat : k \in T
<1> DEFINE Bad == Nat \ T
<1>1. SUFFICES ASSUME Bad # {} PROVE FALSE
  OBVIOUS
<1>2. Bad \subseteq Nat
  OBVIOUS
<1>3. PICK k \in Bad : \A c \in Bad : ~ (<<c, k>> \in OpToRel(<, Nat))
  BY ONLY <1>1, <1>2, NatLessThanWellFounded, WFMin
<1>4. \A c \in Bad : ~ (c < k)
  BY <1>3 DEF OpToRel
<1>5. k # 0 /\ k \in Nat
  OBVIOUS
<1>6. k - 1 \in Nat /\ k - 1 < k
  BY <1>5
<1>7. k - 1 \in T
  BY <1>4, <1>6
<1>8. (k - 1) + 1 \in T
  BY <1>6, <1>7
<1> QED BY <1>5, <1>8

LEMMA MaxIsInTheSet ==
  ASSUME NEW S \in SUBSET Nat, S # {}, NEW n \in Nat, \A x \in S : x <= n
  PROVE  Max(S) \in S /\ \A x \in S : x <= Max(S)
<1> DEFINE Bounds0 == {k \in Nat : \A x \in S : x <= k}
<1>1. Bounds0 # {} /\ Bounds0 \subseteq Nat
  OBVIOUS
<1>2. PICK k \in Bounds0 : \A c \in Bounds0 : ~ (<<c, k>> \in OpToRel(<, Nat))
  BY ONLY <1>1, NatLessThanWellFounded, WFMin
<1>3. \A c \in Bounds0 : ~ (c < k)
  BY <1>2 DEF OpToRel
<1>4. k \in S
  <2>1. SUFFICES ASSUME k \notin S PROVE FALSE
    OBVIOUS
  <2>2. \A x \in S : x <= k /\ x # k
    BY <2>1
  <2>3. k # 0
    <3>1. PICK x \in S : TRUE
      OBVIOUS
    <3>2. x \in Nat /\ x <= k /\ x # k
      BY <2>2
    <3> QED BY <3>2
  <2>4. k - 1 \in Nat /\ k - 1 < k
    BY <2>3
  <2>5. \A x \in S : x <= k - 1
    BY <2>2, <2>3
  <2>6. k - 1 \in Bounds0
    BY <2>4, <2>5
  <2> QED BY <1>3, <2>4, <2>6
<1>5. \A x \in S : k >= x
  OBVIOUS
<1> QED BY <1>4, <1>5 DEF Max

-----------------------------------------------------------------------------
(* Rows *)

Ops == {"", "create", "update", "delete"}
Refs == [to : AllTables \cup {""}, id : Nat]
Row == [table : AllTables, id : Nat, owner : Portfolios, ref : Refs,
        op : Ops, label : Nat]

(* What a row may refer to. *)
Aims(t, ref) ==
  \/ ref = NoRef
  \/ /\ ref.id # 0
     /\ HasKey(t) => ref.to = Parent[t]
     /\ ~HasKey(t) => t \in DOMAIN LooseTarget /\ ref.to \in LooseTarget[t]

(* Rows that a database, or a backup, may hold. *)
Distinct(rs) == \A r, s \in rs : RefTo(r) = RefTo(s) => r = s
OnePerRef(rs) ==
  \A r, s \in rs :
    r.table \in Unique /\ s.table = r.table /\ s.owner = r.owner /\ s.ref = r.ref => r = s
Closed(rs) ==
  \A r \in rs : HasKey(r.table) /\ r.ref # NoRef =>
    \E parent \in rs : Names(parent, r.ref) /\ parent.owner = r.owner
Sound(rs, ts) ==
  /\ rs \subseteq Row
  /\ \A r \in rs : r.table \in ts /\ r.id # 0 /\ Aims(r.table, r.ref)
  /\ Distinct(rs) /\ OnePerRef(rs) /\ Closed(rs)

FileOK(f, ts) ==
  /\ Sound(f, ts)
  /\ \E o \in Portfolios : \A r \in f : r.owner = o
  /\ \E n \in Nat : \A r \in f : r.id <= n

-----------------------------------------------------------------------------
(* A restore under way: D are the rows of the file that are inserted, S     *)
(* those whose reference is written in a second pass.                       *)

MapOK(map, D, sq) ==
  /\ \A m \in map : \E r \in D : m.was = RefTo(r)
  /\ \A m \in map : m.now \in Nat /\ m.now > sq[m.was.to]
  /\ \A m, n \in map : m.was = n.was => m = n

(* What has become of a row of the file. *)
Moved(map, S, p, r) ==
  [table |-> r.table, id |-> Of(map, RefTo(r)).id, owner |-> p,
   ref |-> IF r.table \in Linked /\ r \notin S THEN NoRef ELSE Of(map, r.ref),
   op |-> r.op, label |-> r.label]

Others(rs, p) == {r \in rs : r.owner # p}

(* No later row of the file can change what the reference becomes. *)
Certain(ref, D, f) == ref = NoRef \/ Resolves(D, ref) \/ ~Resolves(f, ref)

(* Nothing in the file or around the portfolio makes a restore fail. *)
NoStrayMarks(f) ==
  \A r \in f : r.table = "plan_receipts" => r.ref = NoRef \/ Resolves(f, r.ref)

UnderwayRows(db, D, S, p, f, rs, sq, ts) ==
  /\ D \subseteq f /\ S \subseteq D
  /\ db.seq \in [ts -> Nat] /\ \A t \in ts : db.seq[t] >= sq[t]
  /\ MapOK(db.map, D, sq)
  /\ db.rows = Others(rs, p) \cup {Moved(db.map, S, p, r) : r \in D}
  /\ \A x \in db.rows : x.table \in ts /\ x.id \in Nat /\ x.id # 0 /\ x.id <= db.seq[x.table]
  /\ Distinct(db.rows)
  /\ \A r, s \in D : Of(db.map, RefTo(r)) = Of(db.map, RefTo(s)) => r = s
  /\ \A r \in D : r.table \notin Linked \/ r \in S => Certain(r.ref, D, f)

UnderwayOk(db, good, p) ==
  /\ db.ok \in BOOLEAN
  /\ db.ok => \A r, s \in db.rows :
       r.owner = p /\ s.owner = p /\ r.table \in Unique /\ s.table = r.table /\ s.ref = r.ref
         => r = s
  /\ good => db.ok

Underway(db, D, S, p, f, rs, sq, ts, good) ==
  UnderwayRows(db, D, S, p, f, rs, sq, ts) /\ UnderwayOk(db, good, p)

LEMMA OfUnknown ==
  ASSUME NEW map, NEW ref, \A m \in map : m.was # ref
  PROVE  Of(map, ref) = ref
BY DEF Of

LEMMA OfKnown ==
  ASSUME NEW map, NEW m \in map, \A k, n \in map : k.was = n.was => k = n
  PROVE  Of(map, m.was) = [m.was EXCEPT !.id = m.now]
<1>1. \E n \in map : n.was = m.was
  OBVIOUS
<1>2. (CHOOSE n \in map : n.was = m.was) = m
  <2>1. \A n \in map : n.was = m.was => n = m
    OBVIOUS
  <2> QED BY <1>1, <2>1
<1> QED BY <1>1, <1>2 DEF Of

(* A table of the old numbers changes the number of a reference, and       *)
(* nothing else.                                                           *)
LEMMA OfType ==
  ASSUME NEW map, NEW ref \in Refs,
         \A m \in map : m.now \in Nat,
         \A k, n \in map : k.was = n.was => k = n
  PROVE  Of(map, ref) \in Refs /\ Of(map, ref).to = ref.to
<1>1. CASE \E m \in map : m.was = ref
  <2>1. PICK m \in map : m.was = ref
    BY <1>1
  <2>2. Of(map, ref) = [ref EXCEPT !.id = m.now]
    BY <2>1, OfKnown
  <2> QED BY <2>1, <2>2 DEF Refs
<1>2. CASE ~ \E m \in map : m.was = ref
  BY <1>2, OfUnknown
<1> QED BY <1>1, <1>2

(* Entries of other references do not matter. *)
LEMMA OfMore ==
  ASSUME NEW map, NEW more, NEW ref,
         \A m : m \in more /\ m.was = ref <=> m \in map /\ m.was = ref
  PROVE  Of(more, ref) = Of(map, ref)
<1>1. (CHOOSE m : m \in more /\ m.was = ref) = (CHOOSE m : m \in map /\ m.was = ref)
  OBVIOUS
<1>2. (CHOOSE m \in more : m.was = ref) = (CHOOSE m \in map : m.was = ref)
  BY <1>1
<1>3. (\E m \in more : m.was = ref) <=> (\E m \in map : m.was = ref)
  OBVIOUS
<1> QED BY <1>2, <1>3 DEF Of

LEMMA Tables == AllTables \subseteq Exported /\ "" \notin AllTables
<1>1. DOMAIN Parent =
        {"sales", "fund_ops", "term_deposits", "deposit_topups", "reserve_ops",
         "reserve_loans", "goal_ops", "debts", "debt_ops", "debt_marks", "npf_ops", "npf_nav"}
  BY DEF Parent
<1>2. \A t \in DOMAIN Parent :
        Parent[t] \in {"lots", "fund_ops", "goals", "term_deposits", "reserve_loans",
                       "reserve_ops", "debts", "npf_accounts"}
  BY DEF Parent
<1>3. DOMAIN LooseTarget = {"plan_flows", "plan_flow_revisions", "plan_receipts", "decisions"}
  BY DEF LooseTarget
<1> QED
  BY <1>1, <1>2, <1>3 DEF AllTables, Exported, ExportedFirst, ExportedNext, ExportedLast

LEMMA RowTypes ==
  ASSUME NEW r \in Row
  PROVE  /\ r.table \in AllTables /\ r.id \in Nat /\ r.owner \in Portfolios /\ r.ref \in Refs
         /\ r.label \in Nat /\ r.op \in Ops
         /\ RefTo(r) \in Refs /\ RefTo(r) # NoRef
<1>1. r.table # ""
  BY Tables DEF Row
<1> QED BY <1>1 DEF Row, RefTo, NoRef, Refs

LEMMA NamesIt ==
  ASSUME NEW r, NEW ref \in Refs
  PROVE  Names(r, ref) <=> RefTo(r) = ref
<1>1. ref = [to |-> ref.to, id |-> ref.id]
  BY DEF Refs
<1>2. RefTo(r) = ref <=> r.table = ref.to /\ r.id = ref.id
  BY <1>1 DEF RefTo
<1> QED BY <1>2 DEF Names

LEMMA SameName ==
  ASSUME NEW r, NEW s
  PROVE  RefTo(r) = RefTo(s) <=> r.table = s.table /\ r.id = s.id
BY DEF RefTo

LEMMA InsertOneRows ==
  ASSUME NEW db, NEW D, NEW S, NEW p, NEW f, NEW rs, NEW sq, NEW ts,
         sq \in [ts -> Nat],
         Sound(f, ts), UnderwayRows(db, D, S, p, f, rs, sq, ts),
         NEW r \in f, r \notin D,
         r.table \notin Linked => Certain(r.ref, D, f)
  PROVE  UnderwayRows(RestoreRow(db, r, p), D \cup {r}, S, p, f, rs, sq, ts)
<1> DEFINE db2 == RestoreRow(db, r, p)
           taken == Resolves(db.rows, RefTo(r))
           id == IF taken THEN db.seq[r.table] + 1 ELSE r.id
           ref == IF r.table \in Linked THEN NoRef ELSE Of(db.map, r.ref)
           new == [table |-> r.table, id |-> id, owner |-> p, ref |-> ref, op |-> r.op,
                   label |-> r.label]
           map2 == IF taken THEN db.map \cup {[was |-> RefTo(r), now |-> id]} ELSE db.map
<1>r. /\ r \in Row /\ r.table \in ts /\ r.id \in Nat /\ r.id # 0 /\ r.ref \in Refs
      /\ RefTo(r) # NoRef /\ RefTo(r) \in Refs
  BY RowTypes DEF Sound
<1>d. /\ D \subseteq f /\ S \subseteq D /\ D \subseteq Row
      /\ db.seq \in [ts -> Nat] /\ (\A t \in ts : db.seq[t] >= sq[t])
      /\ MapOK(db.map, D, sq)
      /\ db.rows = Others(rs, p) \cup {Moved(db.map, S, p, s) : s \in D}
      /\ \A x \in db.rows : x.table \in ts /\ x.id \in Nat /\ x.id # 0 /\ x.id <= db.seq[x.table]
      /\ Distinct(db.rows)
      /\ \A s, u \in D : Of(db.map, RefTo(s)) = Of(db.map, RefTo(u)) => s = u
      /\ \A s \in D : s.table \notin Linked \/ s \in S => Certain(s.ref, D, f)
  BY DEF UnderwayRows, Sound
<1>1. /\ db2.rows = db.rows \cup {new} /\ db2.map = map2
      /\ db2.seq = [db.seq EXCEPT ![r.table] = IF id > db.seq[r.table] THEN id ELSE @]
  BY DEF RestoreRow
<1>2. /\ id \in Nat /\ id # 0 /\ (taken => id > db.seq[r.table] /\ id > sq[r.table])
      /\ \A x \in db.rows : x.table = r.table => x.id # id
  <2>1. CASE taken
    <3>1. db.seq[r.table] \in Nat /\ sq[r.table] \in Nat /\ db.seq[r.table] >= sq[r.table]
      BY <1>r, <1>d
    <3>2. id = db.seq[r.table] + 1
      BY <2>1
    <3>3. \A x \in db.rows : x.table = r.table => x.id \in Nat /\ x.id <= db.seq[r.table]
      BY <1>d
    <3> HIDE DEF id
    <3> QED BY <3>1, <3>2, <3>3
  <2>2. CASE ~taken
    <3>1. \A x \in db.rows : ~ (x.table = r.table /\ x.id = r.id)
      BY <2>2 DEF Resolves, Names, RefTo
    <3> QED BY <2>2, <3>1, <1>r
  <2> QED BY <2>1, <2>2
<1>3. \A m \in db.map : m.was # RefTo(r)
  <2>1. \A s \in D : RefTo(s) # RefTo(r)
    BY <1>d DEF Sound, Distinct
  <2> QED BY <2>1, <1>d DEF MapOK
<1> HIDE DEF id, ref
<1>4. MapOK(map2, D \cup {r}, sq)
  <2>1. CASE taken
    <3> DEFINE m2 == [was |-> RefTo(r), now |-> id]
    <3>1. map2 = db.map \cup {m2}
      BY <2>1
    <3>2. m2.was = RefTo(r) /\ m2.now = id /\ m2.was.to = r.table
      BY DEF RefTo
    <3>3. m2.now \in Nat /\ m2.now > sq[m2.was.to]
      BY <3>2, <1>2, <2>1
    <3>4. \A m \in db.map : m.was # m2.was
      BY <1>3, <3>2
    <3> HIDE DEF m2, map2
    <3> QED BY <3>1, <3>2, <3>3, <3>4, <1>d DEF MapOK
  <2>2. CASE ~taken
    BY <2>2, <1>d DEF MapOK
  <2> QED BY <2>1, <2>2
<1>5. Of(map2, RefTo(r)) = [to |-> r.table, id |-> id]
  <2>1. CASE taken
    <3> DEFINE m2 == [was |-> RefTo(r), now |-> id]
    <3>1. m2 \in map2 /\ m2.was = RefTo(r) /\ m2.now = id
      BY <2>1
    <3>2. \A k, n \in map2 : k.was = n.was => k = n
      BY <1>4 DEF MapOK
    <3> HIDE DEF m2, map2
    <3>3. Of(map2, m2.was) = [m2.was EXCEPT !.id = m2.now]
      BY <3>1, <3>2, OfKnown
    <3> QED BY <3>1, <3>3 DEF RefTo
  <2>2. CASE ~taken
    <3>1. Of(map2, RefTo(r)) = RefTo(r)
      BY <2>2, <1>3, OfUnknown
    <3>2. id = r.id
      BY <2>2 DEF id
    <3> QED BY <3>1, <3>2 DEF RefTo
  <2> QED BY <2>1, <2>2
<1>6. ASSUME NEW x, x # RefTo(r) PROVE Of(map2, x) = Of(db.map, x)
  <2>1. \A m : m \in map2 /\ m.was = x <=> m \in db.map /\ m.was = x
    BY <1>6
  <2> HIDE DEF map2
  <2> QED BY ONLY <2>1, OfMore
<1> HIDE DEF map2, taken, db2
<1>7. \A s \in D : RefTo(s) # RefTo(r)
  BY <1>d DEF Sound, Distinct
<1>8. ASSUME NEW x \in Refs, Certain(x, D, f) PROVE x # RefTo(r)
  <2>1. CASE x = NoRef
    BY <2>1, <1>r
  <2>2. CASE Resolves(D, x)
    <3>1. PICK s \in D : RefTo(s) = x
      BY <2>2, NamesIt DEF Resolves
    <3> QED BY <3>1, <1>7
  <2>3. CASE ~Resolves(f, x)
    BY <2>3, NamesIt DEF Resolves
  <2> QED BY <2>1, <2>2, <2>3, <1>8 DEF Certain
<1>9. ASSUME NEW s \in D PROVE Moved(map2, S, p, s) = Moved(db.map, S, p, s)
  <2>1. Of(map2, RefTo(s)) = Of(db.map, RefTo(s))
    BY <1>6, <1>7
  <2>2. s.ref \in Refs
    BY <1>d, RowTypes
  <2>3. s.table \notin Linked \/ s \in S => Of(map2, s.ref) = Of(db.map, s.ref)
    BY <1>6, <1>8, <1>d, <2>2
  <2> QED BY <2>1, <2>3 DEF Moved
<1>10. Moved(map2, S, p, r) = new
  <2>1. r \notin S
    BY <1>d
  <2>2. r.table \notin Linked => Of(map2, r.ref) = Of(db.map, r.ref)
    BY <1>6, <1>8, <1>r
  <2>3. Of(map2, RefTo(r)).id = id
    BY <1>5
  <2> QED BY <2>1, <2>2, <2>3 DEF Moved, ref
<1> HIDE DEF new
<1>11. db2.rows = Others(rs, p) \cup {Moved(db2.map, S, p, s) : s \in D \cup {r}}
  <2>1. {Moved(map2, S, p, s) : s \in D \cup {r}} = {Moved(db.map, S, p, s) : s \in D} \cup {new}
    BY <1>9, <1>10
  <2> QED BY <2>1, <1>1, <1>d
<1>12. new.table = r.table /\ new.id = id
  BY DEF new
<1>13. Distinct(db2.rows)
  <2>1. \A x \in db.rows : RefTo(x) # RefTo(new)
    BY <1>2, <1>12, SameName
  <2> QED BY <2>1, <1>1, <1>d DEF Distinct
<1>14. /\ db2.seq \in [ts -> Nat] /\ \A t \in ts : db2.seq[t] >= db.seq[t]
       /\ db2.seq[r.table] >= id
  BY <1>1, <1>2, <1>d, <1>r
<1>15. \A x \in db2.rows : x.table \in ts /\ x.id \in Nat /\ x.id # 0 /\ x.id <= db2.seq[x.table]
  <2>1. ASSUME NEW x \in db.rows PROVE x.id <= db2.seq[x.table]
    <3>1. x.table \in ts /\ x.id \in Nat /\ x.id <= db.seq[x.table]
      BY <1>d
    <3>2. db.seq[x.table] \in Nat /\ db2.seq[x.table] \in Nat /\ db2.seq[x.table] >= db.seq[x.table]
      BY <3>1, <1>d, <1>14
    <3> QED BY <3>1, <3>2
  <2>2. new.table \in ts /\ new.id \in Nat /\ new.id # 0 /\ new.id <= db2.seq[new.table]
    BY <1>12, <1>2, <1>14, <1>r
  <2> QED BY <2>1, <2>2, <1>1, <1>d
<1>16. \A t \in ts : db2.seq[t] >= sq[t]
  <2>1. ASSUME NEW t \in ts PROVE db2.seq[t] >= sq[t]
    <3>1. db2.seq[t] \in Nat /\ db.seq[t] \in Nat /\ sq[t] \in Nat
      BY <1>d, <1>14
    <3> QED BY <3>1, <1>d, <1>14
  <2> QED BY <2>1
<1>17. \A s, u \in D \cup {r} : Of(map2, RefTo(s)) = Of(map2, RefTo(u)) => s = u
  <2>1. ASSUME NEW s \in D PROVE Of(map2, RefTo(s)) # Of(map2, RefTo(r))
    <3>1. SUFFICES ASSUME Of(db.map, RefTo(s)) = [to |-> r.table, id |-> id] PROVE FALSE
      BY <1>5, <1>6, <1>7
    <3>2. Moved(db.map, S, p, s) \in db.rows
      BY <1>d
    <3>3. Of(db.map, RefTo(s)).to = s.table
      <4>1. RefTo(s) \in Refs /\ RefTo(s).to = s.table
        BY <1>d, RowTypes DEF RefTo
      <4> QED BY <4>1, OfType, <1>d DEF MapOK
    <3>4. Moved(db.map, S, p, s).id = id /\ Moved(db.map, S, p, s).table = r.table
      BY <3>1, <3>3 DEF Moved
    <3> QED BY <3>2, <3>4, <1>2
  <2>2. \A s, u \in D : Of(map2, RefTo(s)) = Of(map2, RefTo(u)) => s = u
    BY <1>6, <1>7, <1>d
  <2> QED BY <2>1, <2>2
<1>18. \A s \in D \cup {r} : s.table \notin Linked \/ s \in S => Certain(s.ref, D \cup {r}, f)
  <2>1. ASSUME NEW x, Certain(x, D, f) PROVE Certain(x, D \cup {r}, f)
    BY <2>1 DEF Certain, Resolves
  <2>2. r \notin S
    BY <1>d
  <2> QED BY <2>1, <2>2, <1>d
<1>19. D \cup {r} \subseteq f /\ S \subseteq D \cup {r}
  BY <1>d
<1>20. MapOK(db2.map, D \cup {r}, sq)
  BY <1>1, <1>4
<1>21. \A s, u \in D \cup {r} : Of(db2.map, RefTo(s)) = Of(db2.map, RefTo(u)) => s = u
  BY <1>1, <1>17
<1> HIDE DEF db2
<1>22. UnderwayRows(db2, D \cup {r}, S, p, f, rs, sq, ts)
  BY <1>11, <1>13, <1>14, <1>15, <1>16, <1>18, <1>19, <1>20, <1>21 DEF UnderwayRows
<1> QED BY <1>22 DEF db2

LEMMA MovedRow ==
  ASSUME NEW map, NEW D \in SUBSET Row, NEW sq, MapOK(map, D, sq), NEW S, NEW p, NEW s \in Row
  PROVE  /\ RefTo(Moved(map, S, p, s)) = Of(map, RefTo(s))
         /\ Of(map, RefTo(s)) # NoRef /\ Of(map, NoRef) = NoRef
         /\ Of(map, RefTo(s)) \in Refs
<1>1. RefTo(s) \in Refs /\ RefTo(s).to = s.table /\ s.table # "" /\ s.table \in AllTables
  BY RowTypes, Tables DEF RefTo
<1>2. Of(map, RefTo(s)) \in Refs /\ Of(map, RefTo(s)).to = s.table
  BY <1>1, OfType DEF MapOK
<1>3. Of(map, RefTo(s)) = [to |-> s.table, id |-> Of(map, RefTo(s)).id]
  BY <1>2 DEF Refs
<1>4. \A m \in map : m.was # NoRef
  BY RowTypes DEF MapOK
<1>5. Of(map, NoRef) = NoRef
  BY <1>4, OfUnknown
<1>6. RefTo(Moved(map, S, p, s)) = [to |-> s.table, id |-> Of(map, RefTo(s)).id]
  BY DEF Moved, RefTo
<1>7. Of(map, RefTo(s)) # NoRef
  <2>1. NoRef.to = ""
    BY DEF NoRef
  <2> QED BY <2>1, <1>1, <1>2
<1> QED BY <1>2, <1>3, <1>5, <1>6, <1>7

(* A reference to a row that is inserted names its image. *)
LEMMA ImageNamed ==
  ASSUME NEW db, NEW D, NEW S, NEW p, NEW f, NEW rs, NEW sq, NEW ts,
         Sound(f, ts), UnderwayRows(db, D, S, p, f, rs, sq, ts),
         NEW ref \in Refs, Resolves(D, ref)
  PROVE  /\ \E s \in D : RefTo(s) = ref
         /\ \E s \in D : RefTo(s) = ref /\ Names(Moved(db.map, S, p, s), Of(db.map, ref))
         /\ Resolves(db.rows, Of(db.map, ref))
<1>1. PICK s \in D : RefTo(s) = ref
  BY NamesIt DEF Resolves
<1>2. s \in Row /\ D \in SUBSET Row /\ MapOK(db.map, D, sq) /\ Moved(db.map, S, p, s) \in db.rows
  BY DEF Sound, UnderwayRows
<1>3. RefTo(Moved(db.map, S, p, s)) = Of(db.map, ref) /\ Of(db.map, ref) \in Refs
  BY <1>1, <1>2, MovedRow
<1>4. Names(Moved(db.map, S, p, s), Of(db.map, ref))
  BY <1>3, NamesIt
<1> QED BY <1>1, <1>2, <1>4 DEF Resolves

(* References to inserted rows stay different. *)
LEMMA OfInjective ==
  ASSUME NEW db, NEW D, NEW S, NEW p, NEW f, NEW rs, NEW sq, NEW ts,
         Sound(f, ts), UnderwayRows(db, D, S, p, f, rs, sq, ts),
         NEW x \in Refs, NEW y \in Refs,
         x = NoRef \/ Resolves(D, x), y = NoRef \/ Resolves(D, y),
         Of(db.map, x) = Of(db.map, y)
  PROVE  x = y
<1>1. D \in SUBSET Row /\ MapOK(db.map, D, sq)
  BY DEF Sound, UnderwayRows
<1>2. x # NoRef => \E s \in D : RefTo(s) = x
  BY ImageNamed
<1>3. y # NoRef => \E s \in D : RefTo(s) = y
  BY ImageNamed
<1>4. \A s \in D : Of(db.map, RefTo(s)) # NoRef /\ Of(db.map, NoRef) = NoRef
  BY <1>1, MovedRow
<1>5. \A s, u \in D : Of(db.map, RefTo(s)) = Of(db.map, RefTo(u)) => s = u
  BY DEF UnderwayRows
<1> QED BY <1>2, <1>3, <1>4, <1>5

LEMMA KeyTables ==
  /\ \A t \in Linked : HasKey(t) /\ t \notin Unique
  /\ \A t \in Unique : HasKey(t) \/ t = "plan_receipts"
BY DEF Linked, Unique, HasKey, Parent

LEMMA InsertOneOk ==
  ASSUME NEW db, NEW D, NEW S, NEW p, NEW f, NEW rs, NEW sq, NEW ts, NEW good \in BOOLEAN,
         NEW o, \A x \in f : x.owner = o, good => NoStrayMarks(f),
         Sound(f, ts), UnderwayRows(db, D, S, p, f, rs, sq, ts), UnderwayOk(db, good, p),
         NEW r \in f, r \notin D,
         r.table \notin Linked => Certain(r.ref, D, f)
  PROVE  UnderwayOk(RestoreRow(db, r, p), good, p)
<1> DEFINE ref == IF r.table \in Linked THEN NoRef ELSE Of(db.map, r.ref)
           keyOk == HasKey(r.table) /\ ref # NoRef => Resolves(db.rows, ref)
           free == Free(db.rows, r.table, p, ref)
           db2 == RestoreRow(db, r, p)
<1>r. r \in Row /\ r.ref \in Refs /\ f \subseteq Row
  BY RowTypes DEF Sound
<1>d. D \in SUBSET Row /\ D \subseteq f /\ MapOK(db.map, D, sq)
  BY DEF UnderwayRows, Sound
<1>1. db2.ok = (db.ok /\ keyOk /\ free)
  BY DEF RestoreRow
<1>2. \E new : /\ db2.rows = db.rows \cup {new}
               /\ new.table = r.table /\ new.owner = p /\ new.ref = ref
  <2> DEFINE id == IF Resolves(db.rows, RefTo(r)) THEN db.seq[r.table] + 1 ELSE r.id
             new == [table |-> r.table, id |-> id, owner |-> p, ref |-> ref, op |-> r.op,
                     label |-> r.label]
  <2>1. db2.rows = db.rows \cup {new}
    BY DEF RestoreRow
  <2>2. new.table = r.table /\ new.owner = p /\ new.ref = ref
    OBVIOUS
  <2> HIDE DEF new, ref, db2
  <2> QED BY <2>1, <2>2
<1>3. Of(db.map, NoRef) = NoRef
  BY <1>d, <1>r, MovedRow
<1> HIDE DEF db2, ref
<1>4. ASSUME good PROVE keyOk
  <2>1. SUFFICES ASSUME HasKey(r.table), ref # NoRef PROVE Resolves(db.rows, ref)
    OBVIOUS
  <2>2. r.table \notin Linked /\ ref = Of(db.map, r.ref)
    BY <2>1 DEF ref
  <2>3. r.ref # NoRef
    BY <2>1, <2>2, <1>3
  <2>4. Resolves(f, r.ref)
    BY <2>1, <2>3 DEF Sound, Closed, Resolves
  <2>5. Resolves(D, r.ref)
    BY <2>2, <2>3, <2>4 DEF Certain
  <2> QED BY <2>2, <2>5, <1>r, ImageNamed
<1>5. ASSUME good PROVE free
  <2>1. SUFFICES ASSUME r.table \in Unique,
                        NEW x \in db.rows, x.table = r.table, x.owner = p, x.ref = ref
                 PROVE  FALSE
    BY DEF Free
  <2>2. r.table \notin Linked /\ ref = Of(db.map, r.ref)
    BY <2>1, KeyTables DEF ref
  <2>3. PICK s \in D : x = Moved(db.map, S, p, s)
    BY <2>1 DEF UnderwayRows, Others
  <2>4. s.table = r.table /\ x.ref = Of(db.map, s.ref)
    BY <2>1, <2>2, <2>3 DEF Moved
  <2>5. s \in f /\ s \in Row /\ s.ref \in Refs /\ Certain(s.ref, D, f)
    BY <2>2, <2>4, <1>d, <1>r, RowTypes DEF UnderwayRows
  <2>6. ASSUME NEW y \in f, y.table = r.table, Certain(y.ref, D, f)
        PROVE  y.ref = NoRef \/ Resolves(D, y.ref)
    <3>1. y.ref = NoRef \/ Resolves(f, y.ref)
      BY <2>1, <2>6, <1>5, KeyTables DEF NoStrayMarks, Sound, Closed, Resolves
    <3> QED BY <3>1, <2>6 DEF Certain
  <2>7. s.ref = NoRef \/ Resolves(D, s.ref)
    BY <2>4, <2>5, <2>6
  <2>8. r.ref = NoRef \/ Resolves(D, r.ref)
    BY <2>2, <2>6
  <2>9. Of(db.map, s.ref) = Of(db.map, r.ref)
    BY <2>1, <2>2, <2>4
  <2>10. s.ref = r.ref
    BY <2>5, <2>7, <2>8, <2>9, <1>r, OfInjective
  <2>11. s = r
    BY <2>1, <2>4, <2>5, <2>10 DEF Sound, OnePerRef
  <2> QED BY <2>11
<1>6. db2.ok \in BOOLEAN
  BY <1>1
<1>7. good => db2.ok
  BY <1>1, <1>4, <1>5 DEF UnderwayOk
<1>8. ASSUME db2.ok, NEW x \in db2.rows, NEW y \in db2.rows, x.owner = p, y.owner = p,
             x.table \in Unique, y.table = x.table, y.ref = x.ref
      PROVE  x = y
  <2>1. PICK new : /\ db2.rows = db.rows \cup {new}
                   /\ new.table = r.table /\ new.owner = p /\ new.ref = ref
    BY <1>2
  <2>2. db.ok /\ Free(db.rows, r.table, p, ref)
    BY <1>1, <1>8
  <2>3. CASE x \in db.rows /\ y \in db.rows
    BY <2>2, <2>3, <1>8 DEF UnderwayOk
  <2>4. CASE x = new /\ y = new
    BY <2>4
  <2>5. CASE x \in db.rows /\ y = new
    BY <2>1, <2>2, <2>5, <1>8 DEF Free
  <2>6. CASE x = new /\ y \in db.rows
    BY <2>1, <2>2, <2>6, <1>8 DEF Free
  <2> QED BY <2>1, <2>3, <2>4, <2>5, <2>6, <1>8
<1> HIDE DEF keyOk, free
<1>9. UnderwayOk(db2, good, p)
  BY <1>6, <1>7, <1>8 DEF UnderwayOk
<1> QED BY <1>9 DEF db2

LEMMA LinkOne ==
  ASSUME NEW db, NEW D, NEW S, NEW p, NEW f, NEW rs, NEW sq, NEW ts, NEW good \in BOOLEAN,
         Sound(f, ts), Underway(db, D, S, p, f, rs, sq, ts, good),
         NEW r \in D, r \notin S, r.table \in Linked, Certain(r.ref, D, f)
  PROVE  Underway(RestoreLink(db, r, p), D, S \cup {r}, p, f, rs, sq, ts, good)
<1> DEFINE db2 == RestoreLink(db, r, p)
           ref == Of(db.map, r.ref)
           img == Moved(db.map, S, p, r)
           next == Moved(db.map, S \cup {r}, p, r)
<1>u. UnderwayRows(db, D, S, p, f, rs, sq, ts) /\ UnderwayOk(db, good, p)
  BY DEF Underway
<1>d. D \in SUBSET Row /\ D \subseteq f /\ S \subseteq D /\ MapOK(db.map, D, sq)
  BY <1>u DEF UnderwayRows, Sound
<1>r. r \in Row /\ r.ref \in Refs
  BY <1>d, RowTypes
<1>1. ASSUME NEW s \in D, s # r PROVE Moved(db.map, S \cup {r}, p, s) = Moved(db.map, S, p, s)
  BY <1>1 DEF Moved
<1>2. \A s \in D : s.table \notin Linked \/ s \in S \cup {r} => Certain(s.ref, D, f)
  BY <1>u DEF UnderwayRows
<1>3. CASE r.ref = NoRef
  <2>1. db2 = db
    BY <1>3 DEF RestoreLink
  <2>2. next = img
    BY <1>3, <1>d, <1>r, MovedRow DEF Moved
  <2>3. {Moved(db.map, S \cup {r}, p, s) : s \in D} = {Moved(db.map, S, p, s) : s \in D}
    BY <1>1, <2>2
  <2> HIDE DEF db2
  <2>4. UnderwayRows(db2, D, S \cup {r}, p, f, rs, sq, ts)
    BY <2>1, <2>3, <1>2, <1>u DEF UnderwayRows
  <2> QED BY <2>1, <2>4, <1>u DEF Underway, db2
<1>4. CASE r.ref # NoRef
  <2>1. img \in db.rows /\ RefTo(img) = Of(db.map, RefTo(r)) /\ Of(db.map, RefTo(r)) \in Refs
    BY <1>u, <1>d, <1>r, MovedRow DEF UnderwayRows
  <2>2. (CHOOSE x \in db.rows : Names(x, Of(db.map, RefTo(r)))) = img
    <3>1. \A x \in db.rows : Names(x, Of(db.map, RefTo(r))) <=> x = img
      BY <2>1, <1>u, NamesIt DEF UnderwayRows, Distinct
    <3> QED BY <3>1, <2>1
  <2>3. /\ db2.rows = (db.rows \ {img}) \cup {[img EXCEPT !.ref = ref]}
        /\ db2.seq = db.seq /\ db2.map = db.map
        /\ db2.ok = (db.ok /\ Resolves(db.rows, ref))
    BY <1>4, <2>2 DEF RestoreLink, SetRef
  <2>4. [img EXCEPT !.ref = ref] = next
    BY DEF Moved
  <2>5. next.table = img.table /\ next.id = img.id /\ next.owner = img.owner /\ RefTo(next) = RefTo(img)
        /\ img.table = r.table /\ img.owner = p
    BY DEF Moved, RefTo
  <2>6. ASSUME NEW s \in D, s # r PROVE Moved(db.map, S, p, s) # img
    <3>1. Of(db.map, RefTo(s)) # Of(db.map, RefTo(r))
      BY <2>6, <1>u DEF UnderwayRows
    <3>2. RefTo(Moved(db.map, S, p, s)) # RefTo(img)
      BY <3>1, <1>d, <1>r, MovedRow
    <3> QED BY <3>2
  <2>7. img \notin Others(rs, p)
    BY <2>5 DEF Others
  <2> HIDE DEF img, next, db2
  <2>8. db2.rows = Others(rs, p) \cup {Moved(db2.map, S \cup {r}, p, s) : s \in D}
    <3>1. {Moved(db.map, S \cup {r}, p, s) : s \in D}
            = ({Moved(db.map, S, p, s) : s \in D} \ {img}) \cup {next}
      BY <1>1, <2>6 DEF img, next
    <3>2. db.rows = Others(rs, p) \cup {Moved(db.map, S, p, s) : s \in D}
      BY <1>u DEF UnderwayRows
    <3> QED BY <3>1, <3>2, <2>3, <2>4, <2>7
  <2>9. db2.rows = (db.rows \ {img}) \cup {next}
    BY <2>3, <2>4
  <2>10. Distinct(db2.rows)
    BY <2>1, <2>5, <2>9, <1>u DEF UnderwayRows, Distinct
  <2>11. \A x \in db2.rows : x.table \in ts /\ x.id \in Nat /\ x.id # 0 /\ x.id <= db2.seq[x.table]
    BY <2>1, <2>3, <2>5, <2>9, <1>u DEF UnderwayRows
  <2>12. UnderwayRows(db2, D, S \cup {r}, p, f, rs, sq, ts)
    BY <2>3, <2>8, <2>10, <2>11, <1>2, <1>u DEF UnderwayRows
  <2>13. Resolves(db.rows, ref)
    <3>1. Resolves(f, r.ref)
      BY <1>4, <1>d, KeyTables DEF Sound, Closed, Resolves
    <3>2. Resolves(D, r.ref)
      BY <3>1, <1>4 DEF Certain
    <3> QED BY <3>2, <1>r, <1>u, ImageNamed
  <2>14. \A x, y \in db2.rows :
            x.owner = p /\ y.owner = p /\ x.table \in Unique /\ y.table = x.table /\ y.ref = x.ref
            /\ db2.ok => x = y
    <3>1. next.table \notin Unique
      BY <2>5, KeyTables
    <3> QED BY <3>1, <2>3, <2>9, <1>u DEF UnderwayOk
  <2>15. UnderwayOk(db2, good, p)
    <3>1. db2.ok = db.ok
      BY <2>3, <2>13, <1>u DEF UnderwayOk
    <3> QED BY <3>1, <2>14, <1>u DEF UnderwayOk
  <2> QED BY <2>12, <2>15 DEF Underway, db2
<1> QED BY <1>3, <1>4

(* What a loop over a table computes, number by number.                    *)
Loop(g, n, db, link, p, own) ==
  g = [i \in 0..n |-> IF i = 0 THEN db ELSE RestoreOne(g[i - 1], link, i, p, own)]

LEMMA LoopExists ==
  ASSUME NEW n \in Nat, NEW db, NEW link, NEW p, NEW own
  PROVE  \E g : Loop(g, n, db, link, p, own)
<1> DEFINE T == {k \in Nat : \E g : Loop(g, k, db, link, p, own)}
<1>1. 0 \in T
  <2> DEFINE g == [i \in 0..0 |-> db]
  <2>1. \A i \in 0..0 : i = 0
    OBVIOUS
  <2>2. Loop(g, 0, db, link, p, own)
    BY <2>1 DEF Loop
  <2> QED BY <2>2
<1>2. ASSUME NEW k \in Nat, k \in T PROVE k + 1 \in T
  <2>1. PICK g : Loop(g, k, db, link, p, own)
    BY <1>2
  <2> DEFINE h == [i \in 0..(k + 1) |->
                     IF i = k + 1 THEN RestoreOne(g[k], link, k + 1, p, own) ELSE g[i]]
  <2>2. ASSUME NEW i \in 0..(k + 1)
        PROVE  h[i] = IF i = 0 THEN db ELSE RestoreOne(h[i - 1], link, i, p, own)
    <3>1. CASE i = k + 1
      <4>1. h[i - 1] = g[k]
        BY <3>1
      <4> QED BY <3>1, <4>1
    <3>2. CASE i # k + 1
      <4>1. i \in 0..k /\ h[i] = g[i]
        BY <3>2
      <4>2. g[i] = IF i = 0 THEN db ELSE RestoreOne(g[i - 1], link, i, p, own)
        BY <2>1, <4>1 DEF Loop
      <4>3. i # 0 => h[i - 1] = g[i - 1]
        BY <3>2
      <4> QED BY <4>1, <4>2, <4>3
    <3> QED BY <3>1, <3>2
  <2>3. Loop(h, k + 1, db, link, p, own)
    BY <2>2 DEF Loop
  <2> HIDE DEF h
  <2> QED BY <2>3
<1> HIDE DEF T
<1>3. n \in T
  BY <1>1, <1>2, Induct
<1> QED BY <1>3 DEF T

LEMMA EachIsALoop ==
  ASSUME NEW db, NEW t, NEW link, NEW p, NEW f, NEW own,
         \A r : r \in own <=> r \in f /\ r.table = t,
         own # {}, NEW n \in Nat, n = LastId(own)
  PROVE  \E g : Loop(g, n, db, link, p, own) /\ RestoreEach(db, t, link, p, f) = g[n]
<1> DEFINE g == CHOOSE h : Loop(h, n, db, link, p, own)
<1>1. Loop(g, n, db, link, p, own)
  BY LoopExists
<1>2. RestoreEach(db, t, link, p, f) = g[n]
  <2>1. own = {r \in f : r.table = t}
    OBVIOUS
  <2> QED BY <2>1 DEF RestoreEach, Loop
<1> QED BY <1>1, <1>2

LEMMA LastIdIsLast ==
  ASSUME NEW f, f \subseteq Row, \E n \in Nat : \A r \in f : r.id <= n,
         NEW own \in SUBSET f, own # {}
  PROVE  LastId(own) \in Nat /\ \A r \in own : r.id <= LastId(own)
<1> DEFINE ids == {r.id : r \in own}
<1>1. PICK n \in Nat : \A r \in f : r.id <= n
  OBVIOUS
<1>2. \A r \in own : r.id \in Nat
  BY RowTypes
<1>3. ids \in SUBSET Nat /\ ids # {} /\ \A x \in ids : x <= n
  BY <1>1, <1>2
<1> HIDE DEF ids
<1>4. Max(ids) \in ids /\ \A x \in ids : x <= Max(ids)
  BY <1>1, <1>3, MaxIsInTheSet
<1>5. Max(ids) \in Nat /\ \A r \in own : r.id <= Max(ids)
  BY <1>3, <1>4 DEF ids
<1> QED BY <1>5 DEF LastId, ids

LEMMA NextOfTable ==
  ASSUME NEW f, NEW ts, Sound(f, ts), NEW t, NEW k \in Nat,
         NEW row \in f, row.table = t, row.id = k + 1
  PROVE  /\ {r \in {s \in f : s.table = t} : r.id = k + 1} = {row}
         /\ {r \in {s \in f : s.table = t} : r.id <= k + 1}
              = {r \in {s \in f : s.table = t} : r.id <= k} \cup {row}
<1>1. \A r \in f : r.id \in Nat
  BY RowTypes DEF Sound
<1>2. \A r \in f : r.table = t /\ r.id = k + 1 => r = row
  BY SameName DEF Sound, Distinct
<1>3. \A r \in f : r.id <= k + 1 <=> r.id <= k \/ r.id = k + 1
  BY <1>1
<1> QED BY <1>2, <1>3

LEMMA InsertLoop ==
  ASSUME NEW db, NEW D, NEW S, NEW p, NEW f, NEW rs, NEW sq, NEW ts, NEW good \in BOOLEAN,
         sq \in [ts -> Nat], FileOK(f, ts), good => NoStrayMarks(f),
         Underway(db, D, S, p, f, rs, sq, ts, good),
         NEW t,
         \A r \in f : r.table = t => r \notin D /\ (t \notin Linked => Certain(r.ref, D, f))
  PROVE  Underway(InsertAll(db, t, p, f), D \cup {r \in f : r.table = t}, S, p, f, rs, sq, ts, good)
<1> DEFINE own == {r \in f : r.table = t}
           done(k) == D \cup {r \in own : r.id <= k}
<1>f. Sound(f, ts) /\ f \subseteq Row /\ (\E n \in Nat : \A r \in f : r.id <= n)
      /\ \A r \in f : r.id \in Nat /\ r.id # 0
  BY RowTypes DEF FileOK, Sound
<1>o. PICK o : \A r \in f : r.owner = o
  BY DEF FileOK
<1>1. CASE own = {}
  BY <1>1 DEF InsertAll, RestoreEach
<1>2. CASE own # {}
  <2> DEFINE n == LastId(own)
  <2>1. n \in Nat /\ \A r \in own : r.id <= n
    <3>1. own \in SUBSET f
      OBVIOUS
    <3> HIDE DEF own
    <3> QED BY <3>1, <1>2, <1>f, LastIdIsLast
  <2>2. PICK g : Loop(g, n, db, FALSE, p, own) /\ InsertAll(db, t, p, f) = g[n]
    <3> HIDE DEF own
    <3>1. \A r : r \in own <=> r \in f /\ r.table = t
      BY DEF own
    <3> HIDE DEF n
    <3>2. n = LastId(own)
      BY DEF n
    <3> DEFINE link == FALSE
    <3> HIDE DEF link
    <3>3. \E g : Loop(g, n, db, link, p, own) /\ RestoreEach(db, t, link, p, f) = g[n]
      BY <1>2, <2>1, <3>1, <3>2, EachIsALoop
    <3> QED BY <3>3 DEF InsertAll, link
  <2> HIDE DEF n
  <2> DEFINE Good(k) == Underway(g[k], done(k), S, p, f, rs, sq, ts, good)
             T == {k \in Nat : k <= n => Good(k)}
  <2>3. 0 \in T
    <3>1. g[0] = db
      BY <2>1, <2>2 DEF Loop
    <3>2. {r \in own : r.id <= 0} = {}
      BY <1>f
    <3>3. done(0) = D
      BY <3>2
    <3> HIDE DEF done
    <3> QED BY <3>1, <3>3
  <2>4. ASSUME NEW k \in Nat, k \in T PROVE k + 1 \in T
    <3>1. SUFFICES ASSUME k + 1 <= n PROVE Good(k + 1)
      <4> HIDE DEF Good
      <4> QED OBVIOUS
    <3>2. k <= n /\ Good(k)
      BY <2>1, <2>4, <3>1
    <3>3. g[k + 1] = RestoreOne(g[k], FALSE, k + 1, p, own)
      <4>1. k + 1 \in 0..n /\ k + 1 # 0 /\ (k + 1) - 1 = k
        BY <2>1, <3>1
      <4> HIDE DEF own
      <4> QED BY <4>1, <2>2 DEF Loop
    <3> DEFINE found == {r \in own : r.id = k + 1}
    <3>4. CASE found = {}
      <4>1. g[k + 1] = g[k]
        BY <3>3, <3>4 DEF RestoreOne
      <4>2. \A r \in own : r.id <= k + 1 <=> r.id <= k
        BY <1>f, <3>4
      <4>3. done(k + 1) = done(k)
        BY <4>2
      <4> HIDE DEF done
      <4> QED BY <3>2, <4>1, <4>3
    <3>5. CASE found # {}
      <4>1. PICK row \in found : TRUE
        BY <3>5
      <4>2. row \in f /\ row.table = t /\ row.id = k + 1
        BY <4>1
      <4>3. found = {row} /\ done(k + 1) = done(k) \cup {row}
        BY <4>2, <1>f, NextOfTable
      <4>4. g[k + 1] = RestoreRow(g[k], row, p)
        <5>1. (CHOOSE r \in found : TRUE) = row
          BY <4>3
        <5> QED BY <5>1, <3>3, <3>5 DEF RestoreOne
      <4>5. row \notin done(k)
        <5>1. row \notin D
          BY <4>2
        <5>2. ~ (row.id <= k)
          BY <4>2
        <5> QED BY <5>1, <5>2
      <4>6. row.table \notin Linked => Certain(row.ref, done(k), f)
        <5>1. row.table \notin Linked => Certain(row.ref, D, f)
          BY <4>2
        <5> QED BY <5>1 DEF Certain, Resolves
      <4> HIDE DEF done, found, own
      <4>7. UnderwayRows(g[k], done(k), S, p, f, rs, sq, ts) /\ UnderwayOk(g[k], good, p)
        BY <3>2 DEF Underway
      <4>8. UnderwayRows(g[k + 1], done(k + 1), S, p, f, rs, sq, ts)
        BY <4>2, <4>3, <4>4, <4>5, <4>6, <4>7, <1>f, InsertOneRows
      <4>9. UnderwayOk(g[k + 1], good, p)
        BY <4>2, <4>3, <4>4, <4>5, <4>6, <4>7, <1>f, <1>o, InsertOneOk
      <4> QED BY <4>8, <4>9 DEF Underway
    <3> QED BY <3>4, <3>5
  <2> HIDE DEF T, Good
  <2>5. n \in T
    BY <2>1, <2>3, <2>4, Induct
  <2>6. Underway(g[n], done(n), S, p, f, rs, sq, ts, good)
    BY <2>1, <2>5 DEF T, Good
  <2>7. done(n) = D \cup own
    BY <2>1
  <2> HIDE DEF done
  <2> QED BY <2>2, <2>6, <2>7
<1> QED BY <1>1, <1>2

LEMMA LinkLoop ==
  ASSUME NEW db, NEW D, NEW S, NEW p, NEW f, NEW rs, NEW sq, NEW ts, NEW good \in BOOLEAN,
         FileOK(f, ts), Underway(db, D, S, p, f, rs, sq, ts, good),
         NEW t \in Linked,
         \A r \in f : r.table = t => r \in D /\ r \notin S /\ Certain(r.ref, D, f)
  PROVE  Underway(LinkAll(db, t, p, f), D, S \cup {r \in f : r.table = t}, p, f, rs, sq, ts, good)
<1> DEFINE own == {r \in f : r.table = t}
           done(k) == S \cup {r \in own : r.id <= k}
<1>f. Sound(f, ts) /\ f \subseteq Row /\ (\E n \in Nat : \A r \in f : r.id <= n)
      /\ \A r \in f : r.id \in Nat /\ r.id # 0
  BY RowTypes DEF FileOK, Sound
<1>1. CASE own = {}
  BY <1>1 DEF LinkAll, RestoreEach
<1>2. CASE own # {}
  <2> DEFINE n == LastId(own)
  <2>1. n \in Nat /\ \A r \in own : r.id <= n
    <3>1. own \in SUBSET f
      OBVIOUS
    <3> HIDE DEF own
    <3> QED BY <3>1, <1>2, <1>f, LastIdIsLast
  <2>2. PICK g : Loop(g, n, db, TRUE, p, own) /\ LinkAll(db, t, p, f) = g[n]
    <3> HIDE DEF own
    <3>1. \A r : r \in own <=> r \in f /\ r.table = t
      BY DEF own
    <3> HIDE DEF n
    <3>2. n = LastId(own)
      BY DEF n
    <3> DEFINE link == TRUE
    <3> HIDE DEF link
    <3>3. \E g : Loop(g, n, db, link, p, own) /\ RestoreEach(db, t, link, p, f) = g[n]
      BY <1>2, <2>1, <3>1, <3>2, EachIsALoop
    <3> QED BY <3>3 DEF LinkAll, link
  <2> HIDE DEF n
  <2> DEFINE Good(k) == Underway(g[k], D, done(k), p, f, rs, sq, ts, good)
             T == {k \in Nat : k <= n => Good(k)}
  <2>3. 0 \in T
    <3>1. g[0] = db
      BY <2>1, <2>2 DEF Loop
    <3>2. {r \in own : r.id <= 0} = {}
      BY <1>f
    <3>3. done(0) = S
      BY <3>2
    <3> HIDE DEF done
    <3> QED BY <3>1, <3>3
  <2>4. ASSUME NEW k \in Nat, k \in T PROVE k + 1 \in T
    <3>1. SUFFICES ASSUME k + 1 <= n PROVE Good(k + 1)
      <4> HIDE DEF Good
      <4> QED OBVIOUS
    <3>2. k <= n /\ Good(k)
      BY <2>1, <2>4, <3>1
    <3>3. g[k + 1] = RestoreOne(g[k], TRUE, k + 1, p, own)
      <4>1. k + 1 \in 0..n /\ k + 1 # 0 /\ (k + 1) - 1 = k
        BY <2>1, <3>1
      <4> HIDE DEF own
      <4> QED BY <4>1, <2>2 DEF Loop
    <3> DEFINE found == {r \in own : r.id = k + 1}
    <3>4. CASE found = {}
      <4>1. g[k + 1] = g[k]
        BY <3>3, <3>4 DEF RestoreOne
      <4>2. \A r \in own : r.id <= k + 1 <=> r.id <= k
        BY <1>f, <3>4
      <4>3. done(k + 1) = done(k)
        BY <4>2
      <4> HIDE DEF done
      <4> QED BY <3>2, <4>1, <4>3
    <3>5. CASE found # {}
      <4>1. PICK row \in found : TRUE
        BY <3>5
      <4>2. row \in f /\ row.table = t /\ row.id = k + 1
        BY <4>1
      <4>3. found = {row} /\ done(k + 1) = done(k) \cup {row}
        BY <4>2, <1>f, NextOfTable
      <4>4. g[k + 1] = RestoreLink(g[k], row, p)
        <5>1. (CHOOSE r \in found : TRUE) = row
          BY <4>3
        <5> QED BY <5>1, <3>3, <3>5 DEF RestoreOne
      <4>5. row \notin done(k)
        <5>1. row \notin S
          BY <4>2
        <5>2. ~ (row.id <= k)
          BY <4>2
        <5> QED BY <5>1, <5>2
      <4>6. row \in D /\ row.table \in Linked /\ Certain(row.ref, D, f)
        BY <4>2
      <4> HIDE DEF done, found, own
      <4>7. Underway(g[k], D, done(k), p, f, rs, sq, ts, good)
        BY <3>2
      <4>8. Underway(g[k + 1], D, done(k + 1), p, f, rs, sq, ts, good)
        BY <4>3, <4>4, <4>5, <4>6, <4>7, <1>f, LinkOne
      <4> QED BY <4>8
    <3> QED BY <3>4, <3>5
  <2> HIDE DEF T, Good
  <2>5. n \in T
    BY <2>1, <2>3, <2>4, Induct
  <2>6. Underway(g[n], D, done(n), p, f, rs, sq, ts, good)
    BY <2>1, <2>5 DEF T, Good
  <2>7. done(n) = S \cup own
    BY <2>1
  <2> HIDE DEF done
  <2> QED BY <2>2, <2>6, <2>7
<1> QED BY <1>1, <1>2

(* What is to be inserted before a table, so that its references are known. *)
Targets(t) ==
  IF HasKey(t) THEN {Parent[t]}
  ELSE IF t \in DOMAIN LooseTarget THEN LooseTarget[t] ELSE {}

(* A restore between two loops: tables T are inserted, tables L linked.     *)
Held(f, T) == {r \in f : r.table \in T}
Setting(f, sq, ts, good) ==
  /\ sq \in [ts -> Nat] /\ FileOK(f, ts)
  /\ good \in BOOLEAN /\ (good => NoStrayMarks(f))
Stage(db, T, L, p, f, rs, sq, ts, good) ==
  Underway(db, Held(f, T), Held(f, L), p, f, rs, sq, ts, good)

LEMMA TargetsAre ==
  /\ Targets("lots") = {} /\ Targets("sales") = {"lots"} /\ Targets("fund_ops") = {"fund_ops"}
  /\ Targets("goals") = {} /\ Targets("term_deposits") = {"goals"}
  /\ Targets("deposit_topups") = {"term_deposits"} /\ Targets("goal_ops") = {"goals"}
  /\ Targets("reserve_ops") = {"reserve_loans"} /\ Targets("reserve_loans") = {"reserve_ops"}
  /\ Targets("debts") = {"debts"} /\ Targets("debt_ops") = {"debts"}
  /\ Targets("debt_marks") = {"debts"} /\ Targets("npf_accounts") = {}
  /\ Targets("npf_ops") = {"npf_accounts"} /\ Targets("npf_nav") = {"npf_accounts"}
  /\ Targets("plan_flows") = {"npf_accounts"} /\ Targets("plan_flow_revisions") = {"plan_flows"}
  /\ Targets("plan_receipts") = {"plan_flows"}
  /\ Targets("decisions") = {"lots", "fund_ops", "term_deposits", "npf_ops", "goal_ops",
                             "reserve_ops"}
BY DEF Targets, HasKey, Parent, LooseTarget

LEMMA CertainOnce ==
  ASSUME NEW f, NEW ts, Sound(f, ts), NEW T, NEW r \in f, Targets(r.table) \subseteq T
  PROVE  Certain(r.ref, Held(f, T), f)
<1>1. SUFFICES ASSUME r.ref # NoRef, Resolves(f, r.ref) PROVE Resolves(Held(f, T), r.ref)
  BY DEF Certain
<1>2. Aims(r.table, r.ref)
  BY DEF Sound
<1>3. r.ref.to \in Targets(r.table)
  BY <1>1, <1>2 DEF Aims, Targets
<1> QED BY <1>1, <1>3 DEF Resolves, Held, Names

LEMMA InsertStage ==
  ASSUME NEW db, NEW T, NEW L, NEW p, NEW f, NEW rs, NEW sq, NEW ts, NEW good,
         Setting(f, sq, ts, good),
         Stage(db, T, L, p, f, rs, sq, ts, good),
         NEW t, t \notin T, t \notin Linked => Targets(t) \subseteq T,
         NEW U, U = T \cup {t}
  PROVE  Stage(InsertAll(db, t, p, f), U, L, p, f, rs, sq, ts, good)
<1> DEFINE own == {r \in f : r.table = t}
<1>1. Held(f, U) = Held(f, T) \cup own
  BY DEF Held
<1>2. \A r \in f : r.table = t =>
        r \notin Held(f, T) /\ (t \notin Linked => Certain(r.ref, Held(f, T), f))
  <2>1. ASSUME NEW r \in f, r.table = t, t \notin Linked PROVE Certain(r.ref, Held(f, T), f)
    BY <2>1, CertainOnce DEF Setting, FileOK
  <2> QED BY <2>1 DEF Held
<1>3. Underway(db, Held(f, T), Held(f, L), p, f, rs, sq, ts, good)
  BY DEF Stage
<1>4. Underway(InsertAll(db, t, p, f), Held(f, T) \cup own, Held(f, L), p, f, rs, sq, ts, good)
  BY <1>2, <1>3, InsertLoop DEF Setting
<1> HIDE DEF own
<1> QED BY <1>1, <1>4 DEF Stage

LEMMA LinkStage ==
  ASSUME NEW db, NEW T, NEW L, NEW p, NEW f, NEW rs, NEW sq, NEW ts, NEW good,
         Setting(f, sq, ts, good),
         Stage(db, T, L, p, f, rs, sq, ts, good),
         NEW t \in Linked, t \in T, t \notin L, Targets(t) \subseteq T,
         NEW M, M = L \cup {t}
  PROVE  Stage(LinkAll(db, t, p, f), T, M, p, f, rs, sq, ts, good)
<1> DEFINE own == {r \in f : r.table = t}
<1>1. Held(f, M) = Held(f, L) \cup own
  BY DEF Held
<1>2. \A r \in f : r.table = t =>
        r \in Held(f, T) /\ r \notin Held(f, L) /\ Certain(r.ref, Held(f, T), f)
  <2>1. ASSUME NEW r \in f, r.table = t PROVE Certain(r.ref, Held(f, T), f)
    BY <2>1, CertainOnce DEF Setting, FileOK
  <2> QED BY <2>1 DEF Held
<1>3. Underway(db, Held(f, T), Held(f, L), p, f, rs, sq, ts, good)
  BY DEF Stage
<1>4. Underway(LinkAll(db, t, p, f), Held(f, T), Held(f, L) \cup own, p, f, rs, sq, ts, good)
  BY <1>2, <1>3, LinkLoop DEF Setting
<1> HIDE DEF own
<1> QED BY <1>1, <1>4 DEF Stage

(* The tables a group of loops is about, and those before it.              *)
Papers == {"lots", "sales", "fund_ops"}
Savings == Papers \cup {"goals", "term_deposits", "deposit_topups", "reserve_ops",
                        "reserve_loans", "goal_ops"}
Debts == Savings \cup {"debts", "debt_ops", "debt_marks"}
Pensions == Debts \cup {"npf_accounts", "npf_ops", "npf_nav"}
Everything == Pensions \cup {"plan_flows", "plan_flow_revisions", "plan_receipts", "decisions"}

LEMMA PapersStage ==
  ASSUME NEW db, NEW p, NEW f, NEW rs, NEW sq, NEW ts, NEW good,
         Setting(f, sq, ts, good),
         Stage(db, {}, {}, p, f, rs, sq, ts, good)
  PROVE  Stage(RestorePapers(db, p, f), Papers, {"fund_ops"}, p, f, rs, sq, ts, good)
<1> DEFINE is(d, T, L) == Stage(d, T, L, p, f, rs, sq, ts, good)
           lots == InsertAll(db, "lots", p, f)
           sales == InsertAll(lots, "sales", p, f)
           ops == InsertAll(sales, "fund_ops", p, f)
           linked == LinkAll(ops, "fund_ops", p, f)
<1>1. is(lots, {"lots"}, {})
  BY InsertStage, TargetsAre DEF Linked, Papers, Savings, Debts, Pensions, Everything
<1> HIDE DEF lots
<1>2. is(sales, {"lots", "sales"}, {})
  BY <1>1, InsertStage, TargetsAre DEF Linked, Papers, Savings, Debts, Pensions, Everything
<1> HIDE DEF sales
<1>3. is(ops, {"lots", "sales", "fund_ops"}, {})
  BY <1>2, InsertStage, TargetsAre DEF Linked, Papers, Savings, Debts, Pensions, Everything
<1> HIDE DEF ops
<1>4. is(linked, Papers, {"fund_ops"})
  BY <1>3, LinkStage, TargetsAre DEF Linked, Papers, Savings, Debts, Pensions, Everything
<1> HIDE DEF linked
<1> QED BY <1>4 DEF RestorePapers, lots, sales, ops, linked

LEMMA SavingsStage ==
  ASSUME NEW db, NEW p, NEW f, NEW rs, NEW sq, NEW ts, NEW good,
         Setting(f, sq, ts, good),
         Stage(db, Papers, {"fund_ops"}, p, f, rs, sq, ts, good)
  PROVE  Stage(RestoreSavings(db, p, f), Savings, {"fund_ops", "reserve_ops"}, p, f, rs, sq, ts, good)
<1> DEFINE is(d, T, L) == Stage(d, T, L, p, f, rs, sq, ts, good)
           goals == InsertAll(db, "goals", p, f)
           deposits == InsertAll(goals, "term_deposits", p, f)
           topups == InsertAll(deposits, "deposit_topups", p, f)
           ops == InsertAll(topups, "reserve_ops", p, f)
           loans == InsertAll(ops, "reserve_loans", p, f)
           linked == LinkAll(loans, "reserve_ops", p, f)
           moves == InsertAll(linked, "goal_ops", p, f)
<1>1. is(goals, Papers \cup {"goals"}, {"fund_ops"})
  BY InsertStage, TargetsAre DEF Linked, Papers, Savings, Debts, Pensions, Everything
<1> HIDE DEF goals
<1>2. is(deposits, Papers \cup {"goals", "term_deposits"}, {"fund_ops"})
  BY <1>1, InsertStage, TargetsAre DEF Linked, Papers, Savings, Debts, Pensions, Everything
<1> HIDE DEF deposits
<1>3. is(topups, Papers \cup {"goals", "term_deposits", "deposit_topups"}, {"fund_ops"})
  BY <1>2, InsertStage, TargetsAre DEF Linked, Papers, Savings, Debts, Pensions, Everything
<1> HIDE DEF topups
<1>4. is(ops, Papers \cup {"goals", "term_deposits", "deposit_topups", "reserve_ops"}, {"fund_ops"})
  BY <1>3, InsertStage, TargetsAre DEF Linked, Papers, Savings, Debts, Pensions, Everything
<1> HIDE DEF ops
<1>5. is(loans, Papers \cup {"goals", "term_deposits", "deposit_topups", "reserve_ops",
                             "reserve_loans"}, {"fund_ops"})
  BY <1>4, InsertStage, TargetsAre DEF Linked, Papers, Savings, Debts, Pensions, Everything
<1> HIDE DEF loans
<1>6. is(linked, Papers \cup {"goals", "term_deposits", "deposit_topups", "reserve_ops",
                              "reserve_loans"}, {"fund_ops", "reserve_ops"})
  BY <1>5, LinkStage, TargetsAre DEF Linked, Papers, Savings, Debts, Pensions, Everything
<1> HIDE DEF linked
<1>7. is(moves, Savings, {"fund_ops", "reserve_ops"})
  BY <1>6, InsertStage, TargetsAre DEF Linked, Papers, Savings, Debts, Pensions, Everything
<1> HIDE DEF moves
<1> QED BY <1>7 DEF RestoreSavings, goals, deposits, topups, ops, loans, linked, moves

LEMMA DebtsStage ==
  ASSUME NEW db, NEW p, NEW f, NEW rs, NEW sq, NEW ts, NEW good,
         Setting(f, sq, ts, good),
         Stage(db, Savings, {"fund_ops", "reserve_ops"}, p, f, rs, sq, ts, good)
  PROVE  Stage(RestoreDebts(db, p, f), Debts, {"fund_ops", "reserve_ops", "debts"},
               p, f, rs, sq, ts, good)
<1> DEFINE is(d, T, L) == Stage(d, T, L, p, f, rs, sq, ts, good)
           debts == InsertAll(db, "debts", p, f)
           linked == LinkAll(debts, "debts", p, f)
           ops == InsertAll(linked, "debt_ops", p, f)
           marks == InsertAll(ops, "debt_marks", p, f)
<1>1. is(debts, Savings \cup {"debts"}, {"fund_ops", "reserve_ops"})
  BY InsertStage, TargetsAre DEF Linked, Papers, Savings, Debts, Pensions, Everything
<1> HIDE DEF debts
<1>2. is(linked, Savings \cup {"debts"}, {"fund_ops", "reserve_ops", "debts"})
  BY <1>1, LinkStage, TargetsAre DEF Linked, Papers, Savings, Debts, Pensions, Everything
<1> HIDE DEF linked
<1>3. is(ops, Savings \cup {"debts", "debt_ops"}, {"fund_ops", "reserve_ops", "debts"})
  BY <1>2, InsertStage, TargetsAre DEF Linked, Papers, Savings, Debts, Pensions, Everything
<1> HIDE DEF ops
<1>4. is(marks, Debts, {"fund_ops", "reserve_ops", "debts"})
  BY <1>3, InsertStage, TargetsAre DEF Linked, Papers, Savings, Debts, Pensions, Everything
<1> HIDE DEF marks
<1> QED BY <1>4 DEF RestoreDebts, debts, linked, ops, marks

LEMMA PensionsStage ==
  ASSUME NEW db, NEW p, NEW f, NEW rs, NEW sq, NEW ts, NEW good,
         Setting(f, sq, ts, good),
         Stage(db, Debts, {"fund_ops", "reserve_ops", "debts"}, p, f, rs, sq, ts, good)
  PROVE  Stage(RestorePensions(db, p, f), Pensions, {"fund_ops", "reserve_ops", "debts"},
               p, f, rs, sq, ts, good)
<1> DEFINE is(d, T, L) == Stage(d, T, L, p, f, rs, sq, ts, good)
           accounts == InsertAll(db, "npf_accounts", p, f)
           ops == InsertAll(accounts, "npf_ops", p, f)
           values == InsertAll(ops, "npf_nav", p, f)
<1>1. is(accounts, Debts \cup {"npf_accounts"}, {"fund_ops", "reserve_ops", "debts"})
  BY InsertStage, TargetsAre DEF Linked, Papers, Savings, Debts, Pensions, Everything
<1> HIDE DEF accounts
<1>2. is(ops, Debts \cup {"npf_accounts", "npf_ops"}, {"fund_ops", "reserve_ops", "debts"})
  BY <1>1, InsertStage, TargetsAre DEF Linked, Papers, Savings, Debts, Pensions, Everything
<1> HIDE DEF ops
<1>3. is(values, Pensions, {"fund_ops", "reserve_ops", "debts"})
  BY <1>2, InsertStage, TargetsAre DEF Linked, Papers, Savings, Debts, Pensions, Everything
<1> HIDE DEF values
<1> QED BY <1>3 DEF RestorePensions, accounts, ops, values

LEMMA PlanStage ==
  ASSUME NEW db, NEW p, NEW f, NEW rs, NEW sq, NEW ts, NEW good,
         Setting(f, sq, ts, good),
         Stage(db, Pensions, {"fund_ops", "reserve_ops", "debts"}, p, f, rs, sq, ts, good)
  PROVE  Stage(RestorePlan(db, p, f), Everything, {"fund_ops", "reserve_ops", "debts"},
               p, f, rs, sq, ts, good)
<1> DEFINE is(d, T, L) == Stage(d, T, L, p, f, rs, sq, ts, good)
           flows == InsertAll(db, "plan_flows", p, f)
           revisions == InsertAll(flows, "plan_flow_revisions", p, f)
           receipts == InsertAll(revisions, "plan_receipts", p, f)
           decided == InsertAll(receipts, "decisions", p, f)
<1>1. is(flows, Pensions \cup {"plan_flows"}, {"fund_ops", "reserve_ops", "debts"})
  BY InsertStage, TargetsAre DEF Linked, Papers, Savings, Debts, Pensions, Everything
<1> HIDE DEF flows
<1>2. is(revisions, Pensions \cup {"plan_flows", "plan_flow_revisions"},
        {"fund_ops", "reserve_ops", "debts"})
  BY <1>1, InsertStage, TargetsAre DEF Linked, Papers, Savings, Debts, Pensions, Everything
<1> HIDE DEF revisions
<1>3. is(receipts, Pensions \cup {"plan_flows", "plan_flow_revisions", "plan_receipts"},
        {"fund_ops", "reserve_ops", "debts"})
  BY <1>2, InsertStage, TargetsAre DEF Linked, Papers, Savings, Debts, Pensions, Everything
<1> HIDE DEF receipts
<1>4. is(decided, Everything, {"fund_ops", "reserve_ops", "debts"})
  BY <1>3, InsertStage, TargetsAre DEF Linked, Papers, Savings, Debts, Pensions, Everything
<1> HIDE DEF decided
<1> QED BY <1>4 DEF RestorePlan, flows, revisions, receipts, decided

LEMMA RestoreDone ==
  ASSUME FileOK(file, tables), seq \in [tables -> Nat], tables \subseteq AllTables,
         Distinct(rows),
         \A x \in rows : x.table \in tables /\ x.id \in Nat /\ x.id # 0 /\ x.id <= seq[x.table],
         NEW p
  PROVE  Underway(Restored(p, file), file, Held(file, Linked), p, file, rows, seq, tables,
                  WipeAllowed(p) /\ NoStrayMarks(file))
<1> DEFINE good == WipeAllowed(p) /\ NoStrayMarks(file)
           wiped == [rows |-> Wiped(p), seq |-> seq, map |-> {}, ok |-> WipeAllowed(p)]
           is(d, T, L) == Stage(d, T, L, p, file, rows, seq, tables, good)
<1>1. Setting(file, seq, tables, good)
  <2>1. good \in BOOLEAN
    BY DEF WipeAllowed
  <2>2. good => NoStrayMarks(file)
    OBVIOUS
  <2> HIDE DEF good
  <2> QED BY <2>1, <2>2 DEF Setting
<1>2. is(wiped, {}, {})
  <2>1. Held(file, {}) = {}
    BY DEF Held
  <2>2. wiped.rows = Others(rows, p)
    BY DEF Wiped, OfPortfolio, Others
  <2>3. wiped.seq = seq /\ wiped.map = {} /\ wiped.ok = WipeAllowed(p)
    OBVIOUS
  <2>4. WipeAllowed(p) \in BOOLEAN
    BY DEF WipeAllowed
  <2> HIDE DEF wiped
  <2>5. \A t \in tables : wiped.seq[t] >= seq[t]
    BY <2>3
  <2>6. {Moved({}, {}, p, r) : r \in {}} = {}
    OBVIOUS
  <2>7. wiped.rows \subseteq rows /\ \A x \in wiped.rows : x.owner # p
    BY <2>2 DEF Others
  <2>8. UnderwayRows(wiped, {}, {}, p, file, rows, seq, tables)
    BY <2>2, <2>3, <2>5, <2>6, <2>7 DEF UnderwayRows, MapOK, Distinct
  <2>9. UnderwayOk(wiped, good, p)
    BY <2>3, <2>4, <2>7 DEF UnderwayOk
  <2> QED BY <2>1, <2>8, <2>9 DEF Stage, Underway
<1> HIDE DEF good, wiped
<1> DEFINE papers == RestorePapers(wiped, p, file)
           savings == RestoreSavings(papers, p, file)
           debts == RestoreDebts(savings, p, file)
           pensions == RestorePensions(debts, p, file)
           plan == RestorePlan(pensions, p, file)
<1>3. is(papers, Papers, {"fund_ops"})
  BY <1>1, <1>2, PapersStage
<1> HIDE DEF papers
<1>4. is(savings, Savings, {"fund_ops", "reserve_ops"})
  BY <1>1, <1>3, SavingsStage
<1> HIDE DEF savings
<1>5. is(debts, Debts, {"fund_ops", "reserve_ops", "debts"})
  BY <1>1, <1>4, DebtsStage
<1> HIDE DEF debts
<1>6. is(pensions, Pensions, {"fund_ops", "reserve_ops", "debts"})
  BY <1>1, <1>5, PensionsStage
<1> HIDE DEF pensions
<1>7. is(plan, Everything, {"fund_ops", "reserve_ops", "debts"})
  BY <1>1, <1>6, PlanStage
<1>8. Restored(p, file) = plan
  BY DEF Restored, plan, pensions, debts, savings, papers, wiped
<1> HIDE DEF plan
<1>9. AllTables \subseteq Everything /\ Linked = {"fund_ops", "reserve_ops", "debts"}
  BY Tables DEF Exported, ExportedFirst, ExportedNext, ExportedLast, Everything, Pensions,
     Debts, Savings, Papers, Linked
<1>10. Held(file, Everything) = file
  BY <1>9 DEF FileOK, Sound, Held
<1> QED BY <1>7, <1>8, <1>9, <1>10 DEF Stage, good

(* What has become of the file after a restore.                            *)
LEMMA RestoredRow ==
  ASSUME NEW map, NEW p \in Portfolios, NEW ts, NEW sq \in [ts -> Nat], Sound(file, ts),
         MapOK(map, file, sq), NEW r \in file
  PROVE  LET x == Moved(map, Held(file, Linked), p, r) IN
         /\ x \in Row /\ x.table = r.table /\ x.owner = p /\ x.op = r.op /\ x.label = r.label
         /\ x.ref = Of(map, r.ref) /\ Aims(r.table, x.ref)
         /\ x.ref = NoRef <=> r.ref = NoRef
<1> DEFINE x == Moved(map, Held(file, Linked), p, r)
<1>1. r \in Row /\ r.table \in AllTables /\ r.ref \in Refs /\ RefTo(r) \in Refs
  BY RowTypes DEF Sound
<1>2. /\ x.table = r.table /\ x.owner = p /\ x.op = r.op /\ x.label = r.label
      /\ x.id = Of(map, RefTo(r)).id /\ x.ref = Of(map, r.ref)
  <2>1. r.table \in Linked => r \in Held(file, Linked)
    BY DEF Held
  <2> QED BY <2>1 DEF Moved
<1>3. (\A m \in map : m.now \in Nat /\ m.now # 0) /\ \A k, n \in map : k.was = n.was => k = n
  <2>1. ASSUME NEW m \in map PROVE m.now \in Nat /\ m.now # 0
    <3>1. PICK s \in file : m.was = RefTo(s)
      BY DEF MapOK
    <3>2. m.was.to \in ts
      BY <3>1 DEF Sound, RefTo
    <3>3. sq[m.was.to] \in Nat /\ m.now \in Nat /\ m.now > sq[m.was.to]
      BY <3>2 DEF MapOK
    <3> QED BY <3>3
  <2> QED BY <2>1 DEF MapOK
<1>4. Of(map, RefTo(r)) \in Refs /\ Of(map, r.ref) \in Refs /\ Of(map, r.ref).to = r.ref.to
  BY <1>1, <1>3, OfType
<1>5. x \in Row
  <2>1. Of(map, RefTo(r)).id \in Nat
    BY <1>4 DEF Refs
  <2>2. x = [table |-> x.table, id |-> x.id, owner |-> x.owner, ref |-> x.ref, op |-> x.op,
             label |-> x.label]
    BY DEF Moved
  <2>3. /\ x.table \in AllTables /\ x.id \in Nat /\ x.owner \in Portfolios /\ x.ref \in Refs
        /\ x.op \in Ops /\ x.label \in Nat
    BY <2>1, <1>1, <1>2, <1>4, RowTypes
  <2> HIDE DEF x
  <2> QED BY <2>2, <2>3 DEF Row
<1>6. Of(map, NoRef) = NoRef
  <2>1. file \in SUBSET Row
    BY DEF Sound
  <2> QED BY <2>1, <1>1, MovedRow
<1>7. r.ref # NoRef => r.ref.id # 0
  BY DEF Sound, Aims
<1>8. r.ref # NoRef => Of(map, r.ref).id # 0
  <2>1. CASE \E m \in map : m.was = r.ref
    <3>1. PICK m \in map : m.was = r.ref
      BY <2>1
    <3>2. Of(map, r.ref) = [r.ref EXCEPT !.id = m.now]
      BY <3>1, <1>3, OfKnown
    <3>3. Of(map, r.ref).id = m.now
      BY <3>2, <1>1 DEF Refs
    <3> QED BY <3>3, <1>3
  <2>2. CASE \A m \in map : m.was # r.ref
    BY <2>2, <1>7, OfUnknown
  <2> QED BY <2>1, <2>2
<1>9. x.ref = NoRef <=> r.ref = NoRef
  <2>1. NoRef.id = 0
    BY DEF NoRef
  <2> QED BY <2>1, <1>2, <1>6, <1>8
<1>10. Aims(r.table, x.ref)
  <2>1. Aims(r.table, r.ref)
    BY DEF Sound
  <2> QED BY <2>1, <1>2, <1>4, <1>6, <1>8 DEF Aims
<1> HIDE DEF x
<1>11. /\ x \in Row /\ x.table = r.table /\ x.owner = p /\ x.op = r.op /\ x.label = r.label
       /\ x.ref = Of(map, r.ref) /\ Aims(r.table, x.ref)
       /\ x.ref = NoRef <=> r.ref = NoRef
  BY <1>2, <1>5, <1>9, <1>10
<1> QED BY <1>11 DEF x

RowsOK(rs, sq, n, ts) ==
  /\ Sound(rs, ts)
  /\ \A r \in rs : r.id <= sq[r.table] /\ r.label <= n
  /\ \A r, s \in rs : r.owner = s.owner /\ r.label = s.label => r = s

LEMMA RestoredIsSound ==
  ASSUME FileOK(file, tables), seq \in [tables -> Nat], tables \subseteq AllTables,
         NEW n \in Nat, RowsOK(rows, seq, n, tables),
         \A r \in file : r.label <= n, \A r, s \in file : r.label = s.label => r = s,
         NEW p \in Portfolios, Restored(p, file).ok
  PROVE  /\ RowsOK(Restored(p, file).rows, Restored(p, file).seq, n, tables)
         /\ Restored(p, file).seq \in [tables -> Nat]
         /\ \A t \in tables : Restored(p, file).seq[t] >= seq[t]
<1> DEFINE db == Restored(p, file)
           S == Held(file, Linked)
           is(r) == Moved(db.map, S, p, r)
<1> HIDE DEF db, S
<1>1. \A x \in rows : x.table \in tables /\ x.id \in Nat /\ x.id # 0 /\ x.id <= seq[x.table]
  BY RowTypes DEF RowsOK, Sound
<1>2. Underway(db, file, S, p, file, rows, seq, tables, WipeAllowed(p) /\ NoStrayMarks(file))
  BY <1>1, RestoreDone DEF RowsOK, Sound, db, S
<1>3. UnderwayRows(db, file, S, p, file, rows, seq, tables)
  BY <1>2 DEF Underway
<1>4. /\ db.rows = Others(rows, p) \cup {is(r) : r \in file}
      /\ MapOK(db.map, file, seq) /\ Distinct(db.rows)
      /\ db.seq \in [tables -> Nat] /\ \A t \in tables : db.seq[t] >= seq[t]
      /\ \A x \in db.rows : x.table \in tables /\ x.id \in Nat /\ x.id # 0 /\ x.id <= db.seq[x.table]
  BY <1>3 DEF UnderwayRows
<1>f. Sound(file, tables)
  BY DEF FileOK
<1>5. ASSUME NEW r \in file
      PROVE  /\ is(r) \in Row /\ is(r).table = r.table /\ is(r).owner = p /\ is(r).op = r.op
             /\ is(r).label = r.label
             /\ is(r).ref = Of(db.map, r.ref) /\ Aims(r.table, is(r).ref)
             /\ is(r).ref = NoRef <=> r.ref = NoRef
  BY <1>4, <1>f, RestoredRow DEF S
<1> HIDE DEF is
<1>6. db.rows \subseteq Row
  BY <1>4, <1>5 DEF RowsOK, Sound, Others
<1>7. \A x \in db.rows : Aims(x.table, x.ref)
  BY <1>4, <1>5 DEF RowsOK, Sound, Others
<1>8. OnePerRef(db.rows)
  <2>1. \A x, y \in db.rows :
          x.owner = p /\ y.owner = p /\ x.table \in Unique /\ y.table = x.table /\ y.ref = x.ref
            => x = y
    BY <1>2 DEF Underway, UnderwayOk, db
  <2>2. \A x \in db.rows : x.owner # p => x \in rows
    BY <1>4, <1>5 DEF Others
  <2> QED BY <2>1, <2>2 DEF RowsOK, Sound, OnePerRef
<1>9. Closed(db.rows)
  <2>1. ASSUME NEW x \in Others(rows, p), HasKey(x.table), x.ref # NoRef
        PROVE  \E parent \in db.rows : Names(parent, x.ref) /\ parent.owner = x.owner
    <3>1. PICK parent \in rows : Names(parent, x.ref) /\ parent.owner = x.owner
      BY <2>1 DEF RowsOK, Sound, Closed, Others
    <3>2. parent \in Others(rows, p)
      BY <3>1 DEF Others
    <3> QED BY <3>1, <3>2, <1>4
  <2>2. ASSUME NEW r \in file, HasKey(r.table), r.ref # NoRef
        PROVE  \E parent \in db.rows : Names(parent, is(r).ref) /\ parent.owner = p
    <3>1. Resolves(file, r.ref) /\ r.ref \in Refs
      BY <2>2, <1>f, RowTypes DEF Sound, Closed, Resolves
    <3>2. PICK s \in file : Names(is(s), Of(db.map, r.ref))
      BY <3>1, <1>3, <1>f, ImageNamed DEF is
    <3> QED BY <3>2, <1>4, <1>5
  <2> QED BY <2>1, <2>2, <1>4, <1>5 DEF Closed
<1>10. \A x \in db.rows : x.label <= n
  BY <1>4, <1>5 DEF RowsOK, Others
<1>11. \A x, y \in db.rows : x.owner = y.owner /\ x.label = y.label => x = y
  BY <1>4, <1>5 DEF RowsOK, Others
<1>12. Sound(db.rows, tables)
  BY <1>4, <1>6, <1>7, <1>8, <1>9 DEF Sound
<1> QED BY <1>4, <1>10, <1>11, <1>12 DEF RowsOK, db

Known(ref, p, rs, sq, ts) ==
  /\ ref \in Refs /\ ref.to \in ts /\ ref.id # 0 /\ ref.id <= sq[ref.to]
  /\ \A x \in rs : Names(x, ref) => x.owner = p

RequestOK(q, rs, sq, ts) ==
  \/ q = Idle
  \/ /\ q.kind = "insert" /\ q.table \in ts /\ q.owner \in Portfolios
     /\ Aims(q.table, q.ref) /\ Known(q.ref, q.owner, rs, sq, ts)
  \/ /\ q.kind = "update" /\ q.table \in ts /\ q.owner \in Portfolios
     /\ HasKey(q.table) /\ q.table \notin Unique
     /\ Aims(q.table, q.ref)
     /\ q.ref = NoRef \/ Known(q.ref, q.owner, rs, sq, ts)
  \/ /\ q \in [kind : {"second leg"}, owner : Portfolios, a : Nat] /\ "fund_ops" \in ts
     /\ Known(Leg(q.a), q.owner, rs, sq, ts)
  \/ /\ q \in [kind : {"link"}, owner : Portfolios, a : Nat, b : Nat, again : BOOLEAN]
     /\ "fund_ops" \in ts
     /\ Known(Leg(q.a), q.owner, rs, sq, ts) /\ Known(Leg(q.b), q.owner, rs, sq, ts)
  \/ q \in [kind : {"delete"}, row : Refs, owner : Portfolios,
            left : {<<>>, <<"deposit_topups">>, <<"npf_ops", "npf_nav">>, <<"npf_nav">>},
            since : Nat]

(* From one state to the next ids are not used again, nor rows given away. *)
Grown(rs, sq, rs2, sq2, ts) ==
  /\ sq2 \in [ts -> Nat] /\ \A t \in ts : sq2[t] >= sq[t]
  /\ \A x \in rs2 : \/ \E r \in rs : r.table = x.table /\ r.id = x.id /\ r.owner = x.owner
                    \/ x.id > sq[x.table]

LEMMA KnownStays ==
  ASSUME NEW ref, NEW p, NEW rs, NEW sq, NEW rs2, NEW sq2, NEW ts, sq \in [ts -> Nat],
         Known(ref, p, rs, sq, ts), Grown(rs, sq, rs2, sq2, ts)
  PROVE  Known(ref, p, rs2, sq2, ts)
<1>1. ref.to \in ts /\ ref.id \in Nat /\ ref.id <= sq[ref.to]
  BY DEF Known, Refs
<1>2. sq[ref.to] \in Nat /\ sq2[ref.to] \in Nat /\ sq2[ref.to] >= sq[ref.to]
  BY <1>1 DEF Grown
<1>3. ref.id <= sq2[ref.to]
  BY <1>1, <1>2
<1>4. ASSUME NEW x \in rs2, Names(x, ref) PROVE x.owner = p
  <2>1. x.table = ref.to /\ x.id = ref.id
    BY <1>4 DEF Names
  <2>2. ~ (x.id > sq[x.table])
    BY <2>1, <1>1, <1>2
  <2>3. PICK r \in rs : r.table = x.table /\ r.id = x.id /\ r.owner = x.owner
    BY <2>2 DEF Grown
  <2> QED BY <2>1, <2>3 DEF Known, Names
<1> QED BY <1>3, <1>4 DEF Known

(* The rows that a request has looked up still have their owner: what a    *)
(* restore may take away.                                                  *)
LEMMA LookedUpStays ==
  ASSUME NEW q, NEW rs, NEW sq, NEW rs2, NEW sq2, NEW ts, sq \in [ts -> Nat],
         sq2 \in [ts -> Nat], \A t \in ts : sq2[t] >= sq[t],
         RequestOK(q, rs, sq, ts),
         \A ref \in LookedUp(q) : \A r \in rs2 : Names(r, ref) => r.owner = q.owner
  PROVE  RequestOK(q, rs2, sq2, ts)
<1>1. ASSUME NEW ref \in LookedUp(q), Known(ref, q.owner, rs, sq, ts)
      PROVE  Known(ref, q.owner, rs2, sq2, ts)
  <2>1. ref \in Refs /\ ref.to \in ts /\ ref.id # 0 /\ ref.id \in Nat /\ ref.id <= sq[ref.to]
    BY <1>1 DEF Known, Refs
  <2>2. sq[ref.to] \in Nat /\ sq2[ref.to] \in Nat /\ sq2[ref.to] >= sq[ref.to]
    BY <2>1
  <2>3. ref.id <= sq2[ref.to]
    BY <2>1, <2>2
  <2> QED BY <1>1, <2>1, <2>3 DEF Known
<1>2. /\ q.kind \in {"insert", "update"} => q.ref \in LookedUp(q)
      /\ q.kind = "second leg" => Leg(q.a) \in LookedUp(q)
      /\ q.kind = "link" => Leg(q.a) \in LookedUp(q) /\ Leg(q.b) \in LookedUp(q)
  BY DEF LookedUp
<1>3. /\ q.kind \in {"insert", "update"} /\ Known(q.ref, q.owner, rs, sq, ts)
           => Known(q.ref, q.owner, rs2, sq2, ts)
      /\ q.kind = "second leg" /\ Known(Leg(q.a), q.owner, rs, sq, ts)
           => Known(Leg(q.a), q.owner, rs2, sq2, ts)
      /\ q.kind = "link" /\ Known(Leg(q.a), q.owner, rs, sq, ts)
           => Known(Leg(q.a), q.owner, rs2, sq2, ts)
      /\ q.kind = "link" /\ Known(Leg(q.b), q.owner, rs, sq, ts)
           => Known(Leg(q.b), q.owner, rs2, sq2, ts)
  BY <1>1, <1>2
<1> QED BY <1>3 DEF RequestOK

LEMMA RequestStays ==
  ASSUME NEW q, NEW rs, NEW sq, NEW rs2, NEW sq2, NEW ts, sq \in [ts -> Nat],
         RequestOK(q, rs, sq, ts), Grown(rs, sq, rs2, sq2, ts)
  PROVE  RequestOK(q, rs2, sq2, ts)
<1>1. \A ref, p : Known(ref, p, rs, sq, ts) => Known(ref, p, rs2, sq2, ts)
  BY KnownStays
<1> QED BY <1>1 DEF RequestOK

-----------------------------------------------------------------------------
(* What may happen to rows. *)

LEMMA RowAdded ==
  ASSUME NEW rs, NEW ts, NEW sq \in [ts -> Nat], NEW n \in Nat, RowsOK(rs, sq, n, ts),
         NEW new \in Row, new.table \in ts, new.id = sq[new.table] + 1, new.label = n + 1,
         Aims(new.table, new.ref),
         HasKey(new.table) /\ new.ref # NoRef =>
           \E parent \in rs : Names(parent, new.ref) /\ parent.owner = new.owner,
         Free(rs, new.table, new.owner, new.ref),
         NEW rs2, rs2 = rs \cup {new}, NEW n2, n2 = n + 1,
         NEW sq2, sq2 = [sq EXCEPT ![new.table] = new.id]
  PROVE  /\ RowsOK(rs2, sq2, n2, ts) /\ Grown(rs, sq, rs2, sq2, ts)
         /\ Others(rs, new.owner) = Others(rs2, new.owner)
<1>1. \A r \in rs : r \in Row /\ r.table \in ts /\ r.id \in Nat /\ r.id <= sq[r.table]
                    /\ r.label \in Nat /\ r.label <= n
  BY RowTypes DEF RowsOK, Sound
<1>2. /\ sq2 \in [ts -> Nat] /\ sq2[new.table] = new.id /\ new.id > sq[new.table]
      /\ \A t \in ts : t # new.table => sq2[t] = sq[t]
  OBVIOUS
<1>3. \A t \in ts : sq2[t] >= sq[t]
  BY <1>2
<1>4. \A r \in rs : RefTo(r) # RefTo(new)
  <2>1. ASSUME NEW r \in rs, r.table = new.table PROVE r.id # new.id
    <3>1. r.id \in Nat /\ r.id <= sq[new.table] /\ sq[new.table] \in Nat
      BY <2>1, <1>1
    <3> QED BY <3>1
  <2> QED BY <2>1, SameName
<1>5. Distinct(rs2)
  BY <1>4 DEF RowsOK, Sound, Distinct
<1>6. OnePerRef(rs2)
  BY DEF RowsOK, Sound, OnePerRef, Free
<1>7. Closed(rs2)
  BY DEF RowsOK, Sound, Closed
<1>8. Sound(rs2, ts)
  BY <1>5, <1>6, <1>7 DEF RowsOK, Sound
<1>9. ASSUME NEW r \in rs2 PROVE r.id <= sq2[r.table] /\ r.label <= n2
  <2>1. CASE r \in rs
    <3>1. sq2[r.table] \in Nat /\ sq[r.table] \in Nat /\ sq2[r.table] >= sq[r.table]
      BY <2>1, <1>1, <1>2, <1>3
    <3> QED BY <3>1, <2>1, <1>1
  <2>2. CASE r = new
    BY <2>2, <1>2
  <2> QED BY <2>1, <2>2
<1>10. \A r, s \in rs2 : r.owner = s.owner /\ r.label = s.label => r = s
  <2>1. \A r \in rs : r.label # new.label
    BY <1>1
  <2> QED BY <2>1 DEF RowsOK
<1>11. RowsOK(rs2, sq2, n2, ts)
  BY <1>8, <1>9, <1>10 DEF RowsOK
<1>12. Grown(rs, sq, rs2, sq2, ts)
  BY <1>2, <1>3 DEF Grown
<1>13. Others(rs, new.owner) = Others(rs2, new.owner)
  BY DEF Others
<1> QED BY <1>11, <1>12, <1>13

SameBut(x, r) ==
  x.table = r.table /\ x.id = r.id /\ x.owner = r.owner /\ x.op = r.op /\ x.label = r.label

LEMMA RowsRepointed ==
  ASSUME NEW rs, NEW ts, NEW sq \in [ts -> Nat], NEW n \in Nat, RowsOK(rs, sq, n, ts),
         NEW rs2, rs2 \subseteq Row,
         \A x \in rs2 : \E r \in rs :
           /\ SameBut(x, r)
           /\ \/ x = r
              \/ /\ x.table \notin Unique /\ Aims(x.table, x.ref)
                 /\ HasKey(x.table) /\ x.ref # NoRef =>
                      \E parent \in rs : Names(parent, x.ref) /\ parent.owner = x.owner,
         \A r \in rs : \E x \in rs2 : SameBut(x, r),
         Distinct(rs2)
  PROVE  /\ RowsOK(rs2, sq, n, ts)
         /\ Grown(rs, sq, rs2, sq, ts)
<1>1. \A x \in rs2 : x.table \in ts /\ x.id # 0 /\ Aims(x.table, x.ref)
                     /\ x.id <= sq[x.table] /\ x.label <= n
  BY DEF RowsOK, Sound, SameBut
<1>2. OnePerRef(rs2)
  BY DEF RowsOK, Sound, OnePerRef, SameBut
<1>3. Closed(rs2)
  <2>1. ASSUME NEW x \in rs2, HasKey(x.table), x.ref # NoRef
        PROVE  \E parent \in rs : Names(parent, x.ref) /\ parent.owner = x.owner
    BY <2>1 DEF RowsOK, Sound, Closed
  <2> QED BY <2>1 DEF Closed, SameBut, Names
<1>4. \A x, y \in rs2 : x.owner = y.owner /\ x.label = y.label => x = y
  <2>1. ASSUME NEW x \in rs2, NEW y \in rs2, x.owner = y.owner, x.label = y.label PROVE x = y
    <3>1. PICK r \in rs : SameBut(x, r)
      OBVIOUS
    <3>2. PICK s \in rs : SameBut(y, s)
      OBVIOUS
    <3>3. r.owner = s.owner /\ r.label = s.label
      BY <2>1, <3>1, <3>2 DEF SameBut
    <3>5. \A u, v \in rs : u.owner = v.owner /\ u.label = v.label => u = v
      BY DEF RowsOK
    <3>6. r = s
      BY <3>3, <3>5
    <3>4. RefTo(x) = RefTo(y)
      BY <3>1, <3>2, <3>6, SameName DEF SameBut
    <3> QED BY <3>4 DEF Distinct
  <2> QED BY <2>1
<1>5. RowsOK(rs2, sq, n, ts)
  BY <1>1, <1>2, <1>3, <1>4 DEF RowsOK, Sound
<1>6. Grown(rs, sq, rs2, sq, ts)
  BY DEF Grown, SameBut
<1> QED BY <1>5, <1>6

LEMMA RowsGone ==
  ASSUME NEW rs, NEW ts, NEW sq \in [ts -> Nat], NEW n \in Nat, RowsOK(rs, sq, n, ts),
         NEW rs2, rs2 \subseteq rs, Closed(rs2)
  PROVE  RowsOK(rs2, sq, n, ts) /\ Grown(rs, sq, rs2, sq, ts)
<1>1. Sound(rs2, ts)
  BY DEF RowsOK, Sound, Distinct, OnePerRef
<1>2. RowsOK(rs2, sq, n, ts)
  BY <1>1 DEF RowsOK
<1>3. Grown(rs, sq, rs2, sq, ts)
  BY DEF Grown
<1> QED BY <1>2, <1>3

LEMMA GrownTwice ==
  ASSUME NEW rs, NEW sq, NEW rs2, NEW sq2, NEW rs3, NEW sq3, NEW ts, sq \in [ts -> Nat],
         rs3 \subseteq Row, \A x \in rs3 : x.table \in ts,
         Grown(rs, sq, rs2, sq2, ts), Grown(rs2, sq2, rs3, sq3, ts)
  PROVE  Grown(rs, sq, rs3, sq3, ts)
<1>1. ASSUME NEW t \in ts PROVE sq3[t] >= sq[t]
  <2>1. sq[t] \in Nat /\ sq2[t] \in Nat /\ sq3[t] \in Nat /\ sq2[t] >= sq[t] /\ sq3[t] >= sq2[t]
    BY DEF Grown
  <2> QED BY <2>1
<1>2. ASSUME NEW x \in rs3
      PROVE  \/ \E r \in rs : r.table = x.table /\ r.id = x.id /\ r.owner = x.owner
             \/ x.id > sq[x.table]
  <2>1. CASE \E r \in rs2 : r.table = x.table /\ r.id = x.id /\ r.owner = x.owner
    BY <2>1 DEF Grown
  <2>2. CASE x.id > sq2[x.table]
    <3>1. /\ sq[x.table] \in Nat /\ sq2[x.table] \in Nat /\ sq2[x.table] >= sq[x.table]
          /\ x.id \in Nat
      BY RowTypes DEF Grown
    <3> QED BY <2>2, <3>1
  <2> QED BY <2>1, <2>2 DEF Grown
<1> QED BY <1>1, <1>2 DEF Grown

(* A row is pointed elsewhere. *)
LEMMA SetRefKeeps ==
  ASSUME NEW rs, NEW ts, NEW sq \in [ts -> Nat], NEW n \in Nat, RowsOK(rs, sq, n, ts),
         NEW r \in rs, NEW ref \in Refs, r.table \notin Unique, Aims(r.table, ref),
         HasKey(r.table) /\ ref # NoRef =>
           \E parent \in rs : Names(parent, ref) /\ parent.owner = r.owner
  PROVE  /\ RowsOK(SetRef(rs, r, ref), sq, n, ts)
         /\ Grown(rs, sq, SetRef(rs, r, ref), sq, ts)
         /\ Others(SetRef(rs, r, ref), r.owner) = Others(rs, r.owner)
<1> DEFINE x == [r EXCEPT !.ref = ref]
           rs2 == (rs \ {r}) \cup {x}
<1>1. r \in Row
  BY DEF RowsOK, Sound
<1>2. x \in Row /\ SameBut(x, r) /\ x.ref = ref
  BY <1>1 DEF Row, SameBut
<1>3. RefTo(x) = RefTo(r)
  BY <1>2, SameName DEF SameBut
<1>4. Distinct(rs2)
  <2>1. \A s \in rs \ {r} : RefTo(s) # RefTo(r)
    BY DEF RowsOK, Sound, Distinct
  <2> HIDE DEF x
  <2> QED BY <2>1, <1>3 DEF RowsOK, Sound, Distinct
<1> HIDE DEF x
<1>5. \A y \in rs2 : \E s \in rs :
        /\ SameBut(y, s)
        /\ \/ y = s
           \/ /\ y.table \notin Unique /\ Aims(y.table, y.ref)
              /\ HasKey(y.table) /\ y.ref # NoRef =>
                   \E parent \in rs : Names(parent, y.ref) /\ parent.owner = y.owner
  BY <1>2 DEF SameBut
<1>6. \A s \in rs : \E y \in rs2 : SameBut(y, s)
  BY <1>2 DEF SameBut
<1>7. rs2 \subseteq Row
  BY <1>2 DEF RowsOK, Sound
<1>8. rs2 = SetRef(rs, r, ref)
  BY DEF SetRef, x
<1> HIDE DEF rs2
<1>9. RowsOK(rs2, sq, n, ts) /\ Grown(rs, sq, rs2, sq, ts)
  BY <1>4, <1>5, <1>6, <1>7, RowsRepointed
<1>10. Others(rs2, r.owner) = Others(rs, r.owner)
  BY <1>2 DEF Others, rs2, SameBut
<1> QED BY <1>8, <1>9, <1>10

(* Rows lose their references. *)
LEMMA ClearedKeeps ==
  ASSUME NEW rs, NEW ts, NEW sq \in [ts -> Nat], NEW n \in Nat, RowsOK(rs, sq, n, ts),
         NEW S \in SUBSET rs, \A r \in S : r.table \notin Unique,
         NEW rs2, rs2 = (rs \ S) \cup {[r EXCEPT !.ref = NoRef] : r \in S}
  PROVE  RowsOK(rs2, sq, n, ts) /\ Grown(rs, sq, rs2, sq, ts)
<1> DEFINE x(r) == [r EXCEPT !.ref = NoRef]
<1>1. \A r \in rs : r \in Row
  BY DEF RowsOK, Sound
<1>0. NoRef \in Refs
  BY DEF NoRef, Refs
<1>2. \A r \in rs : x(r) \in Row /\ SameBut(x(r), r) /\ x(r).ref = NoRef
  BY <1>0, <1>1 DEF Row, SameBut
<1>3. \A r \in rs : RefTo(x(r)) = RefTo(r)
  BY <1>2, SameName DEF SameBut
<1>4. rs2 = (rs \ S) \cup {x(r) : r \in S}
  OBVIOUS
<1> HIDE DEF x
<1>5. Distinct(rs2)
  <2>1. \A r, s \in rs : RefTo(r) = RefTo(s) => r = s
    BY DEF RowsOK, Sound, Distinct
  <2> QED BY <2>1, <1>3, <1>4 DEF Distinct
<1>6. \A y \in rs2 : \E s \in rs :
        /\ SameBut(y, s)
        /\ \/ y = s
           \/ /\ y.table \notin Unique /\ Aims(y.table, y.ref)
              /\ HasKey(y.table) /\ y.ref # NoRef =>
                   \E parent \in rs : Names(parent, y.ref) /\ parent.owner = y.owner
  <2>1. ASSUME NEW y \in rs2, y \in rs PROVE SameBut(y, y)
    BY DEF SameBut
  <2>2. \A r \in S : x(r).table \notin Unique /\ Aims(x(r).table, x(r).ref) /\ x(r).ref = NoRef
    BY <1>2 DEF SameBut, Aims
  <2> QED BY <2>1, <2>2, <1>2, <1>4
<1>7. \A s \in rs : \E y \in rs2 : SameBut(y, s)
  <2>1. ASSUME NEW y \in rs PROVE SameBut(y, y)
    BY DEF SameBut
  <2> QED BY <2>1, <1>2, <1>4
<1>8. rs2 \subseteq Row
  BY <1>1, <1>2, <1>4
<1> QED BY <1>5, <1>6, <1>7, <1>8, RowsRepointed

LEMMA DeletedKeeps ==
  ASSUME NEW rs, NEW ts, NEW sq \in [ts -> Nat], NEW n \in Nat, RowsOK(rs, sq, n, ts),
         NEW gone, gone \subseteq rs
  PROVE  /\ RowsOK(Deleted(rs, gone), sq, n, ts) /\ Grown(rs, sq, Deleted(rs, gone), sq, ts)
         /\ \A o : (\A r \in gone : r.owner = o) => Others(Deleted(rs, gone), o) = Others(rs, o)
<1> DEFINE all == gone \cup UNION {Cascade(rs, r) : r \in gone}
           left == rs \ all
<1>1. CASE \E r \in all : Children(left, r) # {}
  <2>1. Deleted(rs, gone) = rs
    BY <1>1 DEF Deleted
  <2>2. Closed(rs)
    BY DEF RowsOK, Sound
  <2> QED BY <2>1, <2>2, RowsGone
<1>2. CASE ~ \E r \in all : Children(left, r) # {}
  <2>1. Deleted(rs, gone) = left
    BY <1>2 DEF Deleted
  <2>2. Closed(left)
    <3>1. SUFFICES ASSUME NEW r \in left, HasKey(r.table), r.ref # NoRef
                   PROVE  \E parent \in left : Names(parent, r.ref) /\ parent.owner = r.owner
      BY DEF Closed
    <3>2. PICK parent \in rs : Names(parent, r.ref) /\ parent.owner = r.owner
      BY <3>1 DEF RowsOK, Sound, Closed
    <3>3. r \in Children(left, parent)
      BY <3>1, <3>2 DEF Children
    <3>4. parent \notin all
      BY <1>2, <3>3
    <3> QED BY <3>2, <3>4
  <2>3. ASSUME NEW o, \A r \in gone : r.owner = o PROVE Others(left, o) = Others(rs, o)
    <3>1. ASSUME NEW r \in gone, NEW c \in Cascade(rs, r) PROVE c.owner = o
      <4>1. c \in rs /\ HasKey(c.table) /\ Names(r, c.ref)
        BY <3>1 DEF Cascade, Children
      <4>2. c.ref \in Refs /\ c.ref # NoRef
        <5>1. c \in Row /\ r \in Row
          BY <4>1, <3>1 DEF RowsOK, Sound
        <5>2. c.ref \in Refs /\ RefTo(r) # NoRef
          BY <5>1, RowTypes
        <5> QED BY <5>2, <4>1, NamesIt
      <4>3. PICK parent \in rs : Names(parent, c.ref) /\ parent.owner = c.owner
        BY <4>1, <4>2 DEF RowsOK, Sound, Closed
      <4>4. RefTo(parent) = RefTo(r)
        BY <4>1, <4>2, <4>3, NamesIt
      <4>5. parent = r
        BY <3>1, <4>4 DEF RowsOK, Sound, Distinct
      <4> QED BY <4>3, <4>5, <2>3
    <3> QED BY <3>1, <2>3 DEF Others
  <2> HIDE DEF left, all
  <2>4. left \subseteq rs
    BY DEF left
  <2> QED BY <2>1, <2>2, <2>3, <2>4, RowsGone
<1> QED BY <1>1, <1>2

(* What every reachable state is like.                                     *)
BooksInv ==
  /\ tables \in DOMAIN Bounds /\ births \in Nat /\ seq \in [tables -> Nat]
  /\ RowsOK(rows, seq, births, tables)
  /\ DOMAIN request = Clients
  /\ \A c \in Clients : RequestOK(request[c], rows, seq, tables)
  /\ file # NoFile =>
       /\ FileOK(file, tables)
       /\ \A r \in file : r.label <= births
       /\ \A r, s \in file : r.label = s.label => r = s

(* What a statement of a request does to the rows, and to the requests.    *)
RowsStep(rs, sq, n, rs2, sq2, n2, ts) ==
  /\ RowsOK(rs2, sq2, n2, ts) /\ Grown(rs, sq, rs2, sq2, ts)
  /\ n2 \in Nat /\ n2 >= n
  /\ \E o : Others(rs, o) = Others(rs2, o)

Statement ==
  /\ RowsStep(rows, seq, births, rows', seq', births', tables)
  /\ tables' = tables /\ file' = file
  /\ DOMAIN request' = Clients
  /\ \A c \in Clients : \/ request'[c] = request[c]
                        \/ RequestOK(request'[c], rows', seq', tables)

LEMMA TablesKnown == BooksInv => tables \subseteq AllTables /\ seq \in [tables -> Nat]
BY BooksAssumption DEF BooksInv

LEMMA StatementKeeps == BooksInv /\ Statement => BooksInv'
<1> SUFFICES ASSUME BooksInv, Statement PROVE BooksInv'
  OBVIOUS
<1>1. \A c \in Clients : RequestOK(request[c], rows', seq', tables)
  BY RequestStays DEF BooksInv, Statement, RowsStep
<1>2. \A c \in Clients : RequestOK(request'[c], rows', seq', tables)
  BY <1>1 DEF Statement
<1>3. seq' \in [tables -> Nat] /\ births' \in Nat /\ births' >= births /\ births \in Nat
      /\ RowsOK(rows', seq', births', tables)
  BY DEF Statement, RowsStep, Grown, BooksInv
<1>4. file # NoFile => \A r \in file : r.label <= births'
  <2>1. ASSUME file # NoFile, NEW r \in file PROVE r.label <= births'
    <3>1. r.label \in Nat /\ r.label <= births
      BY <2>1, RowTypes DEF BooksInv, FileOK, Sound
    <3> QED BY <3>1, <1>3
  <2> QED BY <2>1
<1> QED BY <1>2, <1>3, <1>4 DEF BooksInv, Statement

LEMMA RowsStay ==
  ASSUME NEW rs, NEW sq, NEW n \in Nat, NEW ts, sq \in [ts -> Nat], RowsOK(rs, sq, n, ts)
  PROVE  RowsStep(rs, sq, n, rs, sq, n, ts)
<1>1. Grown(rs, sq, rs, sq, ts)
  <2>1. \A t \in ts : sq[t] >= sq[t]
    OBVIOUS
  <2> QED BY <2>1 DEF Grown
<1> QED BY <1>1 DEF RowsStep

LEMMA RequestSet ==
  ASSUME NEW rq, DOMAIN rq = Clients, NEW c \in Clients, NEW q, NEW rq2,
         rq2 = [rq EXCEPT ![c] = q]
  PROVE  DOMAIN rq2 = Clients /\ rq2[c] = q /\ \A d \in Clients : d # c => rq2[d] = rq[d]
OBVIOUS

LEMMA IdleOK == ASSUME NEW rs, NEW sq, NEW ts PROVE RequestOK(Idle, rs, sq, ts)
BY DEF RequestOK

LEMMA KnownRow ==
  ASSUME NEW rs, NEW sq, NEW n, NEW ts, RowsOK(rs, sq, n, ts), NEW r \in rs
  PROVE  Known(RefTo(r), r.owner, rs, sq, ts)
<1>1. r \in Row /\ r.table \in ts /\ r.id # 0 /\ r.id <= sq[r.table]
  BY DEF RowsOK, Sound
<1>2. RefTo(r) \in Refs /\ RefTo(r).to = r.table /\ RefTo(r).id = r.id
  BY <1>1, RowTypes DEF RefTo
<1>3. \A x \in rs : Names(x, RefTo(r)) => x = r
  BY <1>2, NamesIt DEF RowsOK, Sound, Distinct
<1> QED BY <1>1, <1>2, <1>3 DEF Known

-----------------------------------------------------------------------------
(* Statements that write a row. *)

LEMMA OneMore ==
  ASSUME NEW n \in Nat, NEW m, m = n + 1 PROVE m \in Nat /\ m >= n
OBVIOUS

LEMMA InsertStep ==
  ASSUME BooksInv, NEW t \in tables, NEW p \in Portfolios, NEW ref \in Refs,
         Aims(t, ref), Free(rows, t, p, ref),
         HasKey(t) /\ ref # NoRef =>
           \E parent \in rows : Names(parent, ref) /\ parent.owner = p,
         NEW op \in Ops,
         NEW new, new = NewRow(t, p, ref, op), Insert(new)
  PROVE  /\ RowsStep(rows, seq, births, rows', seq', births', tables)
         /\ new \in rows' /\ new.table = t /\ new.owner = p
<1>1. tables \subseteq AllTables /\ seq \in [tables -> Nat] /\ seq[t] \in Nat /\ births \in Nat
  BY TablesKnown DEF BooksInv
<1>2. /\ new.table = t /\ new.id = seq[t] + 1 /\ new.owner = p /\ new.ref = ref
      /\ new.label = births + 1 /\ new \in Row
  <2>1. new = [table |-> t, id |-> seq[t] + 1, owner |-> p, ref |-> ref, op |-> op,
               label |-> births + 1]
    BY DEF NewRow
  <2>2. t \in AllTables
    BY <1>1
  <2>3. seq[t] + 1 \in Nat
    BY <1>1
  <2>4. births + 1 \in Nat
    BY <1>1
  <2> QED BY <2>1, <2>2, <2>3, <2>4 DEF Row
<1>3. rows' = rows \cup {new} /\ seq' = [seq EXCEPT ![new.table] = new.id] /\ births' = births + 1
  BY DEF Insert
<1>4. RowsOK(rows, seq, births, tables)
  BY DEF BooksInv
<1>9. /\ new.table \in tables /\ new.id = seq[new.table] + 1 /\ new.label = births + 1
      /\ Aims(new.table, new.ref) /\ Free(rows, new.table, new.owner, new.ref)
      /\ HasKey(new.table) /\ new.ref # NoRef =>
           \E parent \in rows : Names(parent, new.ref) /\ parent.owner = new.owner
  BY <1>2
<1>5. RowsOK(rows', seq', births', tables)
  BY <1>1, <1>2, <1>3, <1>4, <1>9, RowAdded
<1>10. Grown(rows, seq, rows', seq', tables)
  BY <1>1, <1>2, <1>3, <1>4, <1>9, RowAdded
<1>11. Others(rows, new.owner) = Others(rows', new.owner)
  <2>1. rows' = rows \cup {new}
    BY <1>3
  <2> QED BY ONLY <2>1 DEF Others
<1>6. births' \in Nat /\ births' >= births
  BY <1>1, <1>3, OneMore
<1>7. new \in rows'
  BY <1>3
<1>8. RowsStep(rows, seq, births, rows', seq', births', tables)
  BY <1>5, <1>6, <1>10, <1>11 DEF RowsStep
<1> QED BY <1>2, <1>7, <1>8

LEMMA NoRefType == NoRef \in Refs /\ "" \in Ops /\ \A t : Aims(t, NoRef)
BY DEF NoRef, Refs, Aims, Ops

LEMMA AddRootKeeps ==
  ASSUME BooksInv, NEW t, t \notin Unique, AddRoot(t)
  PROVE  Statement
<1>1. PICK p \in Portfolios : Insert(NewRow(t, p, NoRef, ""))
  BY DEF AddRoot
<1>2. t \in tables /\ request' = request /\ tables' = tables /\ file' = file
  BY DEF AddRoot, Elsewhere
<1>3. RowsStep(rows, seq, births, rows', seq', births', tables)
  BY <1>1, <1>2, NoRefType, InsertStep DEF Free
<1> QED BY <1>2, <1>3 DEF Statement, BooksInv

LEMMA BeginAddKeeps ==
  ASSUME BooksInv, NEW c \in Clients, NEW t, NEW to, BeginAdd(c, t, to),
         \A ref : ref.to = to /\ ref.id # 0 => Aims(t, ref)
  PROVE  Statement
<1>1. /\ t \in tables /\ rows' = rows /\ seq' = seq /\ births' = births
      /\ tables' = tables /\ file' = file
  BY DEF BeginAdd, Elsewhere
<1>2. PICK p, ref : /\ p \in Portfolios /\ ref \in OwnsRow(to, p)
                    /\ request' = [request EXCEPT ![c] =
                         [kind |-> "insert", table |-> t, owner |-> p, ref |-> ref]]
  BY DEF BeginAdd
<1>3. PICK r \in rows : r.table = to /\ r.owner = p /\ ref = RefTo(r)
  BY <1>2 DEF OwnsRow, Own
<1>4. Known(ref, p, rows, seq, tables)
  BY <1>3, KnownRow DEF BooksInv
<1>5. Aims(t, ref)
  BY <1>3, <1>4 DEF RefTo, Known
<1> DEFINE q == [kind |-> "insert", table |-> t, owner |-> p, ref |-> ref]
<1>6. RequestOK(q, rows, seq, tables)
  BY <1>1, <1>2, <1>4, <1>5 DEF RequestOK
<1>7. request' = [request EXCEPT ![c] = q]
  BY <1>2
<1> HIDE DEF q
<1>8. DOMAIN request' = Clients /\ request'[c] = q
      /\ \A d \in Clients : d # c => request'[d] = request[d]
  BY <1>7, RequestSet DEF BooksInv
<1>9. RowsStep(rows, seq, births, rows', seq', births', tables)
  BY <1>1, RowsStay DEF BooksInv
<1> QED BY <1>1, <1>6, <1>8, <1>9 DEF Statement

LEMMA BeginMoveKeeps ==
  ASSUME BooksInv, NEW c \in Clients, NEW t, BeginMove(c, t), HasKey(t), t \notin Unique
  PROVE  Statement
<1>1. /\ t \in tables /\ rows' = rows /\ seq' = seq /\ births' = births
      /\ tables' = tables /\ file' = file
  BY DEF BeginMove, Elsewhere
<1>2. PICK p, r, ref : /\ p \in Portfolios /\ r \in Own(t, p)
                       /\ ref \in OwnsRow(Parent[t], p) \cup NoneOf(t)
                       /\ request' = [request EXCEPT ![c] =
                         [kind |-> "update", table |-> t, owner |-> p,
                          id |-> r.id, ref |-> ref]]
  BY DEF BeginMove
<1>3. ASSUME ref # NoRef PROVE Aims(t, ref) /\ Known(ref, p, rows, seq, tables)
  <2>1. PICK s \in rows : s.table = Parent[t] /\ s.owner = p /\ ref = RefTo(s)
    BY <1>2, <1>3 DEF OwnsRow, Own, NoneOf
  <2>2. Known(ref, p, rows, seq, tables)
    BY <2>1, KnownRow DEF BooksInv
  <2> QED BY <2>1, <2>2 DEF RefTo, Known, Aims
<1>5. Aims(t, ref) /\ (ref = NoRef \/ Known(ref, p, rows, seq, tables))
  BY <1>3, NoRefType
<1> DEFINE q == [kind |-> "update", table |-> t, owner |-> p, id |-> r.id, ref |-> ref]
<1>6. RequestOK(q, rows, seq, tables)
  BY <1>1, <1>2, <1>5 DEF RequestOK
<1>7. request' = [request EXCEPT ![c] = q]
  BY <1>2
<1> HIDE DEF q
<1>8. DOMAIN request' = Clients /\ request'[c] = q
      /\ \A d \in Clients : d # c => request'[d] = request[d]
  BY <1>7, RequestSet DEF BooksInv
<1>9. RowsStep(rows, seq, births, rows', seq', births', tables)
  BY <1>1, RowsStay DEF BooksInv
<1> QED BY <1>1, <1>6, <1>8, <1>9 DEF Statement

-----------------------------------------------------------------------------
(* What a request that is under way is known to be. *)

LEMMA Kinds ==
  ASSUME NEW q, NEW rs, NEW sq, NEW ts, RequestOK(q, rs, sq, ts)
  PROVE  /\ q.kind = "insert" =>
              /\ q.table \in ts /\ q.owner \in Portfolios
              /\ Aims(q.table, q.ref) /\ Known(q.ref, q.owner, rs, sq, ts)
         /\ q.kind = "update" =>
              /\ q.table \in ts /\ q.owner \in Portfolios /\ HasKey(q.table)
              /\ q.table \notin Unique
              /\ Aims(q.table, q.ref)
              /\ q.ref = NoRef \/ Known(q.ref, q.owner, rs, sq, ts)
         /\ q.kind = "second leg" =>
              /\ q \in [kind : {"second leg"}, owner : Portfolios, a : Nat]
              /\ "fund_ops" \in ts /\ Known(Leg(q.a), q.owner, rs, sq, ts)
         /\ q.kind = "link" =>
              /\ q \in [kind : {"link"}, owner : Portfolios, a : Nat, b : Nat, again : BOOLEAN]
              /\ "fund_ops" \in ts
              /\ Known(Leg(q.a), q.owner, rs, sq, ts) /\ Known(Leg(q.b), q.owner, rs, sq, ts)
         /\ q.kind = "delete" =>
              q \in [kind : {"delete"}, row : Refs, owner : Portfolios,
                     left : {<<>>, <<"deposit_topups">>, <<"npf_ops", "npf_nav">>, <<"npf_nav">>},
                     since : Nat]
<1>1. Idle.kind = "idle"
  BY DEF Idle
<1> QED BY <1>1 DEF RequestOK

LEMMA RequestKept == ASSUME BooksInv, NEW c \in Clients
                     PROVE  RequestOK(request[c], rows, seq, tables)
BY DEF BooksInv

(* The client is answered, or goes on with another request.                *)
LEMMA NextRequest ==
  ASSUME BooksInv, NEW c \in Clients, NEW q, request' = [request EXCEPT ![c] = q],
         RequestOK(q, rows', seq', tables), tables' = tables, file' = file,
         RowsStep(rows, seq, births, rows', seq', births', tables)
  PROVE  Statement
<1>1. DOMAIN request' = Clients /\ request'[c] = q
      /\ \A d \in Clients : d # c => request'[d] = request[d]
  BY RequestSet DEF BooksInv
<1> QED BY <1>1 DEF Statement

LEMMA ParentKnown ==
  ASSUME NEW t, NEW p, NEW ref, NEW rs, NEW sq, NEW ts, Known(ref, p, rs, sq, ts),
         HasKey(t) /\ ref # NoRef => Resolves(rs, ref)
  PROVE  HasKey(t) /\ ref # NoRef => \E parent \in rs : Names(parent, ref) /\ parent.owner = p
BY DEF Known, Resolves

LEMMA WriteRowKeeps == ASSUME BooksInv, NEW c \in Clients, WriteRow(c) PROVE Statement
<1> DEFINE q == request[c]
<1>1. q.kind = "insert" /\ request' = [request EXCEPT ![c] = Idle]
      /\ tables' = tables /\ file' = file
  BY DEF WriteRow, Answer, Elsewhere
<1>2. /\ q.table \in tables /\ q.owner \in Portfolios
      /\ Aims(q.table, q.ref) /\ Known(q.ref, q.owner, rows, seq, tables)
  BY <1>1, RequestKept, Kinds
<1>3. q.ref \in Refs
  BY <1>2 DEF Known
<1>4. CASE KeyHolds(q.table, q.ref) /\ Free(rows, q.table, q.owner, q.ref)
  <2>1. Insert(NewRow(q.table, q.owner, q.ref, ""))
    BY <1>4 DEF WriteRow
  <2>2. HasKey(q.table) /\ q.ref # NoRef =>
          \E parent \in rows : Names(parent, q.ref) /\ parent.owner = q.owner
    BY <1>2, <1>4, ParentKnown DEF KeyHolds
  <2> HIDE DEF q
  <2>3. RowsStep(rows, seq, births, rows', seq', births', tables)
    BY <1>2, <1>3, <1>4, <2>1, <2>2, NoRefType, InsertStep
  <2> QED BY <1>1, <2>3, IdleOK, NextRequest
<1>5. CASE ~ (KeyHolds(q.table, q.ref) /\ Free(rows, q.table, q.owner, q.ref))
  <2>1. rows' = rows /\ seq' = seq /\ births' = births
    BY <1>5 DEF WriteRow
  <2>2. RowsStep(rows, seq, births, rows', seq', births', tables)
    BY <2>1, RowsStay DEF BooksInv
  <2> QED BY <1>1, <2>2, IdleOK, NextRequest
<1> QED BY <1>4, <1>5

LEMMA SetRefStep ==
  ASSUME BooksInv, NEW r \in rows, NEW ref \in Refs, r.table \notin Unique, Aims(r.table, ref),
         HasKey(r.table) /\ ref # NoRef =>
           \E parent \in rows : Names(parent, ref) /\ parent.owner = r.owner,
         rows' = SetRef(rows, r, ref), seq' = seq, births' = births
  PROVE  RowsStep(rows, seq, births, rows', seq', births', tables)
<1>1. seq \in [tables -> Nat] /\ births \in Nat /\ RowsOK(rows, seq, births, tables)
  BY DEF BooksInv
<1>2. RowsOK(rows', seq', births', tables)
  BY <1>1, SetRefKeeps
<1>3. Grown(rows, seq, rows', seq', tables)
  BY <1>1, SetRefKeeps
<1>4. Others(rows', r.owner) = Others(rows, r.owner)
  BY <1>1, SetRefKeeps
<1>5. births' \in Nat /\ births' >= births
  BY <1>1
<1> QED BY <1>2, <1>3, <1>4, <1>5 DEF RowsStep

LEMMA WriteMoveKeeps == ASSUME BooksInv, NEW c \in Clients, WriteMove(c) PROVE Statement
<1> DEFINE q == request[c]
           found == {r \in rows : r.table = q.table /\ r.id = q.id /\ r.owner = q.owner}
           row == CHOOSE r \in found : TRUE
<1>1. q.kind = "update" /\ request' = [request EXCEPT ![c] = Idle]
      /\ tables' = tables /\ file' = file /\ seq' = seq /\ births' = births
      /\ rows' = IF KeyHolds(q.table, q.ref) /\ found # {} THEN SetRef(rows, row, q.ref) ELSE rows
  BY DEF WriteMove, Answer, Elsewhere
<1>2. /\ q.table \in tables /\ q.owner \in Portfolios /\ HasKey(q.table) /\ q.table \notin Unique
      /\ Aims(q.table, q.ref) /\ (q.ref = NoRef \/ Known(q.ref, q.owner, rows, seq, tables))
  BY <1>1, RequestKept, Kinds
<1>3. CASE KeyHolds(q.table, q.ref) /\ found # {}
  <2>1. row \in rows /\ row.table = q.table /\ row.owner = q.owner
    BY <1>3
  <2>2. q.ref \in Refs
    BY <1>2, NoRefType DEF Known
  <2>3. HasKey(q.table) /\ q.ref # NoRef =>
          \E parent \in rows : Names(parent, q.ref) /\ parent.owner = q.owner
    BY <1>2, <1>3, ParentKnown DEF KeyHolds
  <2>4. rows' = SetRef(rows, row, q.ref)
    BY <1>1, <1>3
  <2> HIDE DEF row, found, q
  <2>5. RowsStep(rows, seq, births, rows', seq', births', tables)
    BY <1>1, <1>2, <2>1, <2>2, <2>3, <2>4, SetRefStep
  <2> QED BY <1>1, <2>5, IdleOK, NextRequest
<1>4. CASE ~ (KeyHolds(q.table, q.ref) /\ found # {})
  <2>1. rows' = rows
    BY <1>1, <1>4
  <2>2. RowsStep(rows, seq, births, rows', seq', births', tables)
    BY <1>1, <2>1, RowsStay DEF BooksInv
  <2> QED BY <1>1, <2>2, IdleOK, NextRequest
<1> QED BY <1>3, <1>4

-----------------------------------------------------------------------------
(* Statements with another one to follow. *)

Inserted(t, p, new) ==
  /\ RowsStep(rows, seq, births, rows', seq', births', tables)
  /\ Grown(rows, seq, rows', seq', tables)
  /\ new.table = t /\ RefTo(new).id # 0 /\ Known(RefTo(new), p, rows', seq', tables)

LEMMA InsertRoot ==
  ASSUME BooksInv, NEW t \in tables, NEW p \in Portfolios, t \notin Unique,
         NEW op \in Ops, NEW new, new = NewRow(t, p, NoRef, op), Insert(new)
  PROVE  Inserted(t, p, new)
<1>1. NoRef \in Refs /\ Aims(t, NoRef) /\ Free(rows, t, p, NoRef)
  BY NoRefType DEF Free
<1>2. HasKey(t) /\ NoRef # NoRef =>
        \E parent \in rows : Names(parent, NoRef) /\ parent.owner = p
  OBVIOUS
<1>3. RowsStep(rows, seq, births, rows', seq', births', tables)
  BY <1>1, <1>2, InsertStep
<1>4. new \in rows' /\ new.table = t /\ new.owner = p
  BY <1>1, <1>2, InsertStep
<1>5. RowsOK(rows', seq', births', tables) /\ Grown(rows, seq, rows', seq', tables)
  BY <1>3 DEF RowsStep
<1>6. Known(RefTo(new), p, rows', seq', tables)
  BY <1>4, <1>5, KnownRow
<1> QED BY <1>3, <1>4, <1>5, <1>6 DEF Known, Inserted

LEMMA LegTables ==
  /\ HasKey("reserve_loans") /\ Parent["reserve_loans"] = "reserve_ops"
  /\ ~HasKey("decisions") /\ "decisions" \in DOMAIN LooseTarget
  /\ "lots" \in LooseTarget["decisions"]
  /\ HasKey("fund_ops") /\ Parent["fund_ops"] = "fund_ops"
  /\ "fund_ops" \notin Unique /\ "lots" \notin Unique /\ "reserve_ops" \notin Unique
BY DEF HasKey, Parent, LooseTarget, Unique

LEMMA WithLoanKeeps ==
  ASSUME BooksInv, NEW c \in Clients, AddReserveOpWithLoan(c) PROVE Statement
<1>1. PICK p \in Portfolios :
        LET op == NewRow("reserve_ops", p, NoRef, "")
        IN  /\ Insert(op)
            /\ request' = [request EXCEPT ![c] =
                 [kind |-> "insert", table |-> "reserve_loans", owner |-> p, ref |-> RefTo(op)]]
  BY DEF AddReserveOpWithLoan
<1>2. "reserve_ops" \in tables /\ "reserve_loans" \in tables /\ tables' = tables /\ file' = file
  BY DEF AddReserveOpWithLoan, Elsewhere
<1> DEFINE op == NewRow("reserve_ops", p, NoRef, "")
           q == [kind |-> "insert", table |-> "reserve_loans", owner |-> p, ref |-> RefTo(op)]
<1>3. Insert(op) /\ request' = [request EXCEPT ![c] = q]
  BY <1>1
<1>5. Inserted("reserve_ops", p, op)
  <2>1. op = NewRow("reserve_ops", p, NoRef, "") /\ "" \in Ops /\ "reserve_ops" \notin Unique
    BY NoRefType, LegTables
  <2> HIDE DEF op
  <2> QED BY <1>2, <1>3, <2>1, InsertRoot
<1>6. op.table = "reserve_ops" /\ RefTo(op).id # 0 /\ Known(RefTo(op), p, rows', seq', tables)
      /\ Grown(rows, seq, rows', seq', tables)
      /\ RowsStep(rows, seq, births, rows', seq', births', tables)
  BY <1>5 DEF Inserted
<1>7. RequestOK(q, rows', seq', tables)
  <2>1. RefTo(op).to = "reserve_ops"
    BY <1>6 DEF RefTo
  <2> HIDE DEF op
  <2>2. Aims("reserve_loans", RefTo(op))
    BY <1>6, <2>1, LegTables DEF Aims
  <2> QED BY <1>2, <1>6, <2>2 DEF RequestOK
<1> HIDE DEF q, op
<1> QED BY <1>2, <1>3, <1>6, <1>7, NextRequest

LEMMA WithDecisionKeeps ==
  ASSUME BooksInv, NEW c \in Clients, AddLotWithDecision(c) PROVE Statement
<1>1. PICK p \in Portfolios :
        LET lot == NewRow("lots", p, NoRef, "")
        IN  /\ Insert(lot)
            /\ request' = [request EXCEPT ![c] =
                 [kind |-> "insert", table |-> "decisions", owner |-> p, ref |-> RefTo(lot)]]
  BY DEF AddLotWithDecision
<1>2. "lots" \in tables /\ "decisions" \in tables /\ tables' = tables /\ file' = file
  BY DEF AddLotWithDecision, Elsewhere
<1> DEFINE lot == NewRow("lots", p, NoRef, "")
           q == [kind |-> "insert", table |-> "decisions", owner |-> p, ref |-> RefTo(lot)]
<1>3. Insert(lot) /\ request' = [request EXCEPT ![c] = q]
  BY <1>1
<1>5. Inserted("lots", p, lot)
  <2>1. lot = NewRow("lots", p, NoRef, "") /\ "" \in Ops /\ "lots" \notin Unique
    BY NoRefType, LegTables
  <2> HIDE DEF lot
  <2> QED BY <1>2, <1>3, <2>1, InsertRoot
<1>6. lot.table = "lots" /\ RefTo(lot).id # 0 /\ Known(RefTo(lot), p, rows', seq', tables)
      /\ Grown(rows, seq, rows', seq', tables)
      /\ RowsStep(rows, seq, births, rows', seq', births', tables)
  BY <1>5 DEF Inserted
<1>7. RequestOK(q, rows', seq', tables)
  <2>1. RefTo(lot).to = "lots"
    BY <1>6 DEF RefTo
  <2> HIDE DEF lot
  <2>2. Aims("decisions", RefTo(lot))
    BY <1>6, <2>1, LegTables DEF Aims
  <2> QED BY <1>2, <1>6, <2>2 DEF RequestOK
<1> HIDE DEF q, lot
<1> QED BY <1>2, <1>3, <1>6, <1>7, NextRequest

LEMMA LegRef ==
  ASSUME NEW op, op.table = "fund_ops" PROVE Leg(op.id) = RefTo(op)
BY DEF Leg, RefTo

LEMMA FirstLegKeeps ==
  ASSUME BooksInv, NEW c \in Clients, AddFirstLeg(c) PROVE Statement
<1>1. PICK p \in Portfolios :
        LET op == NewRow("fund_ops", p, NoRef, "")
        IN  /\ Insert(op)
            /\ request' = [request EXCEPT ![c] =
                 [kind |-> "second leg", owner |-> p, a |-> op.id]]
  BY DEF AddFirstLeg
<1>2. "fund_ops" \in tables /\ tables' = tables /\ file' = file
  BY DEF AddFirstLeg, Elsewhere
<1> DEFINE op == NewRow("fund_ops", p, NoRef, "")
           q == [kind |-> "second leg", owner |-> p, a |-> op.id]
<1>3. Insert(op) /\ request' = [request EXCEPT ![c] = q]
  BY <1>1
<1>5. Inserted("fund_ops", p, op)
  <2>1. op = NewRow("fund_ops", p, NoRef, "") /\ "" \in Ops /\ "fund_ops" \notin Unique
    BY NoRefType, LegTables
  <2> HIDE DEF op
  <2> QED BY <1>2, <1>3, <2>1, InsertRoot
<1>6. op.table = "fund_ops" /\ RefTo(op).id # 0 /\ Known(RefTo(op), p, rows', seq', tables)
      /\ Grown(rows, seq, rows', seq', tables)
      /\ RowsStep(rows, seq, births, rows', seq', births', tables)
  BY <1>5 DEF Inserted
<1>7. RequestOK(q, rows', seq', tables)
  <2> HIDE DEF op
  <2>1. Leg(op.id) = RefTo(op)
    BY <1>6, LegRef
  <2>2. op.id \in Nat
    BY <1>6 DEF Known, Refs, RefTo
  <2> QED BY <1>2, <1>6, <2>1, <2>2 DEF RequestOK
<1> HIDE DEF q, op
<1> QED BY <1>2, <1>3, <1>6, <1>7, NextRequest

LEMMA SecondLegKeeps ==
  ASSUME BooksInv, NEW c \in Clients, AddSecondLeg(c) PROVE Statement
<1> DEFINE r == request[c]
           op == NewRow("fund_ops", r.owner, NoRef, "")
           q == [kind |-> "link", owner |-> r.owner, a |-> r.a, b |-> op.id, again |-> TRUE]
<1>1. r.kind = "second leg" /\ tables' = tables /\ file' = file
      /\ Insert(op) /\ request' = [request EXCEPT ![c] = q]
  BY DEF AddSecondLeg, Elsewhere
<1>2. r \in [kind : {"second leg"}, owner : Portfolios, a : Nat]
      /\ "fund_ops" \in tables /\ Known(Leg(r.a), r.owner, rows, seq, tables)
  BY <1>1, RequestKept, Kinds
<1>3. r.owner \in Portfolios /\ r.a \in Nat
  BY <1>2
<1>5. Inserted("fund_ops", r.owner, op)
  <2>1. op = NewRow("fund_ops", r.owner, NoRef, "") /\ "" \in Ops /\ "fund_ops" \notin Unique
    BY NoRefType, LegTables
  <2> HIDE DEF op, r
  <2> QED BY <1>1, <1>2, <1>3, <2>1, InsertRoot
<1>6. op.table = "fund_ops" /\ RefTo(op).id # 0 /\ Known(RefTo(op), r.owner, rows', seq', tables)
      /\ Grown(rows, seq, rows', seq', tables)
      /\ RowsStep(rows, seq, births, rows', seq', births', tables)
  BY <1>5 DEF Inserted
<1>7. RequestOK(q, rows', seq', tables)
  <2> HIDE DEF op, r
  <2>1. Leg(op.id) = RefTo(op)
    BY <1>6, LegRef
  <2>2. op.id \in Nat
    BY <1>6 DEF Known, Refs, RefTo
  <2>3. Known(Leg(r.a), r.owner, rows', seq', tables)
    BY <1>2, <1>6, KnownStays DEF BooksInv
  <2>4. q \in [kind : {"link"}, owner : Portfolios, a : Nat, b : Nat, again : BOOLEAN]
    BY <1>3, <2>2
  <2>5. q.a = r.a /\ q.b = op.id /\ q.owner = r.owner
    OBVIOUS
  <2> HIDE DEF q
  <2> QED BY <1>2, <1>6, <2>1, <2>3, <2>4, <2>5 DEF RequestOK
<1> HIDE DEF q
<1> QED BY <1>1, <1>2, <1>6, <1>7, NextRequest

LEMMA Swapped ==
  ASSUME NEW q \in [kind : {"link"}, owner : Portfolios, a : Nat, b : Nat, again : BOOLEAN]
  PROVE  LET q2 == [q EXCEPT !.a = q.b, !.b = q.a, !.again = FALSE] IN
         /\ q2 \in [kind : {"link"}, owner : Portfolios, a : Nat, b : Nat, again : BOOLEAN]
         /\ q2.a = q.b /\ q2.b = q.a /\ q2.owner = q.owner /\ q2.again = FALSE
OBVIOUS

LEMMA LinkFundOpsKeeps ==
  ASSUME BooksInv, NEW c \in Clients, LinkFundOps(c) PROVE Statement
<1> DEFINE q == request[c]
           leg == {r \in Own("fund_ops", q.owner) : r.id = q.a}
           other == [to |-> "fund_ops", id |-> q.b]
           done == leg # {} /\ Resolves(rows, other)
           row == CHOOSE r \in leg : TRUE
           q2 == [q EXCEPT !.a = q.b, !.b = q.a, !.again = FALSE]
           next == IF done /\ q.again THEN q2 ELSE Idle
<1>1. /\ q.kind = "link" /\ seq' = seq /\ births' = births /\ tables' = tables /\ file' = file
      /\ rows' = IF done THEN SetRef(rows, row, other) ELSE rows
      /\ request' = [request EXCEPT ![c] = next]
  BY DEF LinkFundOps, Elsewhere
<1>2. /\ q \in [kind : {"link"}, owner : Portfolios, a : Nat, b : Nat, again : BOOLEAN]
      /\ "fund_ops" \in tables
      /\ Known(Leg(q.a), q.owner, rows, seq, tables) /\ Known(Leg(q.b), q.owner, rows, seq, tables)
  BY <1>1, RequestKept, Kinds
<1>3. other = Leg(q.b)
  BY DEF Leg
<1>4. RowsStep(rows, seq, births, rows', seq', births', tables)
  <2>1. CASE done
    <3>1. row \in rows /\ row.table = "fund_ops" /\ row.owner = q.owner
      BY <2>1 DEF Own
    <3>2. other \in Refs /\ other.to = "fund_ops" /\ other.id # 0
      BY <1>2, <1>3 DEF Known, Leg
    <3>3. Aims(row.table, other)
      BY <3>1, <3>2, LegTables DEF Aims
    <3>4. HasKey(row.table) /\ other # NoRef =>
            \E parent \in rows : Names(parent, other) /\ parent.owner = row.owner
      BY <1>2, <1>3, <2>1, <3>1 DEF Resolves, Known
    <3>5. rows' = SetRef(rows, row, other) /\ row.table \notin Unique
      BY <1>1, <2>1, <3>1, LegTables
    <3> HIDE DEF row, other
    <3> QED BY <1>1, <3>1, <3>2, <3>3, <3>4, <3>5, SetRefStep
  <2>2. CASE ~done
    BY <1>1, <2>2, RowsStay DEF BooksInv
  <2> QED BY <2>1, <2>2
<1>5. RequestOK(next, rows, seq, tables)
  <2>1. RequestOK(q2, rows, seq, tables)
    <3>1. /\ q2 \in [kind : {"link"}, owner : Portfolios, a : Nat, b : Nat, again : BOOLEAN]
          /\ q2.a = q.b /\ q2.b = q.a /\ q2.owner = q.owner
      BY ONLY <1>2, Swapped
    <3> HIDE DEF q2, q
    <3> QED BY <1>2, <3>1 DEF RequestOK
  <2> QED BY <2>1, IdleOK
<1> HIDE DEF next
<1>6. RequestOK(next, rows', seq', tables)
  BY <1>4, <1>5, RequestStays DEF RowsStep, BooksInv
<1> QED BY <1>1, <1>4, <1>6, NextRequest

-----------------------------------------------------------------------------
(* Statements that delete. *)

(* Only rows of one portfolio are changed or gone.                         *)
OnlyOf(o, rs, rs2, sq, n, ts) ==
  /\ RowsOK(rs2, sq, n, ts) /\ Grown(rs, sq, rs2, sq, ts)
  /\ Others(rs2, o) = Others(rs, o)

LEMMA RowsChanged ==
  ASSUME BooksInv, NEW o, OnlyOf(o, rows, rows', seq, births, tables), seq' = seq,
         births' = births, tables' = tables, file' = file, request' = request
  PROVE  Statement
<1>1. births \in Nat /\ births' >= births /\ DOMAIN request = Clients
  <2>1. births \in Nat /\ DOMAIN request = Clients
    BY DEF BooksInv
  <2>2. births >= births
    BY <2>1
  <2> QED BY <2>1, <2>2
<1>2. RowsStep(rows, seq, births, rows', seq', births', tables)
  BY <1>1 DEF RowsStep, OnlyOf
<1> QED BY <1>1, <1>2 DEF Statement

LEMMA DeleteRowKeeps == ASSUME BooksInv, NEW t, DeleteRow(t) PROVE Statement
<1>1. PICK r \in rows : rows' = Deleted(rows, {r})
  BY DEF DeleteRow
<1>2. seq' = seq /\ births' = births /\ request' = request /\ tables' = tables /\ file' = file
  BY DEF DeleteRow, Elsewhere
<1>3. seq \in [tables -> Nat] /\ births \in Nat /\ RowsOK(rows, seq, births, tables)
      /\ {r} \subseteq rows
  BY DEF BooksInv
<1>4. RowsOK(rows', seq, births, tables)
  BY <1>1, <1>3, DeletedKeeps
<1>5. Grown(rows, seq, rows', seq, tables)
  BY <1>1, <1>3, DeletedKeeps
<1>6. Others(rows', r.owner) = Others(rows, r.owner)
  <2>1. \A s \in {r} : s.owner = r.owner
    OBVIOUS
  <2> QED BY <2>1, <1>1, <1>3, DeletedKeeps
<1> QED BY <1>2, <1>4, <1>5, <1>6, RowsChanged DEF OnlyOf

LEMMA UntiedKeeps ==
  ASSUME NEW rs, NEW ts, NEW sq \in [ts -> Nat], NEW n \in Nat, RowsOK(rs, sq, n, ts),
         NEW loans \in SUBSET rs, NEW o, \A l \in loans : l.owner = o,
         NEW rs2, rs2 = Untied(rs, loans)
  PROVE  OnlyOf(o, rs, rs2, sq, n, ts)
<1> DEFINE S == {r \in rs : r.table = "reserve_ops" /\ \E l \in loans : Names(l, r.ref)}
           x(r) == [r EXCEPT !.ref = NoRef]
<1>1. rs2 = (rs \ S) \cup {x(r) : r \in S}
  BY DEF Untied
<1>2. S \in SUBSET rs /\ \A r \in S : r.table \notin Unique
  BY LegTables
<1>3. \A r \in S : r.owner = o
  <2>1. ASSUME NEW r \in S PROVE r.owner = o
    <3>1. PICK l \in loans : Names(l, r.ref)
      OBVIOUS
    <3>2. r \in Row /\ l \in Row /\ r \in rs /\ l \in rs /\ r.table = "reserve_ops"
      BY DEF RowsOK, Sound
    <3>3. r.ref \in Refs /\ RefTo(l) = r.ref /\ RefTo(l) # NoRef
      BY <3>1, <3>2, RowTypes, NamesIt
    <3>4. HasKey(r.table)
      BY <3>2 DEF HasKey, Parent
    <3>5. PICK parent \in rs : Names(parent, r.ref) /\ parent.owner = r.owner
      BY <3>2, <3>3, <3>4 DEF RowsOK, Sound, Closed
    <3>6. RefTo(parent) = RefTo(l)
      BY <3>3, <3>5, NamesIt
    <3>7. parent = l
      BY <3>2, <3>6 DEF RowsOK, Sound, Distinct
    <3> QED BY <3>5, <3>7
  <2> QED BY <2>1
<1>4. \A r \in rs : SameBut(x(r), r)
  BY DEF RowsOK, Sound, Row, SameBut
<1> HIDE DEF S
<1>6. RowsOK(rs2, sq, n, ts)
  BY <1>1, <1>2, ClearedKeeps
<1>7. Grown(rs, sq, rs2, sq, ts)
  BY <1>1, <1>2, ClearedKeeps
<1> HIDE DEF x
<1>8. Others(rs2, o) = Others(rs, o)
  BY <1>1, <1>2, <1>3, <1>4 DEF Others, SameBut
<1> QED BY <1>6, <1>7, <1>8 DEF OnlyOf

LEMMA UntiedSame ==
  ASSUME NEW rs \in SUBSET Row, NEW loans, NEW x \in Untied(rs, loans)
  PROVE  \E r \in rs : SameBut(x, r)
<1>1. PICK r \in rs : x = r \/ x = [r EXCEPT !.ref = NoRef]
  BY DEF Untied
<1>2. r \in Row
  OBVIOUS
<1>3. SameBut(x, r)
  BY <1>1, <1>2 DEF Row, SameBut
<1> QED BY <1>3

(* First references are cleared, then rows deleted. *)
LEMMA ThenDeleted ==
  ASSUME NEW rs, NEW ts, NEW sq \in [ts -> Nat], NEW n \in Nat, RowsOK(rs, sq, n, ts),
         NEW mid, NEW o, OnlyOf(o, rs, mid, sq, n, ts),
         NEW gone \in SUBSET mid, \A r \in gone : r.owner = o,
         NEW rs2, rs2 = Deleted(mid, gone)
  PROVE  OnlyOf(o, rs, rs2, sq, n, ts)
<1>0. RowsOK(mid, sq, n, ts) /\ Grown(rs, sq, mid, sq, ts) /\ Others(mid, o) = Others(rs, o)
  BY DEF OnlyOf
<1>1. RowsOK(rs2, sq, n, ts)
  BY <1>0, DeletedKeeps
<1>2. Grown(mid, sq, rs2, sq, ts)
  BY <1>0, DeletedKeeps
<1>3. Others(rs2, o) = Others(mid, o)
  BY <1>0, DeletedKeeps
<1>4. rs2 \subseteq Row /\ \A x \in rs2 : x.table \in ts
  BY <1>1 DEF RowsOK, Sound
<1>5. Grown(rs, sq, rs2, sq, ts)
  BY <1>0, <1>2, <1>4, GrownTwice
<1> QED BY <1>0, <1>1, <1>3, <1>5 DEF OnlyOf

LEMMA DeleteReserveLoanKeeps == ASSUME BooksInv, DeleteReserveLoan PROVE Statement
<1>1. PICK l \in rows : l.table = "reserve_loans" /\ rows' = Deleted(Untied(rows, {l}), {l})
  BY DEF DeleteReserveLoan
<1>2. seq' = seq /\ births' = births /\ request' = request /\ tables' = tables /\ file' = file
  BY DEF DeleteReserveLoan, Elsewhere
<1>3. seq \in [tables -> Nat] /\ births \in Nat /\ RowsOK(rows, seq, births, tables)
  BY DEF BooksInv
<1> DEFINE loan == {l}
           mid == Untied(rows, loan)
<1>4. loan \in SUBSET mid /\ loan \in SUBSET rows /\ \A s \in loan : s.owner = l.owner
  BY <1>1 DEF Untied
<1>6. mid = Untied(rows, loan) /\ rows' = Deleted(mid, loan)
  BY <1>1
<1> HIDE DEF mid, loan
<1>5. OnlyOf(l.owner, rows, mid, seq, births, tables)
  BY <1>3, <1>4, <1>6, UntiedKeeps
<1>9. OnlyOf(l.owner, rows, rows', seq, births, tables)
  BY <1>3, <1>4, <1>5, <1>6, ThenDeleted
<1> QED BY <1>2, <1>9, RowsChanged

LEMMA CascadeOwner ==
  ASSUME NEW rs, NEW ts, Sound(rs, ts), NEW op \in rs, NEW l \in Cascade(rs, op)
  PROVE  l \in rs /\ l.owner = op.owner
<1>1. l \in rs /\ HasKey(l.table) /\ Names(op, l.ref)
  BY DEF Cascade, Children
<1>2. l \in Row /\ op \in Row
  BY <1>1 DEF Sound
<1>3. l.ref \in Refs /\ RefTo(op) = l.ref /\ l.ref # NoRef
  BY <1>1, <1>2, RowTypes, NamesIt
<1>4. PICK parent \in rs : Names(parent, l.ref) /\ parent.owner = l.owner
  BY <1>1, <1>3 DEF Sound, Closed
<1>5. RefTo(parent) = RefTo(op)
  BY <1>3, <1>4, NamesIt
<1> QED BY <1>1, <1>4, <1>5 DEF Sound, Distinct

LEMMA DeleteReserveOpKeeps == ASSUME BooksInv, DeleteReserveOp PROVE Statement
<1>1. PICK op \in rows :
        rows' = Deleted(Untied(rows, Cascade(rows, op)),
                        {r \in Untied(rows, Cascade(rows, op)) : Names(r, RefTo(op))})
  BY DEF DeleteReserveOp
<1>2. seq' = seq /\ births' = births /\ request' = request /\ tables' = tables /\ file' = file
  BY DEF DeleteReserveOp, Elsewhere
<1> DEFINE loans == Cascade(rows, op)
           mid == Untied(rows, loans)
           gone == {r \in mid : Names(r, RefTo(op))}
<1>3. seq \in [tables -> Nat] /\ births \in Nat /\ RowsOK(rows, seq, births, tables)
      /\ Sound(rows, tables)
  BY DEF BooksInv, RowsOK
<1>4. loans \in SUBSET rows /\ \A l \in loans : l.owner = op.owner
  BY <1>3, CascadeOwner
<1>8. rows' = Deleted(mid, gone) /\ gone \in SUBSET mid
  BY <1>1
<1>12. \A r \in gone : r \in mid /\ Names(r, RefTo(op))
  OBVIOUS
<1>6. mid = Untied(rows, loans)
  OBVIOUS
<1> HIDE DEF mid, loans, gone
<1>5. OnlyOf(op.owner, rows, mid, seq, births, tables)
  BY <1>3, <1>4, <1>6, UntiedKeeps
<1>13. \A r \in gone : r.owner = op.owner
  <2>1. ASSUME NEW r \in gone PROVE r.owner = op.owner
    <3>1. r \in Untied(rows, loans) /\ rows \in SUBSET Row
      BY <1>3, <1>6, <1>12 DEF Sound
    <3>2. PICK s \in rows : SameBut(r, s)
      BY <3>1, UntiedSame
    <3>3. s.table = op.table /\ s.id = op.id /\ s.owner = r.owner
      BY <3>2, <1>12 DEF SameBut, Names, RefTo
    <3>4. RefTo(s) = RefTo(op)
      BY <3>3 DEF RefTo
    <3>5. s = op
      BY <3>4, <1>3 DEF Sound, Distinct
    <3> QED BY <3>3, <3>5
  <2> QED BY <2>1
<1>9. OnlyOf(op.owner, rows, rows', seq, births, tables)
  BY <1>3, <1>13, <1>5, <1>8, ThenDeleted
<1> QED BY <1>2, <1>9, RowsChanged

LEMMA DeleteFundOpKeeps == ASSUME BooksInv, DeleteFundOp PROVE Statement
<1>1. PICK op \in rows :
        LET both == {r \in Own("fund_ops", op.owner) : r = op \/ Names(r, op.ref)}
            cleared == {[r EXCEPT !.ref = NoRef] : r \in both}
            after == Deleted((rows \ both) \cup cleared, cleared)
        IN  rows' = IF cleared \cap after = {} THEN after ELSE rows
  BY DEF DeleteFundOp
<1>2. seq' = seq /\ births' = births /\ request' = request /\ tables' = tables /\ file' = file
  BY DEF DeleteFundOp, Elsewhere
<1> DEFINE both == {r \in Own("fund_ops", op.owner) : r = op \/ Names(r, op.ref)}
           x(r) == [r EXCEPT !.ref = NoRef]
           cleared == {x(r) : r \in both}
           mid == (rows \ both) \cup cleared
           after == Deleted(mid, cleared)
           o == op.owner
<1>3. seq \in [tables -> Nat] /\ births \in Nat /\ RowsOK(rows, seq, births, tables)
  BY DEF BooksInv
<1>4. both \in SUBSET rows /\ \A r \in both : r.table \notin Unique /\ r.owner = o
  BY LegTables DEF Own
<1>5. \A r \in both : x(r).owner = o
  BY <1>3, <1>4 DEF RowsOK, Sound, Row
<1>6. rows' = after \/ rows' = rows
  BY <1>1
<1>7. cleared \in SUBSET mid /\ mid = (rows \ both) \cup {[r EXCEPT !.ref = NoRef] : r \in both}
  <2> HIDE DEF both
  <2> QED OBVIOUS
<1>8. \A r \in cleared : r.owner = o
  <2> HIDE DEF x, both, o
  <2> QED BY <1>5
<1>9. Others(mid, o) = Others(rows, o)
  <2> HIDE DEF x, both
  <2> QED BY <1>4, <1>5 DEF Others
<1>10. after = Deleted(mid, cleared)
  OBVIOUS
<1> HIDE DEF both, cleared, mid, after
<1>11. RowsOK(mid, seq, births, tables)
  BY <1>3, <1>4, <1>7, ClearedKeeps
<1>12. Grown(rows, seq, mid, seq, tables)
  BY <1>3, <1>4, <1>7, ClearedKeeps
<1>13. OnlyOf(o, rows, mid, seq, births, tables)
  BY <1>9, <1>11, <1>12 DEF OnlyOf
<1>14. OnlyOf(o, rows, after, seq, births, tables)
  BY <1>3, <1>7, <1>8, <1>10, <1>13, ThenDeleted
<1>15. CASE rows' = rows
  BY <1>2, <1>3, <1>15, RowsStay DEF Statement, BooksInv
<1>16. CASE rows' = after
  BY <1>2, <1>14, <1>16, RowsChanged
<1> QED BY <1>6, <1>15, <1>16

LEMMA BeginDeleteKeeps ==
  ASSUME BooksInv, NEW c \in Clients, NEW t \in {"term_deposits", "npf_accounts"},
         BeginDelete(c, t)
  PROVE  Statement
<1>1. PICK r \in rows :
        request' = [request EXCEPT ![c] =
          [kind |-> "delete", row |-> RefTo(r), owner |-> r.owner,
           left |-> Underneath[t], since |-> births]]
  BY DEF BeginDelete
<1>2. rows' = rows /\ seq' = seq /\ births' = births /\ tables' = tables /\ file' = file
  BY DEF BeginDelete, Elsewhere
<1> DEFINE q == [kind |-> "delete", row |-> RefTo(r), owner |-> r.owner,
                 left |-> Underneath[t], since |-> births]
<1>3. RowsStep(rows, seq, births, rows', seq', births', tables)
  BY <1>2, RowsStay DEF BooksInv
<1>4. RefTo(r) \in Refs /\ r.owner \in Portfolios /\ births \in Nat
  BY RowTypes DEF BooksInv, RowsOK, Sound
<1>5. Underneath[t] \in {<<>>, <<"deposit_topups">>, <<"npf_ops", "npf_nav">>, <<"npf_nav">>}
  BY DEF Underneath
<1>6. RequestOK(q, rows', seq', tables)
  BY <1>4, <1>5 DEF RequestOK
<1>7. request' = [request EXCEPT ![c] = q]
  BY <1>1
<1> HIDE DEF q
<1> QED BY <1>2, <1>3, <1>6, <1>7, NextRequest

LEMMA NoParents ==
  \A t \in DOMAIN Parent : Parent[t] \notin {"deposit_topups", "npf_ops", "npf_nav"}
BY DEF Parent

LEMMA LeftReplaced ==
  ASSUME NEW K, NEW R, NEW O, NEW L, NEW N,
         NEW q \in [kind : K, row : R, owner : O, left : L, since : N], NEW l \in L
  PROVE  [q EXCEPT !.left = l] \in [kind : K, row : R, owner : O, left : L, since : N]
OBVIOUS

LEMMA HeadsAndTails ==
  ASSUME NEW s \in {<<"deposit_topups">>, <<"npf_ops", "npf_nav">>, <<"npf_nav">>}
  PROVE  Head(s) \in {"deposit_topups", "npf_ops", "npf_nav"} /\ Tail(s) \in {<<>>, <<"npf_nav">>}
<1>1. CASE s = <<"deposit_topups">>
  BY <1>1
<1>2. CASE s = <<"npf_ops", "npf_nav">>
  BY <1>2
<1>3. CASE s = <<"npf_nav">>
  BY <1>3
<1> QED BY <1>1, <1>2, <1>3

LEMMA DeleteUnderneathKeeps == ASSUME BooksInv, NEW c \in Clients, DeleteUnderneath(c)
                               PROVE  Statement
<1> DEFINE q == request[c]
           gone == {r \in Own(Head(q.left), q.owner) : r.ref = q.row}
           q2 == [q EXCEPT !.left = Tail(q.left)]
<1>1. /\ q.kind = "delete" /\ q.left # <<>>
      /\ rows' = rows \ gone /\ request' = [request EXCEPT ![c].left = Tail(q.left)]
      /\ seq' = seq /\ births' = births /\ tables' = tables /\ file' = file
  BY DEF DeleteUnderneath, Elsewhere
<1>2. q \in [kind : {"delete"}, row : Refs, owner : Portfolios,
             left : {<<>>, <<"deposit_topups">>, <<"npf_ops", "npf_nav">>, <<"npf_nav">>},
             since : Nat]
  BY <1>1, RequestKept, Kinds
<1>3. q.left \in {<<"deposit_topups">>, <<"npf_ops", "npf_nav">>, <<"npf_nav">>}
  BY <1>1, <1>2
<1>4. /\ Head(q.left) \in {"deposit_topups", "npf_ops", "npf_nav"}
      /\ Tail(q.left) \in {<<>>, <<"npf_nav">>}
  BY <1>3, HeadsAndTails
<1>5. q2 \in [kind : {"delete"}, row : Refs, owner : Portfolios,
              left : {<<>>, <<"deposit_topups">>, <<"npf_ops", "npf_nav">>, <<"npf_nav">>},
              since : Nat]
  <2>1. Tail(q.left) \in {<<>>, <<"deposit_topups">>, <<"npf_ops", "npf_nav">>, <<"npf_nav">>}
    BY <1>4
  <2> HIDE DEF q
  <2> QED BY ONLY <1>2, <2>1, LeftReplaced
<1>6. request' = [request EXCEPT ![c] = q2]
  BY <1>1
<1>7. RequestOK(q2, rows', seq', tables)
  BY <1>5 DEF RequestOK
<1>8. \A r \in gone : r.table \in {"deposit_topups", "npf_ops", "npf_nav"} /\ r.owner = q.owner
  BY <1>4 DEF Own
<1>9. rows' \subseteq rows /\ Others(rows', q.owner) = Others(rows, q.owner)
  BY <1>1, <1>8 DEF Others
<1> HIDE DEF q2, gone
<1>10. seq \in [tables -> Nat] /\ births \in Nat /\ RowsOK(rows, seq, births, tables)
       /\ Sound(rows, tables)
  BY DEF BooksInv, RowsOK
<1>11. Closed(rows')
  <2>1. ASSUME NEW r \in rows', HasKey(r.table), r.ref # NoRef
        PROVE  \E parent \in rows' : Names(parent, r.ref) /\ parent.owner = r.owner
    <3>1. PICK parent \in rows : Names(parent, r.ref) /\ parent.owner = r.owner
      BY <1>9, <1>10, <2>1 DEF Sound, Closed
    <3>2. parent.table = Parent[r.table]
      BY <1>9, <1>10, <2>1, <3>1 DEF Sound, Aims, Names
    <3>3. parent \notin gone
      BY <1>8, <2>1, <3>2, NoParents DEF HasKey
    <3> QED BY <1>1, <3>1, <3>3
  <2> QED BY <2>1 DEF Closed
<1>12. RowsOK(rows', seq, births, tables)
  BY <1>9, <1>10, <1>11, RowsGone
<1>13. Grown(rows, seq, rows', seq, tables)
  BY <1>9, <1>10, <1>11, RowsGone
<1>14. RowsStep(rows, seq, births, rows', seq', births', tables)
  <2>1. births >= births
    BY <1>10
  <2> QED BY <2>1, <1>1, <1>9, <1>10, <1>12, <1>13 DEF RowsStep
<1> QED BY <1>1, <1>6, <1>7, <1>14, NextRequest

LEMMA DeleteItselfKeeps == ASSUME BooksInv, NEW c \in Clients, DeleteItself(c)
                           PROVE  Statement
<1> DEFINE q == request[c]
           gone == {r \in rows : Names(r, q.row) /\ r.owner = q.owner}
<1>1. /\ rows' = Deleted(rows, gone) /\ request' = [request EXCEPT ![c] = Idle]
      /\ seq' = seq /\ births' = births /\ tables' = tables /\ file' = file
  BY DEF DeleteItself, Elsewhere, Answer
<1>2. gone \subseteq rows /\ \A r \in gone : r.owner = q.owner
  OBVIOUS
<1> HIDE DEF gone
<1>3. seq \in [tables -> Nat] /\ births \in Nat /\ RowsOK(rows, seq, births, tables)
  BY DEF BooksInv
<1>4. RowsOK(rows', seq, births, tables)
  BY <1>1, <1>2, <1>3, DeletedKeeps
<1>5. Grown(rows, seq, rows', seq, tables)
  BY <1>1, <1>2, <1>3, DeletedKeeps
<1>6. Others(rows', q.owner) = Others(rows, q.owner)
  BY <1>1, <1>2, <1>3, DeletedKeeps
<1>7. RowsStep(rows, seq, births, rows', seq', births', tables)
  <2>1. births >= births
    BY <1>3
  <2> QED BY <2>1, <1>1, <1>3, <1>4, <1>5, <1>6 DEF RowsStep
<1> QED BY <1>1, <1>7, IdleOK, NextRequest

-----------------------------------------------------------------------------
(* Changes of the plan, and their lines of the journal. *)

LEMMA PlanTables ==
  /\ ~HasKey("plan_flows") /\ ~HasKey("plan_flow_revisions")
  /\ "plan_flows" \in DOMAIN LooseTarget /\ "plan_flow_revisions" \in DOMAIN LooseTarget
  /\ "npf_accounts" \in LooseTarget["plan_flows"]
  /\ "plan_flows" \in LooseTarget["plan_flow_revisions"]
  /\ "plan_flows" \notin Unique /\ "plan_flow_revisions" \notin Unique
  /\ "plan_flows" # "plan_flow_revisions"
  /\ \A t \in DOMAIN Parent : Parent[t] # "plan_flows"
  /\ \A op \in {"create", "update", "delete"} : op \in Ops
BY DEF HasKey, Parent, LooseTarget, Unique, Ops

Journalled(o, rs, sq, rs2, sq2, n2, ts) ==
  RowsOK(rs2, sq2, n2, ts) /\ Grown(rs, sq, rs2, sq2, ts) /\ Others(rs, o) = Others(rs2, o)

LEMMA JournalStep ==
  ASSUME NEW rs, NEW ts, NEW sq \in [ts -> Nat], NEW n \in Nat, RowsOK(rs, sq, n, ts),
         "plan_flow_revisions" \in ts, NEW t, t = "plan_flow_revisions", NEW o \in Portfolios,
         NEW ref \in Refs, ref.to = "plan_flows", ref.id # 0, NEW op \in Ops,
         NEW n2, n2 = n + 1, NEW rev,
         rev = [table |-> t, id |-> sq[t] + 1, owner |-> o, ref |-> ref, op |-> op, label |-> n2],
         NEW rs2, rs2 = rs \cup {rev}, NEW sq2, sq2 = [sq EXCEPT ![t] = @ + 1]
  PROVE  Journalled(o, rs, sq, rs2, sq2, n2, ts)
<1>1. t \in ts /\ t \in AllTables /\ sq[t] \in Nat /\ sq[t] + 1 \in Nat /\ n2 \in Nat
  <2>1. t \in AllTables
    BY PlanTables DEF AllTables
  <2> QED BY <2>1
<1>2. /\ rev \in Row /\ rev.table = t /\ rev.id = sq[rev.table] + 1 /\ rev.label = n + 1
      /\ rev.owner = o /\ rev.ref = ref
  BY <1>1 DEF Row
<1>3. /\ Aims(rev.table, rev.ref) /\ Free(rs, rev.table, rev.owner, rev.ref)
      /\ HasKey(rev.table) /\ rev.ref # NoRef =>
           \E parent \in rs : Names(parent, rev.ref) /\ parent.owner = rev.owner
  BY <1>2, PlanTables DEF Aims, Free
<1>4. sq2 = [sq EXCEPT ![rev.table] = rev.id] /\ rev.table \in ts
  BY <1>1, <1>2
<1>0. /\ sq \in [ts -> Nat] /\ n \in Nat /\ RowsOK(rs, sq, n, ts)
      /\ rs2 = rs \cup {rev} /\ n2 = n + 1
  OBVIOUS
<1>5. RowsOK(rs2, sq2, n2, ts)
  BY ONLY <1>0, <1>2, <1>3, <1>4, RowAdded
<1>6. Grown(rs, sq, rs2, sq2, ts)
  BY ONLY <1>0, <1>2, <1>3, <1>4, RowAdded
<1>7. Others(rs, rev.owner) = Others(rs2, rev.owner)
  BY ONLY <1>0 DEF Others
<1> QED BY <1>2, <1>5, <1>6, <1>7 DEF Journalled

LEMMA AtLeastOneMore ==
  ASSUME NEW n \in Nat, NEW m \in Nat, m >= n, NEW k, k = m + 1 PROVE k \in Nat /\ k >= n
OBVIOUS

LEMMA JournalAfter ==
  ASSUME BooksInv, NEW mid, NEW sqm \in [tables -> Nat], NEW m \in Nat, m >= births,
         RowsOK(mid, sqm, m, tables), Grown(rows, seq, mid, sqm, tables),
         NEW flow \in Row, flow.table = "plan_flows", flow.id # 0,
         Others(mid, flow.owner) = Others(rows, flow.owner),
         "plan_flow_revisions" \in tables, NEW op \in Ops, NEW t, t = "plan_flow_revisions",
         NEW rev, rev = [table |-> t, id |-> sqm[t] + 1, owner |-> flow.owner,
                         ref |-> RefTo(flow), op |-> op, label |-> births'],
         births' = m + 1, rows' = mid \cup {rev}, seq' = [sqm EXCEPT ![t] = @ + 1],
         tables' = tables, file' = file, request' = request
  PROVE  Statement
<1>1. RefTo(flow) \in Refs /\ RefTo(flow).to = "plan_flows" /\ RefTo(flow).id # 0
      /\ flow.owner \in Portfolios
  BY RowTypes DEF RefTo
<1>2. Journalled(flow.owner, mid, sqm, rows', seq', births', tables)
  BY <1>1, JournalStep
<1>3. RowsOK(rows', seq', births', tables) /\ Grown(mid, sqm, rows', seq', tables)
      /\ Others(mid, flow.owner) = Others(rows', flow.owner)
  BY <1>2 DEF Journalled
<1>4. rows' \subseteq Row /\ \A x \in rows' : x.table \in tables
  BY <1>3 DEF RowsOK, Sound
<1>5. seq \in [tables -> Nat] /\ births \in Nat
  BY DEF BooksInv
<1>6. Grown(rows, seq, rows', seq', tables)
  BY <1>3, <1>4, <1>5, GrownTwice
<1>7. births' \in Nat /\ births' >= births
  BY <1>5, AtLeastOneMore
<1>8. RowsStep(rows, seq, births, rows', seq', births', tables)
  BY <1>3, <1>6, <1>7 DEF RowsStep
<1> QED BY <1>8 DEF Statement, BooksInv

(* A line of the journal, as JournalPlanFlow writes it.                    *)
Line(flow, id, op, label) ==
  [table |-> "plan_flow_revisions", id |-> id, owner |-> flow.owner, ref |-> RefTo(flow),
   op |-> op, label |-> label]

LEMMA DestKnown ==
  ASSUME BooksInv, NEW p, NEW dest \in Dest(p)
  PROVE  dest \in Refs /\ Aims("plan_flows", dest)
<1>1. CASE dest = NoRef
  BY <1>1, NoRefType
<1>2. CASE dest \in OwnsRow("npf_accounts", p)
  <2>1. PICK r \in rows : r.table = "npf_accounts" /\ dest = RefTo(r)
    BY <1>2 DEF OwnsRow, Own
  <2>2. Known(dest, r.owner, rows, seq, tables)
    BY <2>1, KnownRow DEF BooksInv
  <2>3. dest \in Refs /\ dest.to = "npf_accounts" /\ dest.id # 0
    BY <2>1, <2>2 DEF Known, RefTo
  <2> QED BY <2>3, PlanTables DEF Aims
<1> QED BY <1>1, <1>2 DEF Dest

LEMMA AddPlanFlowKeeps == ASSUME BooksInv, AddPlanFlow PROVE Statement
<1> DEFINE flowOf(p, dest, op) == NewRow("plan_flows", p, dest, op)
           t == "plan_flow_revisions"
<1>1. PICK p, dest :
        /\ p \in Portfolios /\ dest \in Dest(p)
        /\ JournalPlanFlow(rows \cup {flowOf(p, dest, "")}, flowOf(p, dest, ""), "create", births + 2)
        /\ seq' = [seq EXCEPT !["plan_flows"] = flowOf(p, dest, "").id, ![t] = @ + 1]
  BY DEF AddPlanFlow
<1>2. "plan_flows" \in tables /\ t \in tables
  BY DEF AddPlanFlow
<1> DEFINE flow == flowOf(p, dest, "")
           mid == rows \cup {flow}
           sqm == [seq EXCEPT !["plan_flows"] = flow.id]
           m == births + 1
           op == "create"
           rev == Line(flow, seq[t] + 1, op, births + 2)
<1>3. /\ rows' = mid \cup {rev} /\ births' = births + 2
      /\ request' = request /\ tables' = tables /\ file' = file
  BY <1>1 DEF JournalPlanFlow, Line, Elsewhere
<1>4. /\ seq \in [tables -> Nat] /\ births \in Nat /\ RowsOK(rows, seq, births, tables)
      /\ tables \subseteq AllTables
  BY TablesKnown DEF BooksInv
<1>5. dest \in Refs /\ Aims("plan_flows", dest)
  BY <1>1, DestKnown
<1>6. /\ flow.table = "plan_flows" /\ flow.id = seq["plan_flows"] + 1 /\ flow.owner = p
      /\ flow.ref = dest /\ flow.op \in Ops /\ flow.label = births + 1
      /\ flow = [table |-> flow.table, id |-> flow.id, owner |-> flow.owner, ref |-> flow.ref,
                 op |-> flow.op, label |-> flow.label]
  BY NoRefType DEF NewRow
<1>14. op \in Ops /\ seq' = [sqm EXCEPT ![t] = @ + 1] /\ sqm[t] = seq[t]
  BY <1>1, <1>2, <1>4, PlanTables
<1>15. rev = [table |-> t, id |-> seq[t] + 1, owner |-> flow.owner,
              ref |-> RefTo(flow), op |-> op, label |-> births + 2]
  BY DEF Line
<1>16. seq["plan_flows"] \in Nat /\ "plan_flows" \in AllTables
  BY <1>2, <1>4
<1> HIDE DEF flow, rev, op, t
<1>7. flow \in Row /\ flow.id # 0
  <2>1. flow.id \in Nat /\ flow.label \in Nat /\ flow.id # 0
    BY <1>4, <1>6, <1>16
  <2> QED BY <2>1, <1>1, <1>5, <1>6, <1>16 DEF Row
<1>8. /\ flow.table \in tables /\ flow.id = seq[flow.table] + 1 /\ flow.label = births + 1
      /\ Aims(flow.table, flow.ref) /\ Free(rows, flow.table, flow.owner, flow.ref)
      /\ HasKey(flow.table) /\ flow.ref # NoRef =>
           \E parent \in rows : Names(parent, flow.ref) /\ parent.owner = flow.owner
  BY <1>2, <1>5, <1>6, PlanTables DEF Free
<1>9. mid = rows \cup {flow} /\ sqm = [seq EXCEPT ![flow.table] = flow.id] /\ m = births + 1
  BY <1>6
<1> HIDE DEF mid, sqm, m
<1>10. RowsOK(mid, sqm, m, tables)
  BY <1>4, <1>7, <1>8, <1>9, RowAdded
<1>11. Grown(rows, seq, mid, sqm, tables)
  BY <1>4, <1>7, <1>8, <1>9, RowAdded
<1>12. Others(mid, flow.owner) = Others(rows, flow.owner)
  BY <1>9 DEF Others
<1>13. m \in Nat /\ m >= births /\ births' = m + 1 /\ sqm \in [tables -> Nat]
  <2>1. sqm \in [tables -> Nat]
    BY <1>11 DEF Grown
  <2>2. m \in Nat /\ m >= births
    BY <1>4, <1>9, OneMore
  <2>3. births' = m + 1
    BY <1>3, <1>4, <1>9
  <2> QED BY <2>1, <2>2, <2>3
<1>17. rev = [table |-> t, id |-> sqm[t] + 1, owner |-> flow.owner,
              ref |-> RefTo(flow), op |-> op, label |-> births']
  BY <1>3, <1>14, <1>15
<1>18. t = "plan_flow_revisions" /\ "plan_flow_revisions" \in tables
  BY <1>2 DEF t
<1> QED
  BY <1>3, <1>6, <1>7, <1>10, <1>11, <1>12, <1>13, <1>14, <1>17, <1>18, JournalAfter

LEMMA UpdatePlanFlowKeeps == ASSUME BooksInv, UpdatePlanFlow PROVE Statement
<1> DEFINE t == "plan_flow_revisions"
           op == "update"
<1>1. PICK flow, dest :
        /\ flow \in rows /\ dest \in Dest(flow.owner) /\ flow.table = "plan_flows"
        /\ JournalPlanFlow(SetRef(rows, flow, dest), flow, op, births + 1)
  BY DEF UpdatePlanFlow
<1>2. "plan_flows" \in tables /\ t \in tables /\ seq' = [seq EXCEPT ![t] = @ + 1]
  BY DEF UpdatePlanFlow
<1> DEFINE mid == SetRef(rows, flow, dest)
           rev == Line(flow, seq[t] + 1, op, births + 1)
<1>3. /\ rows' = mid \cup {rev} /\ births' = births + 1
      /\ request' = request /\ tables' = tables /\ file' = file
  BY <1>1 DEF JournalPlanFlow, Line, Elsewhere
<1>4. /\ seq \in [tables -> Nat] /\ births \in Nat /\ RowsOK(rows, seq, births, tables)
      /\ flow \in Row /\ flow.id # 0
  BY <1>1 DEF BooksInv, RowsOK, Sound
<1>5. dest \in Refs /\ Aims(flow.table, dest)
  BY <1>1, DestKnown
<1>6. flow.table \notin Unique /\ ~HasKey(flow.table) /\ op \in Ops
  BY <1>1, PlanTables
<1>7. rev = [table |-> t, id |-> seq[t] + 1, owner |-> flow.owner,
             ref |-> RefTo(flow), op |-> op, label |-> births']
  BY <1>3 DEF Line
<1> HIDE DEF mid, rev, op
<1>8. mid = SetRef(rows, flow, dest) /\ t = "plan_flow_revisions" /\ births >= births
  BY <1>4 DEF mid
<1> HIDE DEF t
<1>9. RowsOK(mid, seq, births, tables)
  BY <1>1, <1>4, <1>5, <1>6, <1>8, SetRefKeeps
<1>10. Grown(rows, seq, mid, seq, tables)
  BY <1>1, <1>4, <1>5, <1>6, <1>8, SetRefKeeps
<1>11. Others(mid, flow.owner) = Others(rows, flow.owner)
  BY <1>1, <1>4, <1>5, <1>6, <1>8, SetRefKeeps
<1>12. "plan_flow_revisions" \in tables
  BY <1>2, <1>8
<1> QED
  BY <1>1, <1>2, <1>3, <1>4, <1>6, <1>7, <1>8, <1>9, <1>10, <1>11, <1>12, JournalAfter

LEMMA DeletePlanFlowKeeps == ASSUME BooksInv, DeletePlanFlow PROVE Statement
<1> DEFINE t == "plan_flow_revisions"
           op == "delete"
<1>1. PICK flow :
        /\ flow \in rows /\ flow.table = "plan_flows"
        /\ JournalPlanFlow(rows \ {flow}, flow, op, births + 1)
  BY DEF DeletePlanFlow
<1>2. "plan_flows" \in tables /\ t \in tables /\ seq' = [seq EXCEPT ![t] = @ + 1]
  BY DEF DeletePlanFlow
<1> DEFINE mid == rows \ {flow}
           rev == Line(flow, seq[t] + 1, op, births + 1)
<1>3. /\ rows' = mid \cup {rev} /\ births' = births + 1
      /\ request' = request /\ tables' = tables /\ file' = file
  BY <1>1 DEF JournalPlanFlow, Line, Elsewhere
<1>4. /\ seq \in [tables -> Nat] /\ births \in Nat /\ RowsOK(rows, seq, births, tables)
      /\ Sound(rows, tables) /\ flow \in Row /\ flow.id # 0
  BY <1>1 DEF BooksInv, RowsOK, Sound
<1>6. op \in Ops
  BY PlanTables
<1>7. rev = [table |-> t, id |-> seq[t] + 1, owner |-> flow.owner,
             ref |-> RefTo(flow), op |-> op, label |-> births']
  BY <1>3 DEF Line
<1>5. Closed(mid)
  <2>1. ASSUME NEW r \in mid, HasKey(r.table), r.ref # NoRef
        PROVE  \E parent \in mid : Names(parent, r.ref) /\ parent.owner = r.owner
    <3>1. PICK parent \in rows : Names(parent, r.ref) /\ parent.owner = r.owner
      BY <1>4, <2>1 DEF Sound, Closed
    <3>2. parent.table = Parent[r.table] /\ r.table \in DOMAIN Parent
      BY <1>4, <2>1, <3>1 DEF Sound, Aims, Names, HasKey
    <3>3. parent # flow
      BY <1>1, <3>2, PlanTables
    <3> QED BY <3>1, <3>3
  <2> QED BY <2>1 DEF Closed
<1> HIDE DEF rev, op
<1>8. mid \subseteq rows /\ t = "plan_flow_revisions" /\ births >= births
  BY <1>4
<1>11. Others(mid, flow.owner) = Others(rows, flow.owner)
  BY DEF Others
<1> HIDE DEF t, mid
<1>9. RowsOK(mid, seq, births, tables)
  BY <1>4, <1>5, <1>8, RowsGone
<1>10. Grown(rows, seq, mid, seq, tables)
  BY <1>4, <1>5, <1>8, RowsGone
<1>12. "plan_flow_revisions" \in tables
  BY <1>2, <1>8
<1> QED
  BY <1>1, <1>2, <1>3, <1>4, <1>6, <1>7, <1>8, <1>9, <1>10, <1>11, <1>12, JournalAfter

-----------------------------------------------------------------------------
(* Steps of the backup, and of the process. *)

Limited(S, sq) == \E n \in Nat : \A t \in S : sq[t] \in Nat => sq[t] <= n

LEMMA LimitedOne == ASSUME NEW t, NEW sq PROVE Limited({t}, sq)
<1>1. CASE sq[t] \in Nat
  <2>1. \A u \in {t} : sq[u] \in Nat => sq[u] <= sq[t]
    BY <1>1
  <2> QED BY <1>1, <2>1 DEF Limited
<1>2. CASE sq[t] \notin Nat
  <2>1. 0 \in Nat /\ \A u \in {t} : sq[u] \in Nat => sq[u] <= 0
    BY <1>2
  <2> QED BY <2>1 DEF Limited
<1> QED BY <1>1, <1>2

LEMMA LimitedBoth ==
  ASSUME NEW S, NEW T, NEW sq, Limited(S, sq), Limited(T, sq) PROVE Limited(S \cup T, sq)
<1>1. PICK m \in Nat : \A t \in S : sq[t] \in Nat => sq[t] <= m
  BY DEF Limited
<1>2. PICK n \in Nat : \A t \in T : sq[t] \in Nat => sq[t] <= n
  BY DEF Limited
<1>3. m + n \in Nat
  OBVIOUS
<1>4. \A t \in S \cup T : sq[t] \in Nat => sq[t] <= m + n
  BY <1>1, <1>2
<1> QED BY <1>3, <1>4 DEF Limited

LEMMA LimitedFour == ASSUME NEW a, NEW b, NEW c, NEW d, NEW sq PROVE Limited({a, b, c, d}, sq)
<1>1. Limited({a} \cup {b}, sq) /\ Limited({c} \cup {d}, sq)
  BY LimitedOne, LimitedBoth
<1>2. Limited(({a} \cup {b}) \cup ({c} \cup {d}), sq)
  BY <1>1, LimitedBoth
<1>3. ({a} \cup {b}) \cup ({c} \cup {d}) = {a, b, c, d}
  OBVIOUS
<1> QED BY <1>2, <1>3

LEMMA LimitedAll == ASSUME NEW sq PROVE Limited(Exported, sq)
<1> DEFINE A == {"lots", "sales", "fund_ops", "term_deposits"}
           B == {"deposit_topups", "npf_accounts", "npf_ops", "npf_nav"}
           C == {"reserve_ops", "reserve_loans", "goals", "goal_ops"}
           D == {"debts", "debt_ops", "debt_marks", "goals"}
           E == {"plan_flows", "plan_flow_revisions", "plan_receipts", "decisions"}
<1>1. Limited(A, sq) /\ Limited(B, sq) /\ Limited(C, sq) /\ Limited(D, sq) /\ Limited(E, sq)
  BY LimitedFour
<1>2. Exported = ((A \cup B) \cup (C \cup D)) \cup E
  BY DEF Exported, ExportedFirst, ExportedNext, ExportedLast
<1> HIDE DEF A, B, C, D, E
<1>3. Limited(A \cup B, sq) /\ Limited(C \cup D, sq)
  BY <1>1, LimitedBoth
<1>4. Limited((A \cup B) \cup (C \cup D), sq)
  BY <1>3, LimitedBoth
<1>5. Limited(((A \cup B) \cup (C \cup D)) \cup E, sq)
  BY <1>1, <1>4, LimitedBoth
<1> QED BY <1>2, <1>5

LEMMA ExportKeeps == ASSUME BooksInv, NEW p \in Portfolios, ExportAll(p) PROVE BooksInv'
<1>1. /\ file' = {r \in OfPortfolio(rows, p) : r.table \in Exported}
      /\ tables' = tables /\ rows' = rows /\ seq' = seq /\ request' = request /\ births' = births
  BY DEF ExportAll
<1>2. RowsOK(rows, seq, births, tables) /\ seq \in [tables -> Nat] /\ births \in Nat
  BY DEF BooksInv
<1> DEFINE f == file'
<1>3. \A r : r \in f <=> r \in rows /\ r.owner = p
  BY <1>1, <1>2, Tables, RowTypes DEF OfPortfolio, RowsOK, Sound
<1> HIDE DEF f
<1>4. Sound(f, tables)
  BY <1>2, <1>3 DEF RowsOK, Sound, Distinct, OnePerRef, Closed
<1>5. \E n \in Nat : \A r \in f : r.id <= n
  <2>1. PICK n \in Nat : \A t \in Exported : seq[t] \in Nat => seq[t] <= n
    BY LimitedAll DEF Limited
  <2>2. ASSUME NEW r \in f PROVE r.id <= n
    <3>1. r \in Row /\ r.table \in tables /\ r.id <= seq[r.table]
      BY <1>2, <1>3 DEF RowsOK, Sound
    <3>2. r.id \in Nat /\ r.table \in Exported /\ seq[r.table] \in Nat
      BY <1>2, <3>1, RowTypes, Tables
    <3>3. seq[r.table] <= n
      BY <2>1, <3>2
    <3> QED BY <3>1, <3>2, <3>3
  <2> QED BY <2>2
<1>6. FileOK(f, tables)
  BY <1>3, <1>4, <1>5 DEF FileOK
<1>7. \A r \in f : r.label <= births
  BY <1>2, <1>3 DEF RowsOK
<1>8. \A r, s \in f : r.label = s.label => r = s
  BY <1>2, <1>3 DEF RowsOK
<1> QED BY <1>1, <1>6, <1>7, <1>8 DEF BooksInv, f

LEMMA ImportOthers ==
  ASSUME BooksInv, NEW p, file # NoFile
  PROVE  Others(Restored(p, file).rows, p) = Others(rows, p)
<1>1. FileOK(file, tables) /\ seq \in [tables -> Nat] /\ tables \subseteq AllTables
      /\ RowsOK(rows, seq, births, tables)
  BY TablesKnown DEF BooksInv
<1>2. Distinct(rows)
      /\ \A x \in rows : x.table \in tables /\ x.id \in Nat /\ x.id # 0 /\ x.id <= seq[x.table]
  BY <1>1, RowTypes DEF RowsOK, Sound
<1> DEFINE db == Restored(p, file)
           S == Held(file, Linked)
<1>3. Underway(db, file, S, p, file, rows, seq, tables, WipeAllowed(p) /\ NoStrayMarks(file))
  BY <1>1, <1>2, RestoreDone
<1> HIDE DEF db, S
<1>4. db.rows = Others(rows, p) \cup {Moved(db.map, S, p, r) : r \in file}
  BY <1>3 DEF Underway, UnderwayRows
<1>5. \A r : Moved(db.map, S, p, r).owner = p
  BY DEF Moved
<1>6. Others(db.rows, p) = Others(rows, p)
  BY <1>4, <1>5 DEF Others
<1> QED BY <1>6 DEF db

LEMMA ImportKeeps ==
  ASSUME BooksInv, NEW p \in Portfolios, ImportAll(p)
  PROVE  (swapped' \/ BooksInv') /\ Others(rows, p) = Others(rows', p)
<1> DEFINE db == Restored(p, file)
<1>1. /\ file # NoFile
      /\ tables' = tables /\ file' = file /\ request' = request /\ births' = births
      /\ IF db.ok THEN rows' = db.rows /\ seq' = db.seq ELSE rows' = rows /\ seq' = seq
      /\ swapped' = (swapped \/ SwappedUnderway(rows'))
  BY DEF ImportAll
<1>2. /\ FileOK(file, tables) /\ seq \in [tables -> Nat] /\ tables \subseteq AllTables
      /\ RowsOK(rows, seq, births, tables) /\ births \in Nat
      /\ \A r \in file : r.label <= births
      /\ \A r, s \in file : r.label = s.label => r = s
  BY <1>1, TablesKnown DEF BooksInv
<1>3. Others(db.rows, p) = Others(rows, p)
  BY <1>1, ImportOthers
<1>4. db.ok => RowsOK(db.rows, db.seq, births, tables)
  BY <1>2, RestoredIsSound
<1>5. db.ok => db.seq \in [tables -> Nat]
  BY <1>2, RestoredIsSound
<1>s. db.ok => \A t \in tables : db.seq[t] >= seq[t]
  BY <1>2, RestoredIsSound
<1> HIDE DEF db
<1>6. RowsOK(rows', seq', births', tables) /\ seq' \in [tables -> Nat]
      /\ Others(rows, p) = Others(rows', p)
  BY <1>1, <1>2, <1>3, <1>4, <1>5
<1>7. ASSUME ~swapped', NEW c \in Clients PROVE RequestOK(request'[c], rows', seq', tables)
  <2>1. RequestOK(request[c], rows, seq, tables)
    BY RequestKept
  <2>2. CASE db.ok
    <3>1. \A ref \in LookedUp(request[c]) : \A r \in rows' :
            Names(r, ref) => r.owner = request[c].owner
      BY <1>1, <1>7 DEF SwappedUnderway
    <3>2. \A t \in tables : seq'[t] >= seq[t]
      BY <1>1, <1>s, <2>2
    <3> QED BY <1>1, <1>2, <1>6, <2>1, <3>1, <3>2, LookedUpStays
  <2>3. CASE ~db.ok
    BY <1>1, <2>1, <2>3
  <2> QED BY <2>2, <2>3
<1>8. DOMAIN request' = Clients
  BY <1>1 DEF BooksInv
<1> QED BY <1>1, <1>2, <1>6, <1>7, <1>8 DEF BooksInv

LEMMA CrashKeeps == ASSUME BooksInv, Crash PROVE BooksInv' /\ rows' = rows
<1>1. /\ request' = [c \in Clients |-> Idle]
      /\ tables' = tables /\ rows' = rows /\ seq' = seq /\ file' = file /\ births' = births
  BY DEF Crash
<1>2. DOMAIN request' = Clients /\ \A c \in Clients : RequestOK(request'[c], rows', seq', tables')
  BY <1>1, IdleOK
<1> QED BY <1>1, <1>2 DEF BooksInv

LEMMA EmptyOK ==
  ASSUME NEW n, NEW ts, NEW sq, sq = [t \in ts |-> 0]
  PROVE  RowsOK({}, sq, n, ts) /\ sq \in [ts -> Nat]
BY DEF RowsOK, Sound, Distinct, OnePerRef, Closed

LEMMA NewMachineKeeps == ASSUME BooksInv, NewMachine PROVE BooksInv'
<1>1. /\ request' = [c \in Clients |-> Idle] /\ rows' = {} /\ seq' = [t \in tables |-> 0]
      /\ tables' = tables /\ file' = file /\ births' = births
  BY DEF NewMachine
<1>2. DOMAIN request' = Clients /\ \A c \in Clients : RequestOK(request'[c], rows', seq', tables')
  BY <1>1, IdleOK
<1>3. RowsOK({}, seq', births', tables') /\ seq' \in [tables' -> Nat]
  BY <1>1, EmptyOK
<1> QED BY <1>1, <1>2, <1>3 DEF BooksInv

LEMMA InitOK == Init => BooksInv
<1>1. SUFFICES ASSUME Init PROVE BooksInv
  OBVIOUS
<1>2. /\ tables \in DOMAIN Bounds /\ rows = {} /\ seq = [t \in tables |-> 0] /\ file = NoFile
      /\ request = [c \in Clients |-> Idle] /\ births = 0
  BY <1>1 DEF Init
<1>3. DOMAIN request = Clients /\ \A c \in Clients : RequestOK(request[c], rows, seq, tables)
  BY <1>2, IdleOK
<1>4. RowsOK({}, seq, births, tables) /\ seq \in [tables -> Nat]
  BY <1>2, EmptyOK
<1> QED BY <1>2, <1>3, <1>4 DEF BooksInv

-----------------------------------------------------------------------------
(* Every action. *)

LEMMA RootTables ==
  /\ \A t \in {"lots", "fund_ops", "goals", "debts", "npf_accounts", "term_deposits",
               "reserve_ops"} : t \notin Unique
BY DEF Unique

LEMMA RootsKeep == ASSUME BooksInv, Roots PROVE Statement
<1>1. CASE AddNPFNavPoints
  <2>1. PICK p, ref : /\ p \in Portfolios /\ ref \in OwnsRow("npf_accounts", p)
                      /\ Insert(NewRow("npf_nav", p, ref, ""))
    BY <1>1 DEF AddNPFNavPoints
  <2>2. "npf_nav" \in tables /\ request' = request /\ tables' = tables /\ file' = file
    BY <1>1 DEF AddNPFNavPoints, Elsewhere
  <2>3. PICK r \in rows : r.table = "npf_accounts" /\ r.owner = p /\ ref = RefTo(r)
    BY <2>1 DEF OwnsRow, Own
  <2>4. Known(ref, p, rows, seq, tables)
    BY <2>3, KnownRow DEF BooksInv
  <2>5. ref \in Refs /\ ref.id # 0 /\ ref.to = "npf_accounts"
    BY <2>3, <2>4 DEF Known, RefTo
  <2>6. Aims("npf_nav", ref) /\ Free(rows, "npf_nav", p, ref)
    BY <2>5 DEF Aims, HasKey, Parent, Free, Unique
  <2>7. HasKey("npf_nav") /\ ref # NoRef => \E parent \in rows : Names(parent, ref) /\ parent.owner = p
    BY <2>3 DEF Names, RefTo
  <2>8. RowsStep(rows, seq, births, rows', seq', births', tables)
    BY <2>1, <2>2, <2>5, <2>6, <2>7, NoRefType, InsertStep
  <2> QED BY <2>2, <2>8 DEF Statement, BooksInv
<1>2. CASE ~AddNPFNavPoints
  <2>1. \E t \in {"lots", "fund_ops", "goals", "npf_accounts"} : AddRoot(t)
    BY <1>2 DEF Roots, AddLot, AddFundOp, AddGoal, AddNPFAccount
  <2> QED BY <2>1, RootTables, AddRootKeeps
<1> QED BY <1>1, <1>2

LEMMA AimTables ==
  ASSUME NEW ref, ref.id # 0
  PROVE  /\ ref.to = "debts" => \A t \in {"debts", "debt_ops", "debt_marks"} : Aims(t, ref)
         /\ ref.to = "goals" => \A t \in {"term_deposits", "goal_ops"} : Aims(t, ref)
         /\ ref.to = "reserve_loans" => Aims("reserve_ops", ref)
         /\ ref.to = "lots" => Aims("sales", ref)
         /\ ref.to = "term_deposits" => Aims("deposit_topups", ref)
         /\ ref.to = "npf_accounts" => Aims("npf_ops", ref)
         /\ ref.to = "plan_flows" => Aims("plan_receipts", ref)
         /\ ref.to = "reserve_ops" => Aims("reserve_loans", ref)
BY DEF Aims, HasKey, Parent, LooseTarget

LEMMA AddsKeep == ASSUME BooksInv, NEW c \in Clients, Adds(c) PROVE Statement
<1>1. CASE \E t \in {"debts", "term_deposits", "reserve_ops"} : AddRoot(t)
  BY <1>1, RootTables, AddRootKeeps
<1>2. CASE \E t \in {"debts", "debt_ops", "debt_marks"} : BeginAdd(c, t, "debts")
  BY <1>2, AimTables, BeginAddKeeps
<1>3. CASE \E t \in {"term_deposits", "goal_ops"} : BeginAdd(c, t, "goals")
  BY <1>3, AimTables, BeginAddKeeps
<1>4. CASE BeginAdd(c, "reserve_ops", "reserve_loans")
  BY <1>4, AimTables, BeginAddKeeps
<1>5. CASE BeginAdd(c, "sales", "lots")
  BY <1>5, AimTables, BeginAddKeeps
<1>6. CASE BeginAdd(c, "deposit_topups", "term_deposits")
  BY <1>6, AimTables, BeginAddKeeps
<1>7. CASE BeginAdd(c, "npf_ops", "npf_accounts")
  BY <1>7, AimTables, BeginAddKeeps
<1>8. CASE BeginAdd(c, "plan_receipts", "plan_flows")
  BY <1>8, AimTables, BeginAddKeeps
<1>9. CASE BeginAdd(c, "reserve_loans", "reserve_ops")
  BY <1>9, AimTables, BeginAddKeeps
<1>10. CASE AddReserveOpWithLoan(c)
  BY <1>10, WithLoanKeeps
<1>11. CASE AddLotWithDecision(c)
  BY <1>11, WithDecisionKeeps
<1>12. CASE AddFirstLeg(c)
  BY <1>12, FirstLegKeeps
<1>13. CASE AddSecondLeg(c)
  BY <1>13, SecondLegKeeps
<1>14. CASE LinkFundOps(c)
  BY <1>14, LinkFundOpsKeeps
<1>15. CASE WriteRow(c)
  BY <1>15, WriteRowKeeps
<1>16. AddDebt(c) => AddRoot("debts") \/ BeginAdd(c, "debts", "debts")
  BY DEF AddDebt
<1>17. AddTermDeposit(c) => AddRoot("term_deposits") \/ BeginAdd(c, "term_deposits", "goals")
  BY DEF AddTermDeposit
<1>18. AddReserveOp(c) => AddRoot("reserve_ops") \/ BeginAdd(c, "reserve_ops", "reserve_loans")
  BY DEF AddReserveOp
<1>19. /\ AddSale(c) => BeginAdd(c, "sales", "lots")
       /\ AddDepositTopup(c) => BeginAdd(c, "deposit_topups", "term_deposits")
       /\ AddGoalOp(c) => BeginAdd(c, "goal_ops", "goals")
       /\ AddDebtOp(c) => BeginAdd(c, "debt_ops", "debts")
       /\ AddDebtMark(c) => BeginAdd(c, "debt_marks", "debts")
       /\ AddNPFOp(c) => BeginAdd(c, "npf_ops", "npf_accounts")
       /\ AddPlanReceipt(c) => BeginAdd(c, "plan_receipts", "plan_flows")
       /\ AddReserveLoan(c) => BeginAdd(c, "reserve_loans", "reserve_ops")
  BY DEF AddSale, AddDepositTopup, AddGoalOp, AddDebtOp, AddDebtMark, AddNPFOp, AddPlanReceipt,
     AddReserveLoan
<1> QED
  BY <1>1, <1>2, <1>3, <1>4, <1>5, <1>6, <1>7, <1>8, <1>9, <1>10, <1>11, <1>12, <1>13, <1>14,
     <1>15, <1>16, <1>17, <1>18, <1>19 DEF Adds

LEMMA MovesKeep == ASSUME BooksInv, NEW c \in Clients, Moves(c) PROVE Statement
<1>1. CASE WriteMove(c)
  BY <1>1, WriteMoveKeeps
<1>2. CASE ~WriteMove(c)
  <2>1. \E t \in {"sales", "term_deposits", "reserve_ops", "goal_ops", "debts", "debt_ops", "npf_ops"} :
          BeginMove(c, t)
    BY <1>2 DEF Moves, UpdateSale, UpdateTermDeposit, UpdateReserveOp, UpdateGoalOp, UpdateDebt,
       UpdateDebtOp, UpdateNPFOp
  <2>2. \A t \in {"sales", "term_deposits", "reserve_ops", "goal_ops", "debts", "debt_ops", "npf_ops"} :
          HasKey(t) /\ t \notin Unique
    BY DEF HasKey, Parent, Unique
  <2> QED BY <2>1, <2>2, BeginMoveKeeps
<1> QED BY <1>1, <1>2

LEMMA DeletesKeep == ASSUME BooksInv, Deletes PROVE Statement
<1>1. \/ DeleteReserveOp \/ DeleteReserveLoan \/ DeleteFundOp
      \/ \E t : DeleteRow(t)
  BY DEF Deletes, DeleteGoal, DeleteDebt, DeleteLot, DeleteSale, DeleteGoalOp, DeleteDebtOp,
     DeleteDebtMark, DeleteNPFOp, DeleteNPFNavPoint, DeleteDepositTopup, DeletePlanReceipt
<1> QED BY <1>1, DeleteRowKeeps, DeleteReserveOpKeeps, DeleteReserveLoanKeeps, DeleteFundOpKeeps

LEMMA DeletesInStepsKeep == ASSUME BooksInv, NEW c \in Clients, DeletesInSteps(c) PROVE Statement
<1>1. CASE \E t \in {"term_deposits", "npf_accounts"} : BeginDelete(c, t)
  BY <1>1, BeginDeleteKeeps
<1>2. CASE DeleteUnderneath(c)
  BY <1>2, DeleteUnderneathKeeps
<1>3. CASE DeleteItself(c)
  BY <1>3, DeleteItselfKeeps
<1> QED BY <1>1, <1>2, <1>3 DEF DeletesInSteps, DeleteTermDeposit, DeleteNPFAccount

LEMMA PlanKeeps == ASSUME BooksInv, Plan PROVE Statement
BY AddPlanFlowKeeps, UpdatePlanFlowKeeps, DeletePlanFlowKeeps DEF Plan

LEMMA Steps ==
  ASSUME BooksInv, [Next]_vars
  PROVE  \/ Statement
         \/ (swapped' \/ BooksInv') /\ \E o : Others(rows, o) = Others(rows', o)
         \/ NewMachine
<1>1. CASE Roots \/ Deletes \/ Plan \/ \E c \in Clients : Adds(c) \/ Moves(c) \/ DeletesInSteps(c)
  BY <1>1, RootsKeep, DeletesKeep, PlanKeeps, AddsKeep, MovesKeep, DeletesInStepsKeep
<1>2. CASE Crash
  BY <1>2, CrashKeeps
<1>3. CASE NewMachine
  BY <1>3
<1>4. ASSUME NEW p \in Portfolios, ExportAll(p)
      PROVE  BooksInv' /\ \E o : Others(rows, o) = Others(rows', o)
  <2>1. rows' = rows
    BY <1>4 DEF ExportAll
  <2> QED BY <1>4, <2>1, ExportKeeps
<1>5. ASSUME NEW p \in Portfolios, ImportAll(p)
      PROVE  (swapped' \/ BooksInv') /\ \E o : Others(rows, o) = Others(rows', o)
  BY <1>5, ImportKeeps
<1>6. CASE UNCHANGED vars
  <2>1. BooksInv' /\ rows' = rows
    BY <1>6 DEF vars, BooksInv
  <2> QED BY <2>1
<1> QED BY <1>1, <1>2, <1>3, <1>4, <1>5, <1>6 DEF Next

LEMMA BooksInvStep == ASSUME BooksInv, [Next]_vars PROVE swapped' \/ BooksInv'
BY Steps, StatementKeeps, NewMachineKeeps

(* Neighbours, moves to a new machine.                                     *)
LEMMA NothingElse ==
  ASSUME Next
  PROVE  Elsewhere \/ Crash \/ NewMachine \/ \E p \in Portfolios : ExportAll(p) \/ ImportAll(p)
<1>1. \A t : AddRoot(t) => Elsewhere
  BY DEF AddRoot
<1>2. \A c, t, to : BeginAdd(c, t, to) => Elsewhere
  BY DEF BeginAdd
<1>3. \A c, t : BeginMove(c, t) => Elsewhere
  BY DEF BeginMove
<1>4. Roots => Elsewhere
  BY <1>1 DEF Roots, AddLot, AddFundOp, AddGoal, AddNPFAccount, AddNPFNavPoints
<1>5. \A c : Moves(c) => Elsewhere
  BY <1>3 DEF Moves, UpdateSale, UpdateTermDeposit, UpdateReserveOp, UpdateGoalOp, UpdateDebt,
     UpdateDebtOp, UpdateNPFOp, WriteMove
<1>6. \A c : AddReserveOpWithLoan(c) \/ AddLotWithDecision(c) \/ AddFirstLeg(c) => Elsewhere
  BY DEF AddReserveOpWithLoan, AddLotWithDecision, AddFirstLeg
<1>7. \A c : AddSecondLeg(c) \/ LinkFundOps(c) \/ WriteRow(c) => Elsewhere
  BY DEF AddSecondLeg, LinkFundOps, WriteRow
<1>8. \A c : Adds(c) => Elsewhere
  BY <1>1, <1>2, <1>6, <1>7 DEF Adds, AddDebt, AddTermDeposit, AddReserveOp, AddSale,
     AddDepositTopup, AddGoalOp, AddDebtOp, AddDebtMark, AddNPFOp, AddPlanReceipt, AddReserveLoan
<1>9. \A t : DeleteRow(t) => Elsewhere
  BY DEF DeleteRow
<1>10. Deletes => Elsewhere
  BY <1>9 DEF Deletes, DeleteGoal, DeleteDebt, DeleteLot, DeleteSale, DeleteGoalOp, DeleteDebtOp,
     DeleteDebtMark, DeleteNPFOp, DeleteNPFNavPoint, DeleteDepositTopup, DeletePlanReceipt,
     DeleteReserveOp, DeleteReserveLoan, DeleteFundOp
<1>11. \A c : DeletesInSteps(c) => Elsewhere
  BY DEF DeletesInSteps, DeleteTermDeposit, DeleteNPFAccount, BeginDelete, DeleteUnderneath,
     DeleteItself
<1>12. Plan => Elsewhere
  BY DEF Plan, AddPlanFlow, UpdatePlanFlow, DeletePlanFlow, JournalPlanFlow
<1> QED BY <1>4, <1>5, <1>8, <1>10, <1>11, <1>12 DEF Next

MachinesInv == BooksInv /\ machines \in Nat

LEMMA MachinesStep ==
  ASSUME MachinesInv, [Next]_vars
  PROVE  /\ swapped' \/ MachinesInv'
         /\ machines' = machines => \E o : Others(rows, o) = Others(rows', o)
<1>1. machines' = machines \/ (NewMachine /\ machines' = machines + 1)
  BY NothingElse DEF Elsewhere, Crash, NewMachine, ExportAll, ImportAll, vars
<1>2. machines \in Nat /\ BooksInv
  BY DEF MachinesInv
<1>3. swapped' \/ BooksInv'
  BY <1>2, BooksInvStep
<1>4. machines' \in Nat
  BY <1>1, <1>2
<1>5. ASSUME machines' = machines PROVE \E o : Others(rows, o) = Others(rows', o)
  <2>1. ~(machines' = machines + 1)
    BY <1>2, <1>5
  <2>2. ~NewMachine
    BY <2>1 DEF NewMachine
  <2> QED BY <1>2, <2>2, Steps DEF Statement, RowsStep
<1> QED BY <1>3, <1>4, <1>5 DEF MachinesInv

LEMMA Neighbours ==
  ASSUME NEW rs, NEW rs2, NEW o, Others(rs, o) = Others(rs2, o), NEW p, NEW q, p # q
  PROVE  OfPortfolio(rs, p) = OfPortfolio(rs2, p) \/ OfPortfolio(rs, q) = OfPortfolio(rs2, q)
<1>1. ASSUME NEW z, z # o PROVE OfPortfolio(rs, z) = OfPortfolio(rs2, z)
  <2>1. \A r : r \in rs /\ r.owner = z => r \in Others(rs2, o)
    BY <1>1 DEF Others
  <2>2. \A r : r \in rs2 /\ r.owner = z => r \in Others(rs, o)
    BY <1>1 DEF Others
  <2> QED BY <2>1, <2>2 DEF OfPortfolio, Others
<1> QED BY <1>1

-----------------------------------------------------------------------------
(* What a restore promises. *)

LEMMA NothingHeldBack ==
  ASSUME BooksInv, NEW p PROVE WipeAllowed(p)
<1>1. Sound(rows, tables)
  BY DEF BooksInv, RowsOK
<1>2. ASSUME NEW r \in OfPortfolio(rows, p), NEW c \in Children(Wiped(p), r) PROVE FALSE
  <2>1. r \in rows /\ r.owner = p /\ c \in rows /\ c.owner # p /\ HasKey(c.table) /\ Names(r, c.ref)
    BY <1>2 DEF OfPortfolio, Children, Wiped
  <2>2. c \in Row /\ r \in Row
    BY <1>1, <2>1 DEF Sound
  <2>3. c.ref \in Refs /\ c.ref # NoRef /\ RefTo(r) = c.ref
    BY <2>1, <2>2, RowTypes, NamesIt
  <2>4. PICK parent \in rows : Names(parent, c.ref) /\ parent.owner = c.owner
    BY <1>1, <2>1, <2>3 DEF Sound, Closed
  <2>5. RefTo(parent) = RefTo(r)
    BY <2>3, <2>4, NamesIt
  <2>6. parent = r
    BY <1>1, <2>1, <2>5 DEF Sound, Distinct
  <2> QED BY <2>1, <2>4, <2>6
<1> QED BY <1>2 DEF WipeAllowed

LEMMA CanBeRestored == BooksInv => FileCanBeRestored
<1> SUFFICES ASSUME BooksInv, NEW p \in Portfolios, file # NoFile,
                    \A r \in Stray(file) : r.table # "plan_receipts"
             PROVE  Restored(p, file).ok
  BY DEF FileCanBeRestored
<1>1. FileOK(file, tables) /\ seq \in [tables -> Nat] /\ tables \subseteq AllTables
      /\ RowsOK(rows, seq, births, tables)
  BY TablesKnown DEF BooksInv
<1>2. Distinct(rows)
      /\ \A x \in rows : x.table \in tables /\ x.id \in Nat /\ x.id # 0 /\ x.id <= seq[x.table]
  BY <1>1, RowTypes DEF RowsOK, Sound
<1> DEFINE db == Restored(p, file)
           good == WipeAllowed(p) /\ NoStrayMarks(file)
<1>3. Underway(db, file, Held(file, Linked), p, file, rows, seq, tables, good)
  BY <1>1, <1>2, RestoreDone
<1>4. NoStrayMarks(file)
  BY DEF NoStrayMarks, Stray
<1>5. good
  BY <1>4, NothingHeldBack
<1> HIDE DEF db, good
<1>6. db.ok
  BY <1>3, <1>5 DEF Underway, UnderwayOk
<1> QED BY <1>6 DEF db

LEMMA LabelIs ==
  ASSUME NEW rs, Distinct(rs), rs \subseteq Row, NEW r \in rs, NEW ref, Names(r, ref)
  PROVE  LabelOf(rs, ref) = r.label /\ Resolves(rs, ref)
<1>1. \A s \in rs : Names(s, ref) => s = r
  BY SameName DEF Names, Distinct
<1>2. (CHOOSE s \in rs : Names(s, ref)) = r
  BY <1>1
<1> QED BY <1>2 DEF LabelOf, Resolves

LEMMA BroughtBack ==
  ASSUME BooksInv, NEW p \in Portfolios, file # NoFile, Restored(p, file).ok,
         NEW back, back = OfPortfolio(Restored(p, file).rows, p)
  PROVE  /\ {r.label : r \in back} = {r.label : r \in file}
         /\ \A s \in Story(file) : s.about # 0 => s \in Story(back)
<1>1. /\ FileOK(file, tables) /\ seq \in [tables -> Nat] /\ tables \subseteq AllTables
      /\ RowsOK(rows, seq, births, tables) /\ births \in Nat /\ Sound(file, tables)
      /\ \A r \in file : r.label <= births
      /\ \A r, s \in file : r.label = s.label => r = s
  BY TablesKnown DEF BooksInv, FileOK
<1>2. Distinct(rows)
      /\ \A x \in rows : x.table \in tables /\ x.id \in Nat /\ x.id # 0 /\ x.id <= seq[x.table]
  BY <1>1, RowTypes DEF RowsOK, Sound
<1> DEFINE db == Restored(p, file)
           S == Held(file, Linked)
           is(r) == Moved(db.map, S, p, r)
<1>3. Underway(db, file, S, p, file, rows, seq, tables, WipeAllowed(p) /\ NoStrayMarks(file))
  BY <1>1, <1>2, RestoreDone
<1>4. RowsOK(db.rows, db.seq, births, tables)
  BY <1>1, RestoredIsSound
<1> HIDE DEF db, S
<1>5. UnderwayRows(db, file, S, p, file, rows, seq, tables)
  BY <1>3 DEF Underway
<1>6. /\ db.rows = Others(rows, p) \cup {is(r) : r \in file}
      /\ MapOK(db.map, file, seq) /\ Distinct(db.rows) /\ db.rows \subseteq Row
  BY <1>4, <1>5 DEF UnderwayRows, RowsOK, Sound
<1>7. ASSUME NEW r \in file
      PROVE  is(r).table = r.table /\ is(r).owner = p /\ is(r).label = r.label
             /\ is(r).ref = Of(db.map, r.ref)
  BY <1>1, <1>6, RestoredRow DEF S
<1> HIDE DEF is
<1>8. \A x : x \in back <=> \E r \in file : x = is(r)
  <2>1. back = OfPortfolio(db.rows, p)
    BY DEF db
  <2> QED BY <2>1, <1>6, <1>7 DEF OfPortfolio, Others
<1>9. back \subseteq Row /\ Distinct(back)
  BY <1>6, <1>8 DEF Distinct
<1>10. {r.label : r \in back} = {r.label : r \in file}
  BY <1>7, <1>8
<1>11. ASSUME NEW r \in file, Resolves(file, r.ref)
       PROVE  /\ Resolves(back, is(r).ref)
              /\ LabelOf(back, is(r).ref) = LabelOf(file, r.ref)
  <2>1. r.ref \in Refs
    BY <1>1, RowTypes DEF Sound
  <2>2. PICK s \in file : RefTo(s) = r.ref /\ Names(is(s), Of(db.map, r.ref))
    BY <1>1, <1>5, <1>11, <2>1, ImageNamed DEF is
  <2>3. LabelOf(file, r.ref) = s.label
    <3>1. Names(s, r.ref)
      BY <2>1, <2>2, NamesIt
    <3> QED BY <3>1, <1>1, LabelIs DEF Sound
  <2>4. is(s) \in back /\ Names(is(s), is(r).ref)
    BY <1>7, <1>8, <2>2
  <2>5. LabelOf(back, is(r).ref) = is(s).label /\ Resolves(back, is(r).ref)
    BY <1>9, <2>4, LabelIs
  <2> QED BY <1>7, <2>3, <2>5
<1>12. ASSUME NEW s \in Story(file), s.about # 0 PROVE s \in Story(back)
  <2>1. PICK r \in file : s = [table |-> r.table, label |-> r.label,
          about |-> IF Resolves(file, r.ref) THEN LabelOf(file, r.ref) ELSE 0]
    BY <1>12 DEF Story
  <2>2. Resolves(file, r.ref)
    BY <1>12, <2>1
  <2>3. s = [table |-> is(r).table, label |-> is(r).label,
             about |-> IF Resolves(back, is(r).ref) THEN LabelOf(back, is(r).ref) ELSE 0]
    BY <1>7, <1>11, <2>1, <2>2
  <2>4. is(r) \in back
    BY <1>8
  <2> QED BY <2>3, <2>4 DEF Story
<1> QED BY <1>10, <1>12

-----------------------------------------------------------------------------
(* The legs of transfers, and the plan.  Their tables are written by their *)
(* own statements only.                                                    *)
Kept == {"plan_flows", "plan_flow_revisions", "fund_ops"}
OfTables(rs, ts) == {r \in rs : r.table \in ts}

(* A request that is about no transfer, and one whose statements write     *)
(* other tables.                                                           *)
Legless(q) == q.kind \notin {"second leg", "link"}
Aside(q) ==
  /\ q.kind \in {"insert", "update"} => q.table \notin Kept
  /\ q.kind = "delete" => q.row.to \notin Kept

(* Nobody points at the leg, and it points at nobody. *)
Loose(rs, i) ==
  \A r \in rs : r.table = "fund_ops" => r.ref # Leg(i) /\ (r.id = i => r.ref = NoRef)

(* The request has pointed leg b at leg a, and not yet a at b.             *)
HalfLinked(q) == q.kind = "link" /\ ~q.again

(* The legs a transfer under way has inserted. *)
LegsOf(q) ==
  CASE q.kind = "second leg" -> {q.a}
    [] q.kind = "link" -> {q.a, q.b}
    [] OTHER -> {}

(* How far a transfer has been linked. *)
RequestLegs(q, rs) ==
  /\ q.kind = "second leg" => Loose(rs, q.a)
  /\ q.kind = "link" => q.a # q.b
  /\ q.kind = "link" /\ q.again => Loose(rs, q.a) /\ Loose(rs, q.b)
  /\ HalfLinked(q) => \A r \in rs : r.table = "fund_ops" =>
       /\ r.id = q.a => r.ref = NoRef
       /\ r.id = q.b => r.ref = Leg(q.a)
       /\ r.ref = Leg(q.a) => r.id = q.b
       /\ r.ref # Leg(q.b)

(* Every leg that points is pointed back at, or its transfer has one       *)
(* statement to go; no two transfers share a leg.                          *)
Legs(rs, rq) ==
  /\ \A r \in rs : r.table = "fund_ops" /\ r.ref # NoRef =>
       \/ \E other \in rs : Names(other, r.ref) /\ other.ref = RefTo(r)
       \/ \E c \in Clients : HalfLinked(rq[c]) /\ rq[c].b = r.id
  /\ \A c \in Clients : RequestLegs(rq[c], rs)
  /\ \A c, d \in Clients : c # d => LegsOf(rq[c]) \cap LegsOf(rq[d]) = {}

Flows(rs, p) == {x \in rs : x.table = "plan_flows" /\ x.owner = p}
FlowRefs(rs, p) == {RefTo(r) : r \in Flows(rs, p)}

(* The journal of these rows tells the sources of income they hold, and no *)
(* line is about a number that is still to be given out.                   *)
Told(rs, sq, ts) ==
  /\ \A p \in Portfolios : PlanAsOf(rs, p) = FlowRefs(rs, p)
  /\ \A r \in rs : r.table = "plan_flow_revisions" =>
       "plan_flows" \in ts /\ r.ref.to = "plan_flows" /\ r.ref.id <= sq["plan_flows"]

(* Transfers are linked as long as no crash has cut one short and no       *)
(* restore brought half of one back; the journal is told on one machine.   *)
KeptInv ==
  /\ BooksInv
  /\ machines \in Nat /\ crashes \in Nat /\ restores \in Nat
  /\ \A c \in Clients : Aside(request[c])
  /\ crashes = 0 /\ restores = 0 => Legs(rows, request)
  /\ machines = 0 => /\ Told(rows, seq, tables)
                     /\ file # NoFile => Told(file, seq, tables)

(* A statement that leaves these tables and the transfers alone.           *)
Quiet ==
  /\ OfTables(rows', Kept) = OfTables(rows, Kept)
  /\ \A c \in Clients :
       \/ request'[c] = request[c]
       \/ Legless(request[c]) /\ Legless(request'[c]) /\ Aside(request'[c])

LEMMA RowTable == \A t, p, ref, op : NewRow(t, p, ref, op).table = t
BY DEF NewRow

LEMMA AddedAside ==
  ASSUME NEW new, new.table \notin Kept, Insert(new)
  PROVE  OfTables(rows', Kept) = OfTables(rows, Kept)
BY DEF Insert, OfTables

LEMMA SetAside ==
  ASSUME NEW rs, rs \subseteq Row, NEW r \in rs, NEW ref, r.table \notin Kept
  PROVE  OfTables(SetRef(rs, r, ref), Kept) = OfTables(rs, Kept)
<1>1. r \in Row
  OBVIOUS
<1>2. [r EXCEPT !.ref = ref].table = r.table
  BY <1>1 DEF Row
<1> QED BY <1>2 DEF SetRef, OfTables

LEMMA DeletedAside ==
  ASSUME NEW rs, NEW gone, \A r \in gone : r.table \notin Kept
  PROVE  OfTables(Deleted(rs, gone), Kept) = OfTables(rs, Kept)
<1> DEFINE all == gone \cup UNION {Cascade(rs, r) : r \in gone}
<1>1. \A r \in all : r.table \notin Kept
  BY DEF Cascade, Kept
<1>2. Deleted(rs, gone) = rs \/ Deleted(rs, gone) = rs \ all
  BY DEF Deleted
<1> HIDE DEF all
<1> QED BY <1>1, <1>2 DEF OfTables

LEMMA UntiedAside ==
  ASSUME NEW rs, rs \subseteq Row, NEW loans
  PROVE  OfTables(Untied(rs, loans), Kept) = OfTables(rs, Kept)
<1>1. \A r \in rs : [r EXCEPT !.ref = NoRef].table = r.table
  BY DEF Row
<1>2. "reserve_ops" \notin Kept
  BY DEF Kept
<1> QED BY <1>1, <1>2 DEF Untied, OfTables

LEMMA RequestAside ==
  ASSUME DOMAIN request = Clients, NEW c \in Clients, NEW q,
         request' = [request EXCEPT ![c] = q],
         Legless(request[c]), Legless(q), Aside(q)
  PROVE  \A d \in Clients :
           \/ request'[d] = request[d]
           \/ Legless(request[d]) /\ Legless(request'[d]) /\ Aside(request'[d])
BY RequestSet

LEMMA IdleAside == Idle.kind = "idle" /\ Legless(Idle) /\ Aside(Idle)
BY DEF Idle, Legless, Aside

LEMMA QuietRoot == ASSUME NEW t, t \notin Kept, AddRoot(t) PROVE Quiet
<1>1. PICK p : Insert(NewRow(t, p, NoRef, ""))
  BY DEF AddRoot
<1>2. request' = request
  BY DEF AddRoot
<1> DEFINE new == NewRow(t, p, NoRef, "")
<1>3. new.table = t
  BY RowTable
<1> HIDE DEF new
<1>4. OfTables(rows', Kept) = OfTables(rows, Kept)
  BY <1>1, <1>3, AddedAside DEF new
<1> QED BY <1>2, <1>4 DEF Quiet

LEMMA QuietNavPoint == ASSUME AddNPFNavPoints PROVE Quiet
<1>1. PICK p, ref : Insert(NewRow("npf_nav", p, ref, ""))
  BY DEF AddNPFNavPoints
<1>2. request' = request /\ "npf_nav" \notin Kept
  BY DEF AddNPFNavPoints, Kept
<1> DEFINE new == NewRow("npf_nav", p, ref, "")
<1>3. new.table = "npf_nav"
  BY RowTable
<1> HIDE DEF new
<1>4. OfTables(rows', Kept) = OfTables(rows, Kept)
  BY <1>1, <1>2, <1>3, AddedAside DEF new
<1> QED BY <1>2, <1>4 DEF Quiet

LEMMA QuietBegin ==
  ASSUME BooksInv, NEW c \in Clients, NEW q, request[c] = Idle, rows' = rows,
         request' = [request EXCEPT ![c] = q], Legless(q), Aside(q)
  PROVE  Quiet
<1>1. DOMAIN request = Clients
  BY DEF BooksInv
<1> QED BY <1>1, IdleAside, RequestAside DEF Quiet

LEMMA QuietBeginAdd ==
  ASSUME BooksInv, NEW c \in Clients, NEW t, NEW to, t \notin Kept, BeginAdd(c, t, to)
  PROVE  Quiet
<1>1. PICK p, ref : request' = [request EXCEPT ![c] =
                      [kind |-> "insert", table |-> t, owner |-> p, ref |-> ref]]
  BY DEF BeginAdd
<1>2. request[c] = Idle /\ rows' = rows
  BY DEF BeginAdd
<1> DEFINE q == [kind |-> "insert", table |-> t, owner |-> p, ref |-> ref]
<1>3. Legless(q) /\ Aside(q)
  BY DEF Legless, Aside
<1> HIDE DEF q
<1>4. request' = [request EXCEPT ![c] = q]
  BY <1>1 DEF q
<1> QED BY <1>2, <1>3, <1>4, QuietBegin

LEMMA QuietBeginMove ==
  ASSUME BooksInv, NEW c \in Clients, NEW t, t \notin Kept, BeginMove(c, t)
  PROVE  Quiet
<1>1. PICK p, i, ref : request' = [request EXCEPT ![c] =
                 [kind |-> "update", table |-> t, owner |-> p, id |-> i, ref |-> ref]]
  BY DEF BeginMove
<1>2. request[c] = Idle /\ rows' = rows
  BY DEF BeginMove
<1> DEFINE q == [kind |-> "update", table |-> t, owner |-> p, id |-> i, ref |-> ref]
<1>3. Legless(q) /\ Aside(q)
  BY DEF Legless, Aside
<1> HIDE DEF q
<1>4. request' = [request EXCEPT ![c] = q]
  BY <1>1 DEF q
<1> QED BY <1>2, <1>3, <1>4, QuietBegin

LEMMA QuietBeginDelete ==
  ASSUME BooksInv, NEW c \in Clients, NEW t, t \notin Kept, BeginDelete(c, t)
  PROVE  Quiet
<1>1. PICK r \in rows : r.table = t /\ request' = [request EXCEPT ![c] =
            [kind |-> "delete", row |-> RefTo(r), owner |-> r.owner,
             left |-> Underneath[t], since |-> births]]
  BY DEF BeginDelete
<1>2. request[c] = Idle /\ rows' = rows
  BY DEF BeginDelete
<1> DEFINE q == [kind |-> "delete", row |-> RefTo(r), owner |-> r.owner,
                 left |-> Underneath[t], since |-> births]
<1>3. Legless(q) /\ Aside(q)
  BY <1>1 DEF Legless, Aside, RefTo
<1> HIDE DEF q
<1>4. request' = [request EXCEPT ![c] = q]
  BY <1>1 DEF q
<1> QED BY <1>2, <1>3, <1>4, QuietBegin

(* The second statements of requests. *)
LEMMA QuietAnswer ==
  ASSUME BooksInv, NEW c \in Clients, Legless(request[c]),
         request' = [request EXCEPT ![c] = Idle],
         OfTables(rows', Kept) = OfTables(rows, Kept)
  PROVE  Quiet
<1>1. DOMAIN request = Clients
  BY DEF BooksInv
<1> QED BY <1>1, IdleAside, RequestAside DEF Quiet

LEMMA QuietWriteRow ==
  ASSUME BooksInv, NEW c \in Clients, Aside(request[c]), WriteRow(c) PROVE Quiet
<1> DEFINE q == request[c]
<1>1. q.kind = "insert" /\ request' = [request EXCEPT ![c] = Idle]
  BY DEF WriteRow, Answer
<1>2. Legless(q) /\ q.table \notin Kept
  BY <1>1 DEF Legless, Aside
<1>3. CASE KeyHolds(q.table, q.ref) /\ Free(rows, q.table, q.owner, q.ref)
  <2>1. Insert(NewRow(q.table, q.owner, q.ref, ""))
    BY <1>3 DEF WriteRow
  <2> DEFINE new == NewRow(q.table, q.owner, q.ref, "")
  <2>3. Insert(new)
    BY <2>1
  <2> HIDE DEF q
  <2>2. new.table = q.table
    BY RowTable
  <2> HIDE DEF new
  <2>4. OfTables(rows', Kept) = OfTables(rows, Kept)
    BY <1>2, <2>2, <2>3, AddedAside
  <2> QED BY <1>1, <1>2, <2>4, QuietAnswer DEF q
<1>4. CASE ~ (KeyHolds(q.table, q.ref) /\ Free(rows, q.table, q.owner, q.ref))
  <2>1. rows' = rows
    BY <1>4 DEF WriteRow
  <2> QED BY <1>1, <1>2, <2>1, QuietAnswer
<1> QED BY <1>3, <1>4

LEMMA RowsAreRows == BooksInv => rows \subseteq Row
BY DEF BooksInv, RowsOK, Sound

LEMMA QuietWriteMove ==
  ASSUME BooksInv, NEW c \in Clients, Aside(request[c]), WriteMove(c) PROVE Quiet
<1> DEFINE q == request[c]
           found == {r \in rows : r.table = q.table /\ r.id = q.id /\ r.owner = q.owner}
           row == CHOOSE r \in found : TRUE
<1>1. q.kind = "update" /\ request' = [request EXCEPT ![c] = Idle]
      /\ rows' = IF KeyHolds(q.table, q.ref) /\ found # {} THEN SetRef(rows, row, q.ref) ELSE rows
  BY DEF WriteMove, Answer
<1>2. Legless(q) /\ q.table \notin Kept
  BY <1>1 DEF Legless, Aside
<1>3. CASE KeyHolds(q.table, q.ref) /\ found # {}
  <2>1. row \in rows /\ row.table = q.table
    BY <1>3
  <2>2. rows' = SetRef(rows, row, q.ref)
    BY <1>1, <1>3
  <2> HIDE DEF row, found, q
  <2>3. OfTables(rows', Kept) = OfTables(rows, Kept)
    BY <1>2, <2>1, <2>2, RowsAreRows, SetAside
  <2> QED BY <1>1, <1>2, <2>3, QuietAnswer DEF q
<1>4. CASE ~ (KeyHolds(q.table, q.ref) /\ found # {})
  <2>1. rows' = rows
    BY <1>1, <1>4
  <2> QED BY <1>1, <1>2, <2>1, QuietAnswer
<1> QED BY <1>3, <1>4

LEMMA QuietInsertThen ==
  ASSUME BooksInv, NEW c \in Clients, request[c] = Idle, NEW new, Insert(new),
         new.table \notin Kept, NEW q, request' = [request EXCEPT ![c] = q],
         Legless(q), Aside(q)
  PROVE  Quiet
<1>1. DOMAIN request = Clients
  BY DEF BooksInv
<1>2. OfTables(rows', Kept) = OfTables(rows, Kept)
  BY AddedAside
<1> QED BY <1>1, <1>2, IdleAside, RequestAside DEF Quiet

LEMMA QuietWithLoan ==
  ASSUME BooksInv, NEW c \in Clients, AddReserveOpWithLoan(c) PROVE Quiet
<1>1. PICK p \in Portfolios :
        LET op == NewRow("reserve_ops", p, NoRef, "")
        IN  /\ Insert(op)
            /\ request' = [request EXCEPT ![c] =
                 [kind |-> "insert", table |-> "reserve_loans", owner |-> p, ref |-> RefTo(op)]]
  BY DEF AddReserveOpWithLoan
<1>2. request[c] = Idle
  BY DEF AddReserveOpWithLoan
<1> DEFINE op == NewRow("reserve_ops", p, NoRef, "")
           q == [kind |-> "insert", table |-> "reserve_loans", owner |-> p, ref |-> RefTo(op)]
<1>3. Insert(op) /\ request' = [request EXCEPT ![c] = q]
  BY <1>1
<1>4. op.table \notin Kept
  <2>1. op.table = "reserve_ops"
    BY RowTable
  <2> QED BY <2>1 DEF Kept
<1> HIDE DEF op
<1>5. Legless(q) /\ Aside(q)
  BY DEF Legless, Aside, Kept
<1> HIDE DEF q
<1> QED BY <1>2, <1>3, <1>4, <1>5, QuietInsertThen

LEMMA QuietWithDecision ==
  ASSUME BooksInv, NEW c \in Clients, AddLotWithDecision(c) PROVE Quiet
<1>1. PICK p \in Portfolios :
        LET lot == NewRow("lots", p, NoRef, "")
        IN  /\ Insert(lot)
            /\ request' = [request EXCEPT ![c] =
                 [kind |-> "insert", table |-> "decisions", owner |-> p, ref |-> RefTo(lot)]]
  BY DEF AddLotWithDecision
<1>2. request[c] = Idle
  BY DEF AddLotWithDecision
<1> DEFINE lot == NewRow("lots", p, NoRef, "")
           q == [kind |-> "insert", table |-> "decisions", owner |-> p, ref |-> RefTo(lot)]
<1>3. Insert(lot) /\ request' = [request EXCEPT ![c] = q]
  BY <1>1
<1>4. lot.table \notin Kept
  <2>1. lot.table = "lots"
    BY RowTable
  <2> QED BY <2>1 DEF Kept
<1> HIDE DEF lot
<1>5. Legless(q) /\ Aside(q)
  BY DEF Legless, Aside, Kept
<1> HIDE DEF q
<1> QED BY <1>2, <1>3, <1>4, <1>5, QuietInsertThen

(* Deletions. *)
LEMMA QuietStays ==
  ASSUME request' = request, OfTables(rows', Kept) = OfTables(rows, Kept) PROVE Quiet
BY DEF Quiet

LEMMA QuietDeleteRow == ASSUME NEW t, t \notin Kept, DeleteRow(t) PROVE Quiet
<1>1. PICK r \in rows : r.table = t /\ rows' = Deleted(rows, {r})
  BY DEF DeleteRow
<1>2. request' = request
  BY DEF DeleteRow
<1>3. \A s \in {r} : s.table \notin Kept
  BY <1>1
<1>4. OfTables(rows', Kept) = OfTables(rows, Kept)
  BY <1>1, <1>3, DeletedAside
<1> QED BY <1>2, <1>4, QuietStays

LEMMA QuietDeleteReserveLoan == ASSUME BooksInv, DeleteReserveLoan PROVE Quiet
<1>1. PICK l \in rows : l.table = "reserve_loans" /\ rows' = Deleted(Untied(rows, {l}), {l})
  BY DEF DeleteReserveLoan
<1>2. request' = request
  BY DEF DeleteReserveLoan
<1>3. \A s \in {l} : s.table \notin Kept
  BY <1>1 DEF Kept
<1>4. OfTables(rows', Kept) = OfTables(Untied(rows, {l}), Kept)
  BY <1>1, <1>3, DeletedAside
<1>5. OfTables(Untied(rows, {l}), Kept) = OfTables(rows, Kept)
  BY RowsAreRows, UntiedAside
<1> QED BY <1>2, <1>4, <1>5, QuietStays

LEMMA QuietDeleteReserveOp == ASSUME BooksInv, DeleteReserveOp PROVE Quiet
<1>1. PICK op \in rows :
        /\ op.table = "reserve_ops"
        /\ rows' = Deleted(Untied(rows, Cascade(rows, op)),
                           {r \in Untied(rows, Cascade(rows, op)) : Names(r, RefTo(op))})
  BY DEF DeleteReserveOp
<1>2. request' = request
  BY DEF DeleteReserveOp
<1> DEFINE mid == Untied(rows, Cascade(rows, op))
           gone == {r \in mid : Names(r, RefTo(op))}
<1>3. \A s \in gone : s.table \notin Kept
  BY <1>1 DEF Kept, Names, RefTo
<1>4. OfTables(mid, Kept) = OfTables(rows, Kept)
  BY RowsAreRows, UntiedAside
<1>5. rows' = Deleted(mid, gone)
  BY <1>1
<1> HIDE DEF mid, gone
<1>6. OfTables(rows', Kept) = OfTables(mid, Kept)
  BY <1>3, <1>5, DeletedAside
<1> QED BY <1>2, <1>4, <1>6, QuietStays

LEMMA QuietDeleteUnderneath ==
  ASSUME BooksInv, NEW c \in Clients, Aside(request[c]), DeleteUnderneath(c) PROVE Quiet
<1> DEFINE q == request[c]
           gone == {r \in Own(Head(q.left), q.owner) : r.ref = q.row}
           q2 == [q EXCEPT !.left = Tail(q.left)]
<1>1. /\ q.kind = "delete" /\ q.left # <<>>
      /\ rows' = rows \ gone /\ request' = [request EXCEPT ![c].left = Tail(q.left)]
  BY DEF DeleteUnderneath
<1>2. q \in [kind : {"delete"}, row : Refs, owner : Portfolios,
             left : {<<>>, <<"deposit_topups">>, <<"npf_ops", "npf_nav">>, <<"npf_nav">>},
             since : Nat]
  BY <1>1, RequestKept, Kinds
<1>3. q.left \in {<<"deposit_topups">>, <<"npf_ops", "npf_nav">>, <<"npf_nav">>}
  BY <1>1, <1>2
<1>4. Head(q.left) \in {"deposit_topups", "npf_ops", "npf_nav"}
  BY <1>3, HeadsAndTails
<1>5. \A r \in gone : r.table \notin Kept
  BY <1>4 DEF Own, Kept
<1>6. request' = [request EXCEPT ![c] = q2]
  BY <1>1
<1>7. q2.kind = "delete" /\ q2.row = q.row
  BY <1>2
<1>8. Legless(q) /\ Legless(q2) /\ Aside(q2)
  BY <1>1, <1>7 DEF Legless, Aside
<1>9. OfTables(rows', Kept) = OfTables(rows, Kept)
  BY <1>1, <1>5 DEF OfTables
<1>10. DOMAIN request = Clients
  BY DEF BooksInv
<1> HIDE DEF q2, gone
<1> QED BY <1>6, <1>8, <1>9, <1>10, RequestAside DEF Quiet

LEMMA QuietDeleteItself ==
  ASSUME BooksInv, NEW c \in Clients, Aside(request[c]), DeleteItself(c) PROVE Quiet
<1> DEFINE q == request[c]
           gone == {r \in rows : Names(r, q.row) /\ r.owner = q.owner}
<1>1. /\ rows' = Deleted(rows, gone) /\ request' = [request EXCEPT ![c] = Idle]
      /\ q.kind = "delete"
  BY DEF DeleteItself, Answer
<1>2. \A r \in gone : r.table \notin Kept
  BY <1>1 DEF Names, Aside
<1>3. Legless(q)
  BY <1>1 DEF Legless
<1> HIDE DEF gone
<1>4. OfTables(rows', Kept) = OfTables(rows, Kept)
  BY <1>1, <1>2, DeletedAside
<1> QED BY <1>1, <1>3, <1>4, QuietAnswer

(* Every step is one of these. *)
LEMMA RootSorts == ASSUME Roots PROVE Quiet \/ AddFundOp
<1>1. CASE AddNPFNavPoints
  BY <1>1, QuietNavPoint
<1>2. \A t \in {"lots", "goals", "npf_accounts"} : t \notin Kept
  BY DEF Kept
<1> QED BY <1>1, <1>2, QuietRoot DEF Roots, AddLot, AddGoal, AddNPFAccount

LegSteps(c) == AddFirstLeg(c) \/ AddSecondLeg(c) \/ LinkFundOps(c)

LEMMA AddSorts ==
  ASSUME BooksInv, NEW c \in Clients, Aside(request[c]), Adds(c) PROVE Quiet \/ LegSteps(c)
<1>1. \A t \in {"debts", "term_deposits", "reserve_ops"} : AddRoot(t) => Quiet
  BY QuietRoot DEF Kept
<1>2. \A t \in {"debts", "term_deposits", "reserve_ops", "sales", "deposit_topups", "goal_ops",
                "debt_ops", "debt_marks", "npf_ops", "plan_receipts", "reserve_loans"} :
        t \notin Kept
  BY DEF Kept
<1>3. \A t \in {"debts", "term_deposits", "reserve_ops", "sales", "deposit_topups", "goal_ops",
                "debt_ops", "debt_marks", "npf_ops", "plan_receipts", "reserve_loans"} :
        \A to : BeginAdd(c, t, to) => Quiet
  BY <1>2, QuietBeginAdd
<1>4. \/ \E t \in {"debts", "term_deposits", "reserve_ops"} : AddRoot(t)
      \/ \E t \in {"debts", "term_deposits", "reserve_ops", "sales", "deposit_topups", "goal_ops",
                   "debt_ops", "debt_marks", "npf_ops", "plan_receipts", "reserve_loans"} :
           \E to : BeginAdd(c, t, to)
      \/ AddReserveOpWithLoan(c) \/ AddLotWithDecision(c) \/ WriteRow(c)
      \/ LegSteps(c)
  BY DEF Adds, AddDebt, AddTermDeposit, AddReserveOp, AddSale, AddDepositTopup, AddGoalOp,
     AddDebtOp, AddDebtMark, AddNPFOp, AddPlanReceipt, AddReserveLoan, LegSteps
<1> QED BY <1>1, <1>3, <1>4, QuietWithLoan, QuietWithDecision, QuietWriteRow

LEMMA MoveSorts ==
  ASSUME BooksInv, NEW c \in Clients, Aside(request[c]), Moves(c) PROVE Quiet
<1>1. \A t \in {"sales", "term_deposits", "reserve_ops", "goal_ops", "debts", "debt_ops",
                "npf_ops"} : t \notin Kept
  BY DEF Kept
<1>2. \/ WriteMove(c)
      \/ \E t \in {"sales", "term_deposits", "reserve_ops", "goal_ops", "debts", "debt_ops",
                   "npf_ops"} : BeginMove(c, t)
  BY DEF Moves, UpdateSale, UpdateTermDeposit, UpdateReserveOp, UpdateGoalOp, UpdateDebt,
     UpdateDebtOp, UpdateNPFOp
<1> QED BY <1>1, <1>2, QuietBeginMove, QuietWriteMove

LEMMA DeleteSorts == ASSUME BooksInv, Deletes PROVE Quiet \/ DeleteFundOp
<1>1. \A t \in {"goals", "debts", "lots", "sales", "goal_ops", "debt_ops", "debt_marks",
                "npf_ops", "npf_nav", "deposit_topups", "plan_receipts"} : t \notin Kept
  BY DEF Kept
<1>2. \/ DeleteReserveOp \/ DeleteReserveLoan \/ DeleteFundOp
      \/ \E t \in {"goals", "debts", "lots", "sales", "goal_ops", "debt_ops", "debt_marks",
                   "npf_ops", "npf_nav", "deposit_topups", "plan_receipts"} : DeleteRow(t)
  BY DEF Deletes, DeleteGoal, DeleteDebt, DeleteLot, DeleteSale, DeleteGoalOp, DeleteDebtOp,
     DeleteDebtMark, DeleteNPFOp, DeleteNPFNavPoint, DeleteDepositTopup, DeletePlanReceipt
<1> QED BY <1>1, <1>2, QuietDeleteRow, QuietDeleteReserveOp, QuietDeleteReserveLoan

LEMMA DeleteInStepsSorts ==
  ASSUME BooksInv, NEW c \in Clients, Aside(request[c]), DeletesInSteps(c) PROVE Quiet
<1>1. \A t \in {"term_deposits", "npf_accounts"} : t \notin Kept
  BY DEF Kept
<1>2. \/ DeleteUnderneath(c) \/ DeleteItself(c)
      \/ \E t \in {"term_deposits", "npf_accounts"} : BeginDelete(c, t)
  BY DEF DeletesInSteps, DeleteTermDeposit, DeleteNPFAccount
<1> QED BY <1>1, <1>2, QuietBeginDelete, QuietDeleteUnderneath, QuietDeleteItself

LEMMA Sorts ==
  ASSUME BooksInv, \A c \in Clients : Aside(request[c]), Next
  PROVE  \/ Quiet \/ AddFundOp \/ DeleteFundOp \/ Plan \/ Crash \/ NewMachine
         \/ \E c \in Clients : LegSteps(c)
         \/ \E p \in Portfolios : ExportAll(p) \/ ImportAll(p)
<1>1. \A c \in Clients : Adds(c) => Quiet \/ LegSteps(c)
  BY AddSorts
<1>2. \A c \in Clients : Moves(c) \/ DeletesInSteps(c) => Quiet
  BY MoveSorts, DeleteInStepsSorts
<1>3. Roots => Quiet \/ AddFundOp
  BY RootSorts
<1>4. Deletes => Quiet \/ DeleteFundOp
  BY DeleteSorts
<1> QED BY <1>1, <1>2, <1>3, <1>4 DEF Next

(* Legs of transfers. *)
LEMMA LegNames ==
  /\ \A i, j : Leg(i) = Leg(j) => i = j
  /\ \A i : Leg(i) # NoRef /\ Leg(i).to = "fund_ops" /\ Leg(i).id = i
  /\ \A r : r.table = "fund_ops" => RefTo(r) = Leg(r.id)
  /\ \A r, i : Names(r, Leg(i)) <=> r.table = "fund_ops" /\ r.id = i
BY DEF Leg, NoRef, RefTo, Names

LEMMA LegKinds ==
  ASSUME NEW q
  PROVE  /\ HalfLinked(q) => q.kind = "link" /\ ~Legless(q)
         /\ Legless(q) => LegsOf(q) = {} /\ \A rs : RequestLegs(q, rs)
         /\ q.kind = "link" => LegsOf(q) = {q.a, q.b}
         /\ q.kind = "second leg" => LegsOf(q) = {q.a}
BY DEF HalfLinked, Legless, LegsOf, RequestLegs

LEMMA RequestLegsFewer ==
  ASSUME NEW q, NEW rs, NEW rs2, RequestLegs(q, rs), \A r \in rs2 : r.table = "fund_ops" => r \in rs
  PROVE  RequestLegs(q, rs2)
<1>1. \A i : Loose(rs, i) => Loose(rs2, i)
  BY DEF Loose
<1> QED BY <1>1 DEF RequestLegs

(* Where a leg points, there is a leg. *)
LEMMA LegPointsAtLeg ==
  ASSUME NEW rs, NEW ts, Sound(rs, ts), NEW r \in rs, r.table = "fund_ops", r.ref # NoRef
  PROVE  \E other \in rs : other.table = "fund_ops" /\ Names(other, r.ref) /\ other.owner = r.owner
<1>1. HasKey(r.table) /\ Parent[r.table] = "fund_ops"
  BY LegTables
<1>2. PICK other \in rs : Names(other, r.ref) /\ other.owner = r.owner
  BY <1>1 DEF Sound, Closed
<1>3. r.ref.to = "fund_ops"
  BY <1>1 DEF Sound, Aims
<1> QED BY <1>2, <1>3 DEF Names

LEMMA LegsFewer ==
  ASSUME NEW rs, NEW rs2, NEW ts, Sound(rs, ts), Sound(rs2, ts), NEW rq, NEW rq2,
         Legs(rs, rq), \A r \in rs2 : r.table = "fund_ops" => r \in rs,
         \A c \in Clients : rq2[c] = rq[c] \/ (Legless(rq[c]) /\ Legless(rq2[c]))
  PROVE  Legs(rs2, rq2)
<1>1. ASSUME NEW r \in rs2, r.table = "fund_ops", r.ref # NoRef
      PROVE  \/ \E other \in rs2 : Names(other, r.ref) /\ other.ref = RefTo(r)
             \/ \E c \in Clients : HalfLinked(rq2[c]) /\ rq2[c].b = r.id
  <2>1. r \in rs
    BY <1>1
  <2>2. CASE \E other \in rs : Names(other, r.ref) /\ other.ref = RefTo(r)
    <3>1. PICK other \in rs : Names(other, r.ref) /\ other.ref = RefTo(r)
      BY <2>2
    <3>2. PICK still \in rs2 : still.table = "fund_ops" /\ Names(still, r.ref)
      BY <1>1, LegPointsAtLeg
    <3>3. still \in rs
      BY <3>2
    <3>4. RefTo(still) = RefTo(other)
      BY <3>1, <3>2, SameName DEF Names
    <3>5. still = other
      BY <3>3, <3>4 DEF Sound, Distinct
    <3> QED BY <3>1, <3>2, <3>5
  <2>3. CASE \E c \in Clients : HalfLinked(rq[c]) /\ rq[c].b = r.id
    BY <2>3, LegKinds
  <2> QED BY <1>1, <2>1, <2>2, <2>3 DEF Legs
<1>2. ASSUME NEW c \in Clients PROVE RequestLegs(rq2[c], rs2)
  <2>1. CASE rq2[c] = rq[c]
    BY <2>1, RequestLegsFewer DEF Legs
  <2>2. CASE Legless(rq2[c])
    BY <2>2, LegKinds
  <2> QED BY <2>1, <2>2
<1>3. ASSUME NEW c \in Clients, NEW d \in Clients, c # d PROVE LegsOf(rq2[c]) \cap LegsOf(rq2[d]) = {}
  BY <1>3, LegKinds DEF Legs
<1> QED BY <1>1, <1>2, <1>3 DEF Legs

(* A request goes on to another step. *)
LEMMA LegsRequest ==
  ASSUME NEW rs, NEW rq, NEW rq2, Legs(rs, rq), NEW c \in Clients,
         \A d \in Clients : d # c => rq2[d] = rq[d],
         RequestLegs(rq2[c], rs),
         \A d \in Clients : d # c => LegsOf(rq2[c]) \cap LegsOf(rq[d]) = {},
         \A r \in rs : HalfLinked(rq[c]) /\ r.table = "fund_ops" => r.id # rq[c].b
  PROVE  Legs(rs, rq2)
<1>1. ASSUME NEW r \in rs, r.table = "fund_ops", r.ref # NoRef
      PROVE  \/ \E other \in rs : Names(other, r.ref) /\ other.ref = RefTo(r)
             \/ \E d \in Clients : HalfLinked(rq2[d]) /\ rq2[d].b = r.id
  <2>1. CASE \E d \in Clients : HalfLinked(rq[d]) /\ rq[d].b = r.id
    <3>1. PICK d \in Clients : HalfLinked(rq[d]) /\ rq[d].b = r.id
      BY <2>1
    <3>2. d # c
      BY <1>1, <3>1
    <3> QED BY <3>1, <3>2
  <2> QED BY <1>1, <2>1 DEF Legs
<1>2. \A d \in Clients : RequestLegs(rq2[d], rs)
  BY DEF Legs
<1>3. ASSUME NEW d \in Clients, NEW e \in Clients, d # e PROVE LegsOf(rq2[d]) \cap LegsOf(rq2[e]) = {}
  <2>1. CASE d # c /\ e # c
    BY <1>3, <2>1 DEF Legs
  <2>2. CASE d = c
    BY <1>3, <2>2
  <2>3. CASE e = c
    BY <1>3, <2>3
  <2> QED BY <2>1, <2>2, <2>3
<1> QED BY <1>1, <1>2, <1>3 DEF Legs

(* A leg is new: nobody knows it, and it points at nobody. *)
LEMMA LegsAdded ==
  ASSUME NEW rs, NEW ts, Sound(rs, ts), NEW rq, Legs(rs, rq), NEW new,
         new.table = "fund_ops", new.ref = NoRef,
         \A r \in rs : r.table = "fund_ops" => r.id # new.id,
         \A c \in Clients : new.id \notin LegsOf(rq[c])
  PROVE  Legs(rs \cup {new}, rq) /\ Loose(rs \cup {new}, new.id)
<1> DEFINE rs2 == rs \cup {new}
<1>1. \A r \in rs2 : r \in rs \/ r = new
  OBVIOUS
<1>2. \A r \in rs : r \in rs2
  OBVIOUS
<1> HIDE DEF rs2
<1>3. \A i : Loose(rs, i) => Loose(rs2, i)
  BY <1>1, LegNames DEF Loose
<1>4. ASSUME NEW c \in Clients PROVE RequestLegs(rq[c], rs2)
  <2>1. RequestLegs(rq[c], rs)
    BY DEF Legs
  <2>2. HalfLinked(rq[c]) => new.id # rq[c].b /\ new.id # rq[c].a
    BY LegKinds
  <2> QED BY <1>1, <1>3, <2>1, <2>2, LegNames DEF RequestLegs
<1>5. \A r \in rs2 : r.table = "fund_ops" /\ r.ref # NoRef =>
        \/ \E other \in rs2 : Names(other, r.ref) /\ other.ref = RefTo(r)
        \/ \E c \in Clients : HalfLinked(rq[c]) /\ rq[c].b = r.id
  BY <1>1, <1>2 DEF Legs
<1>6. Legs(rs2, rq)
  BY <1>4, <1>5 DEF Legs
<1>7. ASSUME NEW r \in rs, r.table = "fund_ops" PROVE r.ref # Leg(new.id)
  <2>1. SUFFICES ASSUME r.ref = Leg(new.id) PROVE FALSE
    OBVIOUS
  <2>2. PICK other \in rs : other.table = "fund_ops" /\ Names(other, r.ref)
    BY <1>7, <2>1, LegNames, LegPointsAtLeg
  <2> QED BY <2>1, <2>2, LegNames
<1>8. Loose(rs2, new.id)
  BY <1>1, <1>7, LegNames DEF Loose
<1> QED BY <1>6, <1>8 DEF rs2

LEMMA LegsKnown ==
  ASSUME BooksInv, NEW c \in Clients, NEW i \in LegsOf(request[c])
  PROVE  "fund_ops" \in tables /\ Known(Leg(i), request[c].owner, rows, seq, tables)
<1>0. RequestOK(request[c], rows, seq, tables)
  BY RequestKept
<1>1. CASE request[c].kind = "second leg"
  <2>1. i = request[c].a
    BY <1>1, LegKinds
  <2>2. "fund_ops" \in tables
    BY <1>0, <1>1, Kinds
  <2>3. Known(Leg(request[c].a), request[c].owner, rows, seq, tables)
    BY <1>0, <1>1, Kinds
  <2> QED BY <2>1, <2>2, <2>3
<1>2. CASE request[c].kind = "link"
  <2>1. i = request[c].a \/ i = request[c].b
    BY <1>2, LegKinds
  <2>2. "fund_ops" \in tables
    BY <1>0, <1>2, Kinds
  <2>3. Known(Leg(request[c].a), request[c].owner, rows, seq, tables)
    BY <1>0, <1>2, Kinds
  <2>4. Known(Leg(request[c].b), request[c].owner, rows, seq, tables)
    BY <1>0, <1>2, Kinds
  <2> QED BY <2>1, <2>2, <2>3, <2>4
<1>3. CASE request[c].kind \notin {"second leg", "link"}
  BY <1>3, LegKinds DEF Legless
<1> QED BY <1>1, <1>2, <1>3

LEMMA NoSuchNumber ==
  ASSUME NEW n \in Nat, NEW i, i <= n, i \in Nat PROVE i # n + 1
OBVIOUS

LEMMA LegInserted ==
  ASSUME BooksInv, Legs(rows, request), "fund_ops" \in tables, NEW p,
         NEW new, new = NewRow("fund_ops", p, NoRef, ""), Insert(new)
  PROVE  /\ Legs(rows', request) /\ Loose(rows', new.id)
         /\ \A c \in Clients : new.id \notin LegsOf(request[c])
<1>1. new.table = "fund_ops" /\ new.ref = NoRef
  BY Zenon, LegTables DEF NewRow
<1>2. new.id = seq["fund_ops"] + 1
  BY ONLY new = NewRow("fund_ops", p, NoRef, "") DEF NewRow
<1>3. rows' = rows \cup {new}
  BY DEF Insert
<1>4. seq["fund_ops"] \in Nat /\ Sound(rows, tables)
  BY DEF BooksInv, RowsOK
<1>5. ASSUME NEW r \in rows, r.table = "fund_ops" PROVE r.id # new.id
  <2>1. r.id \in Nat /\ r.id <= seq["fund_ops"]
    BY <1>5, RowTypes DEF BooksInv, RowsOK, Sound
  <2> QED BY ONLY <1>2, <1>4, <2>1, NoSuchNumber
<1>6. ASSUME NEW c \in Clients, new.id \in LegsOf(request[c]) PROVE FALSE
  <2>1. new.id \in Nat /\ new.id <= seq["fund_ops"]
    BY <1>6, LegsKnown DEF Known, Refs, Leg
  <2> QED BY ONLY <1>2, <1>4, <2>1, NoSuchNumber
<1>7. Legs(rows \cup {new}, request) /\ Loose(rows \cup {new}, new.id)
  BY <1>1, <1>4, <1>5, <1>6, LegsAdded
<1> QED BY <1>3, <1>6, <1>7

LEMMA FundOpLegs ==
  ASSUME BooksInv, Legs(rows, request), AddFundOp PROVE Legs(rows', request')
<1>1. PICK p : Insert(NewRow("fund_ops", p, NoRef, ""))
  BY DEF AddFundOp, AddRoot
<1>2. request' = request /\ "fund_ops" \in tables
  BY DEF AddFundOp, AddRoot
<1> QED BY <1>1, <1>2, LegInserted

LEMMA FirstLegLegs ==
  ASSUME BooksInv, Legs(rows, request), NEW c \in Clients, AddFirstLeg(c)
  PROVE  Legs(rows', request') /\ \A d \in Clients : Aside(request[d]) => Aside(request'[d])
<1>1. PICK p \in Portfolios :
        LET op == NewRow("fund_ops", p, NoRef, "")
        IN  /\ Insert(op)
            /\ request' = [request EXCEPT ![c] =
                 [kind |-> "second leg", owner |-> p, a |-> op.id]]
  BY DEF AddFirstLeg
<1>2. request[c] = Idle /\ "fund_ops" \in tables /\ DOMAIN request = Clients
  BY DEF AddFirstLeg, BooksInv
<1> DEFINE op == NewRow("fund_ops", p, NoRef, "")
           q == [kind |-> "second leg", owner |-> p, a |-> op.id]
<1>3. Insert(op) /\ request' = [request EXCEPT ![c] = q]
  BY <1>1
<1>4. q.kind = "second leg" /\ q.a = op.id
  OBVIOUS
<1>5. op = NewRow("fund_ops", p, NoRef, "")
  OBVIOUS
<1> HIDE DEF op, q
<1>6. /\ Legs(rows', request) /\ Loose(rows', op.id)
      /\ \A d \in Clients : op.id \notin LegsOf(request[d])
  BY <1>2, <1>3, <1>5, LegInserted
<1>7. request'[c] = q /\ \A d \in Clients : d # c => request'[d] = request[d]
  BY <1>2, <1>3, RequestSet
<1>8. RequestLegs(q, rows') /\ Aside(q) /\ LegsOf(q) = {op.id} /\ ~HalfLinked(request[c])
  BY <1>2, <1>4, <1>6, IdleAside, LegKinds DEF RequestLegs, Aside, HalfLinked
<1> QED BY <1>6, <1>7, <1>8, LegsRequest

LEMMA SecondLegLegs ==
  ASSUME BooksInv, Legs(rows, request), NEW c \in Clients, AddSecondLeg(c)
  PROVE  Legs(rows', request') /\ \A d \in Clients : Aside(request[d]) => Aside(request'[d])
<1> DEFINE r == request[c]
           op == NewRow("fund_ops", r.owner, NoRef, "")
           q == [kind |-> "link", owner |-> r.owner, a |-> r.a, b |-> op.id, again |-> TRUE]
<1>1. r.kind = "second leg" /\ Insert(op) /\ request' = [request EXCEPT ![c] = q]
  BY DEF AddSecondLeg
<1>2. q.kind = "link" /\ q.a = r.a /\ q.b = op.id /\ q.again = TRUE
  OBVIOUS
<1>3. op = NewRow("fund_ops", r.owner, NoRef, "") /\ DOMAIN request = Clients
  BY DEF BooksInv
<1> HIDE DEF op, q
<1>4. LegsOf(r) = {r.a}
  BY <1>1, LegKinds
<1>5. "fund_ops" \in tables
  BY <1>4, LegsKnown
<1>6. /\ Legs(rows', request) /\ Loose(rows', op.id)
      /\ \A d \in Clients : op.id \notin LegsOf(request[d])
  BY <1>1, <1>3, <1>5, LegInserted
<1>7. request'[c] = q /\ \A d \in Clients : d # c => request'[d] = request[d]
  BY <1>1, <1>3, RequestSet
<1>8. Loose(rows', r.a) /\ r.a # op.id
  BY <1>1, <1>4, <1>6 DEF Legs, RequestLegs
<1>9. RequestLegs(q, rows') /\ Aside(q) /\ LegsOf(q) = {r.a, op.id} /\ ~HalfLinked(r)
  BY <1>1, <1>2, <1>6, <1>8, LegKinds DEF RequestLegs, Aside, HalfLinked
<1>10. \A d \in Clients : d # c => LegsOf(q) \cap LegsOf(request[d]) = {}
  BY <1>4, <1>6, <1>9 DEF Legs
<1> HIDE DEF r
<1>11. Legs(rows', request')
  <2>1. ~HalfLinked(request[c])
    BY <1>9 DEF r
  <2>2. RequestLegs(request'[c], rows')
    BY <1>7, <1>9
  <2>3. \A d \in Clients : d # c => LegsOf(request'[c]) \cap LegsOf(request[d]) = {}
    BY <1>7, <1>10
  <2> QED BY <1>6, <1>7, <2>1, <2>2, <2>3, LegsRequest
<1> QED BY <1>7, <1>9, <1>11

(* Row x is pointed at leg b. *)
Pointed(rs, x, b, rs2, y) ==
  /\ x \in rs /\ x.table = "fund_ops"
  /\ y.table = "fund_ops" /\ y.id = x.id /\ y.ref = Leg(b) /\ RefTo(y) = RefTo(x)
  /\ y \in rs2
  /\ \A r \in rs2 : r = y \/ (r \in rs /\ r # x)
  /\ \A r \in rs : r = x \/ r \in rs2

LEMMA PointedIt ==
  ASSUME NEW rs, rs \subseteq Row, NEW x \in rs, x.table = "fund_ops", NEW b
  PROVE  Pointed(rs, x, b, SetRef(rs, x, Leg(b)), [x EXCEPT !.ref = Leg(b)])
<1> DEFINE y == [x EXCEPT !.ref = Leg(b)]
<1>1. x \in Row
  OBVIOUS
<1>2. y.table = x.table /\ y.id = x.id /\ y.ref = Leg(b)
  BY <1>1 DEF Row
<1>3. RefTo(y) = RefTo(x)
  BY <1>2, SameName
<1>4. SetRef(rs, x, Leg(b)) = (rs \ {x}) \cup {y}
  BY DEF SetRef
<1> HIDE DEF y
<1>5. Pointed(rs, x, b, SetRef(rs, x, Leg(b)), y)
  BY <1>2, <1>3, <1>4 DEF Pointed
<1> QED BY <1>5 DEF y

(* A transfer of other legs does not notice. *)
LEMMA OtherTransfer ==
  ASSUME NEW rs, NEW x, NEW b, NEW rs2, NEW y, Pointed(rs, x, b, rs2, y),
         NEW q, RequestLegs(q, rs), x.id \notin LegsOf(q), b \notin LegsOf(q)
  PROVE  RequestLegs(q, rs2)
<1>1. \A i : i # x.id /\ i # b /\ Loose(rs, i) => Loose(rs2, i)
  BY LegNames DEF Loose, Pointed
<1>2. q.kind = "second leg" => q.a # x.id /\ q.a # b
  BY LegKinds
<1>3. q.kind = "link" => q.a # x.id /\ q.a # b /\ q.b # x.id /\ q.b # b
  BY LegKinds
<1>4. ASSUME HalfLinked(q), NEW r \in rs2, r.table = "fund_ops"
      PROVE  /\ r.id = q.a => r.ref = NoRef
             /\ r.id = q.b => r.ref = Leg(q.a)
             /\ r.ref = Leg(q.a) => r.id = q.b
             /\ r.ref # Leg(q.b)
  <2>1. q.kind = "link"
    BY <1>4 DEF HalfLinked
  <2>2. CASE r = y
    BY <2>1, <2>2, <1>3, LegNames DEF Pointed
  <2>3. CASE r \in rs
    BY <1>4, <2>3 DEF RequestLegs
  <2> QED BY <1>4, <2>2, <2>3 DEF Pointed
<1> QED BY <1>1, <1>2, <1>3, <1>4 DEF RequestLegs

LEMMA StillApart ==
  ASSUME NEW rs, NEW rq, Legs(rs, rq), NEW c \in Clients,
         NEW rq2, \A d \in Clients : d # c => rq2[d] = rq[d],
         LegsOf(rq2[c]) \subseteq LegsOf(rq[c])
  PROVE  \A d, e \in Clients : d # e => LegsOf(rq2[d]) \cap LegsOf(rq2[e]) = {}
<1> TAKE d, e \in Clients
<1>1. HAVE d # e
<1>2. LegsOf(rq[d]) \cap LegsOf(rq[e]) = {}
  BY <1>1 DEF Legs
<1>3. LegsOf(rq2[d]) \subseteq LegsOf(rq[d]) /\ LegsOf(rq2[e]) \subseteq LegsOf(rq[e])
  OBVIOUS
<1> HIDE DEF LegsOf
<1> QED BY <1>2, <1>3

(* One leg of the transfer of client c is pointed at the other.            *)
Linking(c, rs, rq, x, y, rs2, rq2) ==
  /\ c \in Clients /\ Distinct(rs) /\ Legs(rs, rq)
  /\ rq[c].kind = "link" /\ Pointed(rs, x, rq[c].b, rs2, y) /\ x.id = rq[c].a
  /\ \A d \in Clients : d # c => rq2[d] = rq[d]
LinkingFirst(c, rs, rq, x, y, rs2, rq2) ==
  /\ Linking(c, rs, rq, x, y, rs2, rq2) /\ rq[c].again = TRUE
  /\ rq2[c].kind = "link" /\ rq2[c].a = rq[c].b /\ rq2[c].b = rq[c].a /\ rq2[c].again = FALSE
LinkingSecond(c, rs, rq, x, y, rs2, rq2) ==
  /\ Linking(c, rs, rq, x, y, rs2, rq2) /\ rq[c].again = FALSE
  /\ Resolves(rs, Leg(rq[c].b)) /\ rq2[c] = Idle

(* The first of the two references.                                        *)
LEMMA LinkedOnce ==
  ASSUME NEW c, NEW rs, NEW rq, NEW x, NEW y, NEW rs2, NEW rq2,
         LinkingFirst(c, rs, rq, x, y, rs2, rq2)
  PROVE  Legs(rs2, rq2)
<1>0. /\ c \in Clients /\ Distinct(rs) /\ Legs(rs, rq)
      /\ rq[c].kind = "link" /\ Pointed(rs, x, rq[c].b, rs2, y) /\ x.id = rq[c].a
      /\ \A d \in Clients : d # c => rq2[d] = rq[d]
      /\ rq2[c].kind = "link" /\ rq2[c].a = rq[c].b /\ rq2[c].b = rq[c].a
      /\ rq2[c].again = FALSE /\ rq[c].again = TRUE
  BY DEF Linking, LinkingFirst
<1> USE <1>0
<1> DEFINE a == rq[c].a
           b == rq[c].b
<1>1. a # b /\ Loose(rs, a) /\ Loose(rs, b)
  BY DEF Legs, RequestLegs
<1>2. HalfLinked(rq2[c]) /\ ~HalfLinked(rq[c]) /\ LegsOf(rq2[c]) = LegsOf(rq[c])
  <2>1. HalfLinked(rq2[c]) /\ ~HalfLinked(rq[c])
    BY DEF HalfLinked
  <2>2. LegsOf(rq[c]) = {a, b} /\ LegsOf(rq2[c]) = {b, a}
    BY LegKinds
  <2> QED BY <2>1, <2>2
<1>3. x.ref = NoRef
  BY <1>1 DEF Loose, Pointed
<1>4. ASSUME NEW r \in rs2, r.table = "fund_ops", r.ref # NoRef
      PROVE  \/ \E other \in rs2 : Names(other, r.ref) /\ other.ref = RefTo(r)
             \/ \E d \in Clients : HalfLinked(rq2[d]) /\ rq2[d].b = r.id
  <2>1. CASE r = y
    BY <1>2, <2>1 DEF Pointed
  <2>2. CASE r \in rs
    <3>1. CASE \E other \in rs : Names(other, r.ref) /\ other.ref = RefTo(r)
      <4>1. PICK other \in rs : Names(other, r.ref) /\ other.ref = RefTo(r)
        BY <3>1
      <4>2. other # x
        BY <1>3, <1>4, <4>1, LegNames
      <4> QED BY <4>1, <4>2 DEF Pointed
    <3>2. CASE \E d \in Clients : HalfLinked(rq[d]) /\ rq[d].b = r.id
      BY <1>2, <3>2
    <3> QED BY <1>4, <2>2, <3>1, <3>2 DEF Legs
  <2> QED BY <1>4, <2>1, <2>2 DEF Pointed
<1>5. RequestLegs(rq2[c], rs2)
  <2>1. ASSUME NEW r \in rs2, r.table = "fund_ops"
        PROVE  /\ r.id = b => r.ref = NoRef
               /\ r.id = a => r.ref = Leg(b)
               /\ r.ref = Leg(b) => r.id = a
               /\ r.ref # Leg(a)
    <3>1. CASE r = y
      BY <1>1, <3>1, LegNames DEF Pointed
    <3>2. CASE r \in rs /\ r # x
      <4>1. r.id # a
        BY <2>1, <3>2, SameName DEF Distinct, Pointed
      <4> QED BY <1>1, <2>1, <3>2, <4>1 DEF Loose
    <3> QED BY <3>1, <3>2 DEF Pointed
  <2> QED BY <1>1, <1>2, <2>1 DEF RequestLegs
<1>6. ASSUME NEW d \in Clients, d # c PROVE RequestLegs(rq2[d], rs2)
  <2>1. LegsOf(rq[c]) \cap LegsOf(rq[d]) = {} /\ RequestLegs(rq[d], rs) /\ LegsOf(rq[c]) = {a, b}
    BY <1>6, LegKinds DEF Legs
  <2>2. x.id \notin LegsOf(rq[d]) /\ b \notin LegsOf(rq[d]) /\ rq2[d] = rq[d]
    BY <1>6, <2>1
  <2>3. RequestLegs(rq[d], rs2)
    BY <2>1, <2>2, OtherTransfer
  <2> QED BY <2>2, <2>3
<1>7. \A d, e \in Clients : d # e => LegsOf(rq2[d]) \cap LegsOf(rq2[e]) = {}
  BY <1>2, StillApart
<1> QED BY <1>4, <1>5, <1>6, <1>7 DEF Legs

(* The second one: now they point at each other.                           *)
LEMMA LinkedTwice ==
  ASSUME NEW c, NEW rs, NEW rq, NEW x, NEW y, NEW rs2, NEW rq2,
         LinkingSecond(c, rs, rq, x, y, rs2, rq2)
  PROVE  Legs(rs2, rq2)
<1>0. /\ c \in Clients /\ Distinct(rs) /\ Legs(rs, rq)
      /\ rq[c].kind = "link" /\ Pointed(rs, x, rq[c].b, rs2, y) /\ x.id = rq[c].a
      /\ \A d \in Clients : d # c => rq2[d] = rq[d]
      /\ Resolves(rs, Leg(rq[c].b)) /\ rq2[c] = Idle /\ rq[c].again = FALSE
  BY DEF Linking, LinkingSecond
<1> USE <1>0
<1> DEFINE a == rq[c].a
           b == rq[c].b
<1>1. HalfLinked(rq[c]) /\ a # b /\ RequestLegs(rq[c], rs)
  BY DEF Legs, RequestLegs, HalfLinked
<1>2. Legless(rq2[c]) /\ LegsOf(rq2[c]) = {} /\ RequestLegs(rq2[c], rs2)
  BY IdleAside, LegKinds
<1>3. PICK z \in rs : z.table = "fund_ops" /\ z.id = b
  BY LegNames DEF Resolves
<1>4. x.ref = NoRef /\ z.ref = Leg(a) /\ z # x /\ z \in rs2
  BY <1>1, <1>3 DEF RequestLegs, Pointed
<1>5. RefTo(y) = Leg(a) /\ RefTo(z) = Leg(b)
  BY <1>3, LegNames DEF Pointed
<1>6. ASSUME NEW r \in rs2, r.table = "fund_ops", r.ref # NoRef
      PROVE  \/ \E other \in rs2 : Names(other, r.ref) /\ other.ref = RefTo(r)
             \/ \E d \in Clients : HalfLinked(rq2[d]) /\ rq2[d].b = r.id
  <2>1. CASE r = y
    BY <1>3, <1>4, <1>5, <2>1, LegNames DEF Pointed
  <2>2. CASE r = z
    <3>1. y \in rs2 /\ Names(y, z.ref) /\ y.ref = RefTo(z)
      BY <1>4, <1>5, LegNames DEF Pointed
    <3> QED BY <2>2, <3>1
  <2>3. CASE r \in rs /\ r # z
    <3>1. r.id # b
      BY <1>3, <1>6, <2>3, SameName DEF Distinct
    <3>2. CASE \E other \in rs : Names(other, r.ref) /\ other.ref = RefTo(r)
      <4>1. PICK other \in rs : Names(other, r.ref) /\ other.ref = RefTo(r)
        BY <3>2
      <4>2. other # x
        BY <1>4, <1>6, <4>1, LegNames
      <4> QED BY <4>1, <4>2 DEF Pointed
    <3>3. CASE \E d \in Clients : HalfLinked(rq[d]) /\ rq[d].b = r.id
      <4>1. PICK d \in Clients : HalfLinked(rq[d]) /\ rq[d].b = r.id
        BY <3>3
      <4>2. d # c
        BY <3>1, <4>1
      <4> QED BY <4>1, <4>2
    <3> QED BY <1>6, <2>3, <3>2, <3>3 DEF Legs
  <2> QED BY <1>6, <2>1, <2>2, <2>3 DEF Pointed
<1>7. ASSUME NEW d \in Clients, d # c PROVE RequestLegs(rq2[d], rs2)
  <2>1. LegsOf(rq[c]) \cap LegsOf(rq[d]) = {} /\ RequestLegs(rq[d], rs) /\ LegsOf(rq[c]) = {a, b}
    BY <1>7, LegKinds DEF Legs
  <2>2. x.id \notin LegsOf(rq[d]) /\ b \notin LegsOf(rq[d]) /\ rq2[d] = rq[d]
    BY <1>7, <2>1
  <2>3. RequestLegs(rq[d], rs2)
    BY <2>1, <2>2, OtherTransfer
  <2> QED BY <2>2, <2>3
<1>8. \A d, e \in Clients : d # e => LegsOf(rq2[d]) \cap LegsOf(rq2[e]) = {}
  BY <1>2, StillApart
<1> QED BY <1>2, <1>6, <1>7, <1>8 DEF Legs

(* A transfer that is not linked: a leg is gone, and its request ends.     *)
LEMMA LinkGivenUp ==
  ASSUME BooksInv, Legs(rows, request), NEW c \in Clients, request[c].kind = "link",
         \/ {r \in Own("fund_ops", request[c].owner) : r.id = request[c].a} = {}
         \/ ~Resolves(rows, Leg(request[c].b)),
         NEW rq2, \A d \in Clients : d # c => rq2[d] = request[d], rq2[c] = Idle
  PROVE  Legs(rows, rq2)
<1> DEFINE q == request[c]
<1>1. Legless(rq2[c]) /\ LegsOf(rq2[c]) = {} /\ RequestLegs(rq2[c], rows)
  BY IdleAside, LegKinds
<1>2. RequestLegs(q, rows) /\ Sound(rows, tables) /\ RequestOK(q, rows, seq, tables)
  BY DEF Legs, BooksInv, RowsOK
<1>3. ASSUME NEW r \in rows, HalfLinked(q), r.table = "fund_ops", r.id = q.b PROVE FALSE
  <2>1. r.ref = Leg(q.a)
    BY <1>2, <1>3 DEF RequestLegs
  <2>2. PICK other \in rows : /\ other.table = "fund_ops" /\ Names(other, r.ref)
                              /\ other.owner = r.owner
    BY <1>2, <1>3, <2>1, LegNames, LegPointsAtLeg
  <2>3. Known(Leg(q.b), q.owner, rows, seq, tables)
    BY <1>2, Kinds
  <2>4. r.owner = q.owner /\ Resolves(rows, Leg(q.b))
    BY <1>3, <2>3, LegNames DEF Known, Resolves
  <2>5. other \in {x \in Own("fund_ops", q.owner) : x.id = q.a}
    BY <2>1, <2>2, <2>4, LegNames DEF Own
  <2> QED BY <2>4, <2>5
<1> QED BY <1>1, <1>3, LegsRequest

LEMMA LinkLegs ==
  ASSUME BooksInv, Legs(rows, request), NEW c \in Clients, LinkFundOps(c)
  PROVE  Legs(rows', request') /\ \A d \in Clients : Aside(request[d]) => Aside(request'[d])
<1> DEFINE q == request[c]
           leg == {r \in Own("fund_ops", q.owner) : r.id = q.a}
           other == [to |-> "fund_ops", id |-> q.b]
           done == leg # {} /\ Resolves(rows, other)
           row == CHOOSE r \in leg : TRUE
           q2 == [q EXCEPT !.a = q.b, !.b = q.a, !.again = FALSE]
           next == IF done /\ q.again THEN q2 ELSE Idle
<1>1. /\ q.kind = "link" /\ rows' = IF done THEN SetRef(rows, row, other) ELSE rows
      /\ request' = [request EXCEPT ![c] = next]
  BY DEF LinkFundOps
<1>2. q \in [kind : {"link"}, owner : Portfolios, a : Nat, b : Nat, again : BOOLEAN]
  BY <1>1, RequestKept, Kinds
<1>3. other = Leg(q.b)
  BY DEF Leg
<1>4. rows \subseteq Row /\ Distinct(rows) /\ DOMAIN request = Clients
  BY DEF BooksInv, RowsOK, Sound
<1>5. q2.kind = "link" /\ q2.a = q.b /\ q2.b = q.a /\ q2.again = FALSE
  BY ONLY <1>2
<1>6. q.again \in BOOLEAN
  BY <1>2
<1>7. done => row \in rows /\ row.table = "fund_ops" /\ row.id = q.a
  BY DEF Own
<1> HIDE DEF q2, row, other
<1>8. next = q2 \/ next = Idle
  OBVIOUS
<1>9. done /\ q.again = TRUE => next = q2
  OBVIOUS
<1>10. ~(done /\ q.again = TRUE) => next = Idle
  BY <1>6
<1> HIDE DEF next
<1>11. request'[c] = next /\ \A d \in Clients : d # c => request'[d] = request[d]
  BY <1>1, <1>4, RequestSet
<1>12. Aside(q2)
  BY <1>5 DEF Aside
<1>13. \A d \in Clients : Aside(request[d]) => Aside(request'[d])
  BY <1>8, <1>11, <1>12, IdleAside
<1>14. CASE done
  <2>1. rows' = SetRef(rows, row, Leg(q.b))
    BY <1>1, <1>3, <1>14
  <2> DEFINE linked == [row EXCEPT !.ref = Leg(q.b)]
  <2>2. Pointed(rows, row, q.b, rows', linked)
    BY <1>4, <1>7, <1>14, <2>1, PointedIt
  <2> HIDE DEF linked, done
  <2>3. ASSUME q.again = TRUE PROVE Legs(rows', request')
    <3>1. /\ request'[c].kind = "link" /\ request'[c].a = request[c].b
          /\ request'[c].b = request[c].a /\ request'[c].again = FALSE
      BY <1>5, <1>9, <1>11, <1>14, <2>3
    <3>2. LinkingFirst(c, rows, request, row, linked, rows', request')
      BY <1>1, <1>4, <1>7, <1>11, <1>14, <2>2, <2>3, <3>1 DEF Linking, LinkingFirst
    <3> QED BY ONLY <3>2, LinkedOnce
  <2>4. ASSUME q.again = FALSE PROVE Legs(rows', request')
    <3>1. Resolves(rows, Leg(q.b))
      BY <1>3, <1>14 DEF done
    <3>2. LinkingSecond(c, rows, request, row, linked, rows', request')
      BY <1>1, <1>4, <1>7, <1>10, <1>11, <1>14, <2>2, <2>4, <3>1 DEF Linking, LinkingSecond
    <3> QED BY ONLY <3>2, LinkedTwice
  <2>5. Legs(rows', request')
    BY <1>6, <2>3, <2>4
  <2> QED BY <1>13, <2>5
<1>15. CASE ~done
  <2>1. rows' = rows /\ request'[c] = Idle
    BY <1>1, <1>10, <1>11, <1>15
  <2>2. leg = {} \/ ~Resolves(rows, Leg(q.b))
    BY <1>3, <1>15
  <2> HIDE DEF done
  <2>3. Legs(rows, request')
    BY <1>1, <1>11, <2>1, <2>2, LinkGivenUp
  <2> QED BY <1>13, <2>1, <2>3
<1> QED BY <1>14, <1>15

LEMMA LegStepLegs ==
  ASSUME BooksInv, Legs(rows, request), NEW c \in Clients, LegSteps(c)
  PROVE  Legs(rows', request')
BY FirstLegLegs, SecondLegLegs, LinkLegs DEF LegSteps

LEMMA DeletedFewer ==
  ASSUME NEW rs, NEW gone, gone \subseteq rs
  PROVE  Deleted(rs, gone) = rs \/ \A r \in Deleted(rs, gone) : r \in rs /\ r \notin gone
BY DEF Deleted

(* Both legs go, or neither.                                               *)
LEMMA DeleteFundOpLeaves == ASSUME DeleteFundOp PROVE \A r \in rows' : r \in rows
<1>1. PICK op \in rows :
        LET both == {r \in Own("fund_ops", op.owner) : r = op \/ Names(r, op.ref)}
            cleared == {[r EXCEPT !.ref = NoRef] : r \in both}
            after == Deleted((rows \ both) \cup cleared, cleared)
        IN  op.table = "fund_ops" /\ rows' = IF cleared \cap after = {} THEN after ELSE rows
  BY DEF DeleteFundOp
<1> DEFINE both == {r \in Own("fund_ops", op.owner) : r = op \/ Names(r, op.ref)}
           x(r) == [r EXCEPT !.ref = NoRef]
           cleared == {x(r) : r \in both}
           mid == (rows \ both) \cup cleared
           after == Deleted(mid, cleared)
<1>2. op.table = "fund_ops" /\ rows' = IF cleared \cap after = {} THEN after ELSE rows
  BY <1>1
<1>3. op \in both /\ x(op) \in cleared
  BY <1>2 DEF Own
<1>4. after = Deleted(mid, cleared) /\ cleared \subseteq mid /\ \A r \in mid : r \in rows \/ r \in cleared
  <2> HIDE DEF both, x
  <2> QED OBVIOUS
<1> HIDE DEF both, cleared, mid, after, x
<1>5. CASE cleared \cap after = {}
  <2>1. after # mid
    BY <1>3, <1>4, <1>5
  <2>2. \A r \in after : r \in mid /\ r \notin cleared
    BY <1>4, <2>1, DeletedFewer
  <2> QED BY <1>2, <1>4, <1>5, <2>2
<1>6. CASE cleared \cap after # {}
  BY <1>2, <1>6
<1> QED BY <1>5, <1>6

(* The journal of the plan. *)
Lines(rs, p) == {r \in rs : r.table = "plan_flow_revisions" /\ r.owner = p}
LastLine(rs, p, r) == r \in Lines(rs, p) /\ \A s \in Lines(rs, p) : s.ref = r.ref => s.label <= r.label

LEMMA PlanIs ==
  ASSUME NEW rs, NEW p, NEW ref
  PROVE  ref \in PlanAsOf(rs, p) <=> \E r : LastLine(rs, p, r) /\ r.op # "delete" /\ r.ref = ref
<1>1. PlanAsOf(rs, p) =
        {r.ref : r \in {s \in {u \in Lines(rs, p) : \A v \in Lines(rs, p) :
                                  v.ref = u.ref => v.label <= u.label} : s.op # "delete"}}
  BY DEF PlanAsOf, Lines
<1> QED BY <1>1 DEF LastLine

LEMMA PlanDepends ==
  ASSUME NEW rs, NEW rs2, NEW p, Lines(rs2, p) = Lines(rs, p), Flows(rs2, p) = Flows(rs, p)
  PROVE  PlanAsOf(rs2, p) = PlanAsOf(rs, p) /\ FlowRefs(rs2, p) = FlowRefs(rs, p)
<1>1. \A r : LastLine(rs2, p, r) <=> LastLine(rs, p, r)
  BY DEF LastLine
<1>2. PlanAsOf(rs2, p) = PlanAsOf(rs, p)
  <2>1. \A ref : ref \in PlanAsOf(rs2, p) => ref \in PlanAsOf(rs, p)
    BY <1>1, PlanIs
  <2>2. \A ref : ref \in PlanAsOf(rs, p) => ref \in PlanAsOf(rs2, p)
    BY <1>1, PlanIs
  <2> QED BY <2>1, <2>2
<1> QED BY <1>2 DEF FlowRefs

LEMMA PlanOfOthers ==
  ASSUME NEW rs, NEW rs2, NEW o, Others(rs, o) = Others(rs2, o), NEW p, p # o
  PROVE  PlanAsOf(rs2, p) = PlanAsOf(rs, p) /\ FlowRefs(rs2, p) = FlowRefs(rs, p)
<1>1. \A r : r.owner = p => (r \in rs <=> r \in rs2)
  BY DEF Others
<1>2. Lines(rs2, p) = Lines(rs, p) /\ Flows(rs2, p) = Flows(rs, p)
  BY <1>1 DEF Lines, Flows
<1> QED BY <1>2, PlanDepends

LEMMA LaterNumbers ==
  ASSUME NEW ts, NEW sq \in [ts -> Nat], NEW sq2 \in [ts -> Nat], \A t \in ts : sq2[t] >= sq[t],
         NEW i \in Nat, NEW t \in ts, i <= sq[t]
  PROVE  i <= sq2[t]
<1>1. sq[t] \in Nat /\ sq2[t] \in Nat /\ sq2[t] >= sq[t]
  OBVIOUS
<1> QED BY <1>1

LEMMA ToldLater ==
  ASSUME NEW rs, rs \subseteq Row, NEW ts, NEW sq \in [ts -> Nat], NEW sq2 \in [ts -> Nat],
         \A t \in ts : sq2[t] >= sq[t], Told(rs, sq, ts)
  PROVE  Told(rs, sq2, ts)
<1>1. ASSUME NEW r \in rs, r.table = "plan_flow_revisions" PROVE r.ref.id <= sq2["plan_flows"]
  <2>1. r.ref \in Refs
    BY RowTypes
  <2>2. r.ref.id \in Nat
    BY <2>1 DEF Refs
  <2>3. "plan_flows" \in ts /\ r.ref.id <= sq["plan_flows"]
    BY <1>1 DEF Told
  <2> QED BY <2>2, <2>3, LaterNumbers
<1> QED BY <1>1 DEF Told

PlanLeftAlone(rs, rs2) ==
  \A r : r.table \in {"plan_flows", "plan_flow_revisions"} => (r \in rs <=> r \in rs2)

LEMMA ToldStays ==
  ASSUME NEW rs, NEW rs2, NEW sq, NEW ts, Told(rs, sq, ts), PlanLeftAlone(rs, rs2)
  PROVE  Told(rs2, sq, ts)
<1>1. \A r : r.table = "plan_flows" \/ r.table = "plan_flow_revisions" => (r \in rs <=> r \in rs2)
  BY DEF PlanLeftAlone
<1>2. \A p : Lines(rs2, p) = Lines(rs, p) /\ Flows(rs2, p) = Flows(rs, p)
  BY <1>1 DEF Lines, Flows
<1>3. \A p : PlanAsOf(rs2, p) = PlanAsOf(rs, p) /\ FlowRefs(rs2, p) = FlowRefs(rs, p)
  BY <1>2, PlanDepends
<1> QED BY <1>1, <1>3 DEF Told

(* A change of a source of income, and its line in the journal.            *)
LEMMA LineWritten ==
  ASSUME NEW rs, NEW n \in Nat, \A r \in rs : r.label \in Nat /\ r.label <= n,
         NEW p, PlanAsOf(rs, p) = FlowRefs(rs, p),
         NEW rev, rev.table = "plan_flow_revisions", rev.owner = p, rev.label \in Nat, rev.label > n,
         NEW rs2, Lines(rs2, p) = Lines(rs, p) \cup {rev},
         rev.op # "delete" => FlowRefs(rs2, p) = FlowRefs(rs, p) \cup {rev.ref},
         rev.op = "delete" => FlowRefs(rs2, p) = FlowRefs(rs, p) \ {rev.ref}
  PROVE  PlanAsOf(rs2, p) = FlowRefs(rs2, p)
<1>1. \A r \in Lines(rs, p) : r.label \in Nat /\ r.label <= n
  BY DEF Lines
<1>2. \A r \in Lines(rs, p) : r.label <= rev.label /\ ~ (rev.label <= r.label)
  BY <1>1
<1>3. ASSUME NEW r PROVE LastLine(rs2, p, r) <=> r = rev \/ (LastLine(rs, p, r) /\ r.ref # rev.ref)
  <2>1. ASSUME LastLine(rs2, p, r), r # rev PROVE LastLine(rs, p, r) /\ r.ref # rev.ref
    BY <1>2, <2>1 DEF LastLine
  <2>2. LastLine(rs2, p, rev)
    BY <1>2 DEF LastLine
  <2>3. ASSUME LastLine(rs, p, r), r.ref # rev.ref PROVE LastLine(rs2, p, r)
    BY <2>3 DEF LastLine
  <2> QED BY <2>1, <2>2, <2>3
<1>4. ASSUME NEW ref
      PROVE  ref \in PlanAsOf(rs2, p) <=>
               \/ ref = rev.ref /\ rev.op # "delete"
               \/ ref # rev.ref /\ ref \in PlanAsOf(rs, p)
  BY <1>3, PlanIs
<1>5. ASSUME NEW ref PROVE ref \in PlanAsOf(rs2, p) <=> ref \in FlowRefs(rs2, p)
  BY <1>4
<1>6. \A ref : ref \in PlanAsOf(rs2, p) => ref \in FlowRefs(rs2, p)
  BY <1>5
<1>7. \A ref : ref \in FlowRefs(rs2, p) => ref \in PlanAsOf(rs2, p)
  BY <1>5
<1> QED BY <1>6, <1>7

LEMMA LineIs ==
  ASSUME NEW flow, NEW id, NEW op, NEW label
  PROVE  /\ Line(flow, id, op, label).table = "plan_flow_revisions"
         /\ Line(flow, id, op, label).owner = flow.owner
         /\ Line(flow, id, op, label).ref = RefTo(flow) /\ Line(flow, id, op, label).op = op
         /\ Line(flow, id, op, label).label = label
BY DEF Line

LEMMA JournalTold ==
  ASSUME BooksInv, Told(rows, seq, tables),
         NEW flow, flow.table = "plan_flows", "plan_flows" \in tables,
         NEW rev, rev.table = "plan_flow_revisions", rev.owner = flow.owner,
         rev.ref = RefTo(flow), rev.label \in Nat, rev.label > births,
         NEW rs2, \A r \in rs2 : r.table = "plan_flow_revisions" => r \in rows \/ r = rev,
         NEW sq2 \in [tables -> Nat], \A t \in tables : sq2[t] >= seq[t], flow.id <= sq2["plan_flows"],
         \A r \in rows : r.table = "plan_flow_revisions" => r \in rs2, rev \in rs2,
         \A r : r.table = "plan_flows" /\ r.owner # flow.owner => (r \in rows <=> r \in rs2),
         rev.op # "delete" =>
           FlowRefs(rs2, flow.owner) = FlowRefs(rows, flow.owner) \cup {RefTo(flow)},
         rev.op = "delete" =>
           FlowRefs(rs2, flow.owner) = FlowRefs(rows, flow.owner) \ {RefTo(flow)}
  PROVE  Told(rs2, sq2, tables)
<1>1. births \in Nat /\ rows \subseteq Row /\ \A r \in rows : r.label <= births
  BY DEF BooksInv, RowsOK, Sound
<1>2. \A r \in rows : r.label \in Nat /\ r.label <= births
  BY <1>1, RowTypes
<1>3. ASSUME NEW p \in Portfolios PROVE PlanAsOf(rs2, p) = FlowRefs(rs2, p)
  <2>1. PlanAsOf(rows, p) = FlowRefs(rows, p)
    BY DEF Told
  <2>2. CASE p = flow.owner
    <3>1. Lines(rs2, p) = Lines(rows, p) \cup {rev}
      BY <2>2 DEF Lines
    <3> QED BY <1>1, <1>2, <2>1, <2>2, <3>1, LineWritten
  <2>3. CASE p # flow.owner
    <3>1. Lines(rs2, p) = Lines(rows, p)
      BY <2>3 DEF Lines
    <3>2. Flows(rs2, p) = Flows(rows, p)
      BY <2>3 DEF Flows
    <3>3. PlanAsOf(rs2, p) = PlanAsOf(rows, p) /\ FlowRefs(rs2, p) = FlowRefs(rows, p)
      BY <3>1, <3>2, PlanDepends
    <3> QED BY <2>1, <3>3
  <2> QED BY <2>2, <2>3
<1>4. Told(rows, sq2, tables)
  BY <1>1, ToldLater DEF BooksInv
<1>5. rev.ref.to = "plan_flows" /\ rev.ref.id <= sq2["plan_flows"]
  BY DEF RefTo
<1>6. ASSUME NEW r \in rs2, r.table = "plan_flow_revisions"
      PROVE  "plan_flows" \in tables /\ r.ref.to = "plan_flows" /\ r.ref.id <= sq2["plan_flows"]
  BY <1>4, <1>5, <1>6 DEF Told
<1> QED BY <1>3, <1>6 DEF Told

LEMMA SequenceGrows ==
  ASSUME BooksInv, Statement
  PROVE  /\ seq' \in [tables -> Nat] /\ \A t \in tables : seq'[t] >= seq[t]
         /\ RowsOK(rows', seq', births', tables) /\ births' \in Nat
BY DEF Statement, RowsStep, Grown, BooksInv

LEMMA HigherLabel == ASSUME NEW n \in Nat, NEW m, m = n + 1 \/ m = n + 2 PROVE m \in Nat /\ m > n
OBVIOUS

LEMMA AddToldFlow ==
  ASSUME BooksInv, Told(rows, seq, tables), AddPlanFlow PROVE Told(rows', seq', tables)
<1> DEFINE flowOf(p, dest) == NewRow("plan_flows", p, dest, "")
<1>1. PICK p, dest :
        JournalPlanFlow(rows \cup {flowOf(p, dest)}, flowOf(p, dest), "create", births + 2)
  BY DEF AddPlanFlow
<1>2. "plan_flows" \in tables /\ Statement
  BY AddPlanFlowKeeps DEF AddPlanFlow
<1> DEFINE flow == flowOf(p, dest)
           id == seq["plan_flow_revisions"] + 1
           label == births + 2
           rev == Line(flow, id, "create", label)
<1>3. rows' = (rows \cup {flow}) \cup {rev} /\ births' = label
  BY <1>1 DEF JournalPlanFlow, Line
<1>4. flow.table = "plan_flows" /\ flow.owner = p
  BY Zenon DEF NewRow
<1> HIDE DEF flow
<1>5. rev.table = "plan_flow_revisions" /\ rev.owner = flow.owner /\ rev.ref = RefTo(flow)
      /\ rev.op = "create" /\ rev.label = label
  <2> HIDE DEF id, label
  <2> QED BY LineIs
<1> HIDE DEF rev
<1>6. label \in Nat /\ label > births
  BY HigherLabel DEF BooksInv
<1> HIDE DEF label
<1>7. seq' \in [tables -> Nat] /\ (\A t \in tables : seq'[t] >= seq[t])
      /\ \A r \in rows' : r.id <= seq'[r.table]
  BY <1>2, SequenceGrows DEF RowsOK
<1>8. flow.id <= seq'["plan_flows"]
  BY <1>3, <1>4, <1>7
<1>9. FlowRefs(rows', flow.owner) = FlowRefs(rows, flow.owner) \cup {RefTo(flow)}
  <2>1. Flows(rows', flow.owner) = Flows(rows, flow.owner) \cup {flow}
    BY <1>3, <1>4, <1>5 DEF Flows
  <2> QED BY <2>1 DEF FlowRefs
<1>10. \A r \in rows' : r.table = "plan_flow_revisions" => r \in rows \/ r = rev
  BY <1>3, <1>4
<1>11. rev \in rows' /\ \A r \in rows : r \in rows'
  BY <1>3
<1>12. \A r : r.table = "plan_flows" /\ r.owner # flow.owner => (r \in rows <=> r \in rows')
  BY <1>3, <1>4, <1>5
<1> QED BY <1>2, <1>4, <1>5, <1>6, <1>7, <1>8, <1>9, <1>10, <1>11, <1>12, JournalTold

LEMMA UpdateToldFlow ==
  ASSUME BooksInv, Told(rows, seq, tables), UpdatePlanFlow PROVE Told(rows', seq', tables)
<1>1. PICK flow, dest :
        /\ flow \in rows /\ flow.table = "plan_flows"
        /\ JournalPlanFlow(SetRef(rows, flow, dest), flow, "update", births + 1)
  BY DEF UpdatePlanFlow
<1>2. "plan_flows" \in tables /\ Statement
  BY UpdatePlanFlowKeeps DEF UpdatePlanFlow
<1> DEFINE id == seq["plan_flow_revisions"] + 1
           label == births + 1
           rev == Line(flow, id, "update", label)
           moved == [flow EXCEPT !.ref = dest]
<1>3. rows' = SetRef(rows, flow, dest) \cup {rev} /\ births' = label
  BY <1>1 DEF JournalPlanFlow, Line
<1>4. flow \in Row
  BY <1>1 DEF BooksInv, RowsOK, Sound
<1>5. moved.table = flow.table /\ moved.owner = flow.owner /\ moved.id = flow.id
  BY <1>4 DEF Row
<1>6. rows' = ((rows \ {flow}) \cup {moved}) \cup {rev}
  BY <1>3 DEF SetRef
<1> HIDE DEF moved
<1>7. RefTo(moved) = RefTo(flow)
  BY <1>5, SameName
<1>8. rev.table = "plan_flow_revisions" /\ rev.owner = flow.owner /\ rev.ref = RefTo(flow)
      /\ rev.op = "update" /\ rev.label = label
  <2> HIDE DEF id, label
  <2> QED BY LineIs
<1> HIDE DEF rev
<1>9. label \in Nat /\ label > births
  BY HigherLabel DEF BooksInv
<1> HIDE DEF label
<1>10. seq' \in [tables -> Nat] /\ (\A t \in tables : seq'[t] >= seq[t])
       /\ \A r \in rows' : r.id <= seq'[r.table]
  BY <1>2, SequenceGrows DEF RowsOK
<1>11. flow.id <= seq'["plan_flows"]
  <2>1. moved \in rows'
    BY <1>6
  <2> QED BY <1>1, <1>5, <1>10, <2>1
<1>12. FlowRefs(rows', flow.owner) = FlowRefs(rows, flow.owner) \cup {RefTo(flow)}
  <2>1. Flows(rows', flow.owner) = (Flows(rows, flow.owner) \ {flow}) \cup {moved}
    BY <1>1, <1>5, <1>6, <1>8 DEF Flows
  <2>2. flow \in Flows(rows, flow.owner)
    BY <1>1 DEF Flows
  <2> QED BY <1>7, <2>1, <2>2 DEF FlowRefs
<1>13. \A r \in rows' : r.table = "plan_flow_revisions" => r \in rows \/ r = rev
  BY <1>1, <1>5, <1>6
<1>14. rev \in rows' /\ \A r \in rows : r.table = "plan_flow_revisions" => r \in rows'
  BY <1>1, <1>6
<1>15. \A r : r.table = "plan_flows" /\ r.owner # flow.owner => (r \in rows <=> r \in rows')
  BY <1>5, <1>6, <1>8
<1> QED BY <1>1, <1>2, <1>8, <1>9, <1>10, <1>11, <1>12, <1>13, <1>14, <1>15, JournalTold

LEMMA DeleteToldFlow ==
  ASSUME BooksInv, Told(rows, seq, tables), DeletePlanFlow PROVE Told(rows', seq', tables)
<1>1. PICK flow \in rows :
        /\ flow.table = "plan_flows"
        /\ JournalPlanFlow(rows \ {flow}, flow, "delete", births + 1)
  BY DEF DeletePlanFlow
<1>2. "plan_flows" \in tables /\ Statement
  BY DeletePlanFlowKeeps DEF DeletePlanFlow
<1> DEFINE id == seq["plan_flow_revisions"] + 1
           label == births + 1
           rev == Line(flow, id, "delete", label)
<1>3. rows' = (rows \ {flow}) \cup {rev} /\ births' = label
  BY <1>1 DEF JournalPlanFlow, Line
<1>4. flow \in Row /\ Distinct(rows) /\ flow.id <= seq[flow.table] /\ seq \in [tables -> Nat]
  BY DEF BooksInv, RowsOK, Sound
<1>8. rev.table = "plan_flow_revisions" /\ rev.owner = flow.owner /\ rev.ref = RefTo(flow)
      /\ rev.op = "delete" /\ rev.label = label
  <2> HIDE DEF id, label
  <2> QED BY LineIs
<1> HIDE DEF rev
<1>9. label \in Nat /\ label > births
  BY HigherLabel DEF BooksInv
<1> HIDE DEF label
<1>10. seq' \in [tables -> Nat] /\ \A t \in tables : seq'[t] >= seq[t]
  BY <1>2, SequenceGrows
<1>11. flow.id <= seq'["plan_flows"]
  BY <1>1, <1>2, <1>4, <1>10, RowTypes, LaterNumbers
<1>12. FlowRefs(rows', flow.owner) = FlowRefs(rows, flow.owner) \ {RefTo(flow)}
  <2>1. Flows(rows', flow.owner) = Flows(rows, flow.owner) \ {flow}
    BY <1>1, <1>3, <1>8 DEF Flows
  <2>2. \A r \in Flows(rows, flow.owner) : RefTo(r) = RefTo(flow) <=> r = flow
    BY <1>4 DEF Flows, Distinct
  <2> QED BY <2>1, <2>2 DEF FlowRefs
<1>13. \A r \in rows' : r.table = "plan_flow_revisions" => r \in rows \/ r = rev
  BY <1>3
<1>14. rev \in rows' /\ \A r \in rows : r.table = "plan_flow_revisions" => r \in rows'
  BY <1>1, <1>3
<1>15. \A r : r.table = "plan_flows" /\ r.owner # flow.owner => (r \in rows <=> r \in rows')
  BY <1>3, <1>8
<1> QED BY <1>1, <1>2, <1>8, <1>9, <1>10, <1>11, <1>12, <1>13, <1>14, <1>15, JournalTold

(* A backup, and its way back. *)
LEMMA ExportTold ==
  ASSUME BooksInv, Told(rows, seq, tables), NEW p \in Portfolios, ExportAll(p)
  PROVE  Told(file', seq, tables)
<1>1. file' = {r \in OfPortfolio(rows, p) : r.table \in Exported}
  BY DEF ExportAll
<1>2. \A r \in rows : r.table \in Exported
  BY RowsAreRows, RowTypes, Tables
<1>3. \A r : r \in file' <=> r \in rows /\ r.owner = p
  BY <1>1, <1>2 DEF OfPortfolio
<1>4. ASSUME NEW q \in Portfolios PROVE PlanAsOf(file', q) = FlowRefs(file', q)
  <2>1. CASE q = p
    <3>1. Lines(file', q) = Lines(rows, q) /\ Flows(file', q) = Flows(rows, q)
      BY <1>3, <2>1 DEF Lines, Flows
    <3>2. PlanAsOf(file', q) = PlanAsOf(rows, q) /\ FlowRefs(file', q) = FlowRefs(rows, q)
      BY <3>1, PlanDepends
    <3> QED BY <3>2 DEF Told
  <2>2. CASE q # p
    <3>1. Lines(file', q) = {} /\ Flows(file', q) = {}
      BY <1>3, <2>2 DEF Lines, Flows
    <3>2. \A ref : ref \notin PlanAsOf(file', q)
      BY <3>1, PlanIs DEF LastLine
    <3>3. FlowRefs(file', q) = {}
      BY <3>1 DEF FlowRefs
    <3> QED BY <3>2, <3>3
  <2> QED BY <2>1, <2>2
<1> QED BY <1>3, <1>4 DEF Told

(* Different sources of income get different numbers, those included that  *)
(* only the journal still knows.                                           *)
LEMMA NumbersApart ==
  ASSUME NEW db, NEW D, NEW S, NEW p, NEW f, NEW rs, NEW ts, NEW sq \in [ts -> Nat],
         Sound(f, ts), UnderwayRows(db, D, S, p, f, rs, sq, ts), NEW t \in ts,
         NEW x \in Refs, x.to = t, x.id <= sq[t], NEW y \in Refs, y.to = t, y.id <= sq[t],
         Of(db.map, x) = Of(db.map, y)
  PROVE  x = y
<1>1. MapOK(db.map, D, sq) /\ D \in SUBSET Row /\ sq[t] \in Nat /\ x.id \in Nat /\ y.id \in Nat
  BY DEF UnderwayRows, Sound, Refs
<1>2. \A m \in db.map : m.was.to = t => m.now \in Nat /\ m.now > sq[t]
  BY <1>1 DEF MapOK
<1>3. ASSUME NEW m \in db.map PROVE Of(db.map, m.was) = [m.was EXCEPT !.id = m.now]
  BY <1>1, OfKnown DEF MapOK
<1>4. ASSUME NEW z \in Refs, z.to = t, NEW m \in db.map, m.was = z
      PROVE  Of(db.map, z).id = m.now /\ Of(db.map, z).id > sq[t] /\ Of(db.map, z).id \in Nat
  <2>1. Of(db.map, z).id = m.now
    BY <1>3, <1>4 DEF Refs
  <2> QED BY <1>2, <1>4, <2>1
<1>5. CASE (\E m \in db.map : m.was = x) /\ \E m \in db.map : m.was = y
  <2>1. \E r \in D : x = RefTo(r)
    BY <1>1, <1>5 DEF MapOK
  <2>2. \E r \in D : y = RefTo(r)
    BY <1>1, <1>5 DEF MapOK
  <2> QED BY <2>1, <2>2 DEF UnderwayRows
<1>6. CASE (\E m \in db.map : m.was = x) /\ ~ \E m \in db.map : m.was = y
  <2>1. Of(db.map, y) = y
    BY <1>6, OfUnknown
  <2>2. Of(db.map, x).id > sq[t]
    BY <1>4, <1>6
  <2> QED BY <1>1, <2>1, <2>2
<1>7. CASE (~ \E m \in db.map : m.was = x) /\ \E m \in db.map : m.was = y
  <2>1. Of(db.map, x) = x
    BY <1>7, OfUnknown
  <2>2. Of(db.map, y).id > sq[t]
    BY <1>4, <1>7
  <2> QED BY <1>1, <2>1, <2>2
<1>8. CASE (~ \E m \in db.map : m.was = x) /\ ~ \E m \in db.map : m.was = y
  BY <1>8, OfUnknown
<1> QED BY <1>5, <1>6, <1>7, <1>8

(* The journal of rows that are renumbered alike.                          *)
Image(map, S, f, o, back, p) ==
  /\ \A x : x \in Lines(back, p) <=> \E r \in Lines(f, o) : x = Moved(map, S, p, r)
  /\ \A x : x \in Flows(back, p) <=> \E r \in Flows(f, o) : x = Moved(map, S, p, r)
  /\ \A r \in Lines(f, o) : Moved(map, S, p, r).ref = Of(map, r.ref)
  /\ \A r, s \in Lines(f, o) : Of(map, r.ref) = Of(map, s.ref) => r.ref = s.ref
  /\ \A r \in Flows(f, o) : RefTo(Moved(map, S, p, r)) = Of(map, RefTo(r))

LEMMA ImageTold ==
  ASSUME NEW map, NEW S, NEW f, NEW o, NEW back, NEW p,
         Image(map, S, f, o, back, p),
         PlanAsOf(f, o) = FlowRefs(f, o)
  PROVE  PlanAsOf(back, p) = FlowRefs(back, p)
<1> DEFINE is(r) == Moved(map, S, p, r)
           of(x) == Of(map, x)
<1>1. /\ \A x : x \in Lines(back, p) <=> \E r \in Lines(f, o) : x = is(r)
      /\ \A x : x \in Flows(back, p) <=> \E r \in Flows(f, o) : x = is(r)
      /\ \A r \in Lines(f, o) : is(r).ref = of(r.ref) /\ is(r).op = r.op /\ is(r).label = r.label
      /\ \A r, s \in Lines(f, o) : of(r.ref) = of(s.ref) => r.ref = s.ref
      /\ \A r \in Flows(f, o) : RefTo(is(r)) = of(RefTo(r))
  <2>1. \A r : is(r).op = r.op /\ is(r).label = r.label
    BY DEF Moved
  <2> QED BY <2>1 DEF Image
<1> HIDE DEF is, of
<1>2. ASSUME NEW r \in Lines(f, o) PROVE LastLine(back, p, is(r)) <=> LastLine(f, o, r)
  <2>1. ASSUME LastLine(f, o, r), NEW x \in Lines(back, p), x.ref = is(r).ref PROVE x.label <= is(r).label
    <3>1. PICK s \in Lines(f, o) : x = is(s)
      BY <1>1
    <3>2. s.ref = r.ref
      BY <1>1, <2>1, <3>1
    <3> QED BY <1>1, <2>1, <3>1, <3>2 DEF LastLine
  <2>2. ASSUME LastLine(back, p, is(r)), NEW s \in Lines(f, o), s.ref = r.ref PROVE s.label <= r.label
    <3>1. is(s) \in Lines(back, p) /\ is(s).ref = is(r).ref
      BY <1>1, <2>2
    <3>2. is(s).label <= is(r).label
      BY <2>2, <3>1 DEF LastLine
    <3> QED BY <1>1, <3>2
  <2>3. is(r) \in Lines(back, p)
    BY <1>1
  <2> QED BY <2>1, <2>2, <2>3 DEF LastLine
<1>3. ASSUME NEW x PROVE x \in PlanAsOf(back, p) <=> \E y \in PlanAsOf(f, o) : x = of(y)
  <2>1. ASSUME x \in PlanAsOf(back, p) PROVE \E y \in PlanAsOf(f, o) : x = of(y)
    <3>1. PICK u : LastLine(back, p, u) /\ u.op # "delete" /\ u.ref = x
      BY <2>1, PlanIs
    <3>2. PICK r \in Lines(f, o) : u = is(r)
      BY <1>1, <3>1 DEF LastLine
    <3>3. LastLine(f, o, r) /\ r.op # "delete" /\ x = of(r.ref)
      BY <1>1, <1>2, <3>1, <3>2
    <3>4. r.ref \in PlanAsOf(f, o)
      BY <3>3, PlanIs
    <3> QED BY <3>3, <3>4
  <2>2. ASSUME NEW y \in PlanAsOf(f, o), x = of(y) PROVE x \in PlanAsOf(back, p)
    <3>1. PICK r : LastLine(f, o, r) /\ r.op # "delete" /\ r.ref = y
      BY <2>2, PlanIs
    <3>2. r \in Lines(f, o)
      BY <3>1 DEF LastLine
    <3>3. LastLine(back, p, is(r)) /\ is(r).op # "delete" /\ is(r).ref = x
      BY <1>1, <1>2, <2>2, <3>1, <3>2
    <3> QED BY <3>3, PlanIs
  <2> QED BY <2>1, <2>2
<1>4. ASSUME NEW x PROVE x \in FlowRefs(back, p) <=> \E y \in FlowRefs(f, o) : x = of(y)
  BY <1>1 DEF FlowRefs
<1>5. \A x : x \in PlanAsOf(back, p) => x \in FlowRefs(back, p)
  BY <1>3, <1>4
<1>6. \A x : x \in FlowRefs(back, p) => x \in PlanAsOf(back, p)
  BY <1>3, <1>4
<1> QED BY <1>5, <1>6

LEMMA RestoredTold ==
  ASSUME BooksInv, Told(rows, seq, tables), NEW p \in Portfolios, file # NoFile,
         Told(file, seq, tables), NEW db, db = Restored(p, file), db.ok
  PROVE  Told(db.rows, db.seq, tables)
<1>1. /\ FileOK(file, tables) /\ seq \in [tables -> Nat] /\ tables \subseteq AllTables
      /\ RowsOK(rows, seq, births, tables) /\ births \in Nat /\ Sound(file, tables)
      /\ \A r \in file : r.label <= births
      /\ \A r, s \in file : r.label = s.label => r = s
  BY TablesKnown DEF BooksInv, FileOK
<1>2. Distinct(rows)
      /\ \A x \in rows : x.table \in tables /\ x.id \in Nat /\ x.id # 0 /\ x.id <= seq[x.table]
  BY <1>1, RowTypes DEF RowsOK, Sound
<1> DEFINE S == Held(file, Linked)
           is(r) == Moved(db.map, S, p, r)
<1>3. Underway(db, file, S, p, file, rows, seq, tables, WipeAllowed(p) /\ NoStrayMarks(file))
  BY <1>1, <1>2, RestoreDone
<1>4. RowsOK(db.rows, db.seq, births, tables)
  BY <1>1, RestoredIsSound
<1>5. db.seq \in [tables -> Nat]
  BY <1>1, RestoredIsSound
<1>6. \A t \in tables : db.seq[t] >= seq[t]
  BY <1>1, RestoredIsSound
<1>7. Others(db.rows, p) = Others(rows, p)
  BY ImportOthers
<1> HIDE DEF S
<1>8. UnderwayRows(db, file, S, p, file, rows, seq, tables)
  BY <1>3 DEF Underway
<1>9. /\ db.rows = Others(rows, p) \cup {is(r) : r \in file} /\ MapOK(db.map, file, seq)
      /\ file \in SUBSET Row /\ db.rows \subseteq Row /\ rows \subseteq Row
  BY <1>1, <1>4, <1>8 DEF UnderwayRows, RowsOK, Sound
<1>10. ASSUME NEW r \in file
       PROVE  /\ is(r).table = r.table /\ is(r).owner = p /\ is(r).label = r.label
              /\ is(r).ref = Of(db.map, r.ref) /\ is(r).op = r.op
              /\ RefTo(is(r)) = Of(db.map, RefTo(r)) /\ is(r) \in db.rows
  <2>1. /\ is(r).table = r.table /\ is(r).owner = p /\ is(r).label = r.label
        /\ is(r).ref = Of(db.map, r.ref) /\ is(r).op = r.op
    BY <1>1, <1>9, RestoredRow DEF S
  <2>2. RefTo(is(r)) = Of(db.map, RefTo(r))
    BY <1>9, MovedRow
  <2> QED BY <1>9, <2>1, <2>2
<1>11. PICK o \in Portfolios : \A r \in file : r.owner = o
  BY <1>1 DEF FileOK
<1>12. ASSUME NEW r \in file, r.table = "plan_flow_revisions"
       PROVE  /\ "plan_flows" \in tables /\ r.ref \in Refs /\ r.ref.id \in Nat
              /\ r.ref.to = "plan_flows" /\ r.ref.id <= seq["plan_flows"]
  <2>1. r.ref \in Refs
    BY <1>9, RowTypes
  <2> QED BY <1>12, <2>1 DEF Told, Refs
<1>13. PlanAsOf(db.rows, p) = FlowRefs(db.rows, p)
  <2>1. PlanAsOf(file, o) = FlowRefs(file, o)
    BY DEF Told
  <2>2. \A x : x \in Lines(db.rows, p) <=> \E r \in Lines(file, o) : x = is(r)
    <3> HIDE DEF is
    <3> QED BY <1>9, <1>10, <1>11 DEF Lines, Others
  <2>3. \A x : x \in Flows(db.rows, p) <=> \E r \in Flows(file, o) : x = is(r)
    <3> HIDE DEF is
    <3> QED BY <1>9, <1>10, <1>11 DEF Flows, Others
  <2>4. \A r \in Lines(file, o) : r \in file /\ r.table = "plan_flow_revisions"
    BY DEF Lines
  <2>5. \A r, s \in Lines(file, o) : Of(db.map, r.ref) = Of(db.map, s.ref) => r.ref = s.ref
    BY <1>1, <1>8, <1>12, <2>4, NumbersApart
  <2>6. \A r \in Flows(file, o) : r \in file
    BY DEF Flows
  <2>7. /\ \A r \in Lines(file, o) : is(r).ref = Of(db.map, r.ref)
        /\ \A r \in Flows(file, o) : RefTo(is(r)) = Of(db.map, RefTo(r))
    <3> HIDE DEF is
    <3> QED BY <1>10, <2>4, <2>6
  <2>8. Image(db.map, S, file, o, db.rows, p)
    BY <2>2, <2>3, <2>5, <2>7 DEF Image
  <2> QED BY <2>1, <2>8, ImageTold
<1>14. ASSUME NEW q \in Portfolios PROVE PlanAsOf(db.rows, q) = FlowRefs(db.rows, q)
  <2>1. CASE q = p
    BY <1>13, <2>1
  <2>2. CASE q # p
    <3>1. PlanAsOf(db.rows, q) = PlanAsOf(rows, q) /\ FlowRefs(db.rows, q) = FlowRefs(rows, q)
      BY <1>7, <2>2, PlanOfOthers
    <3> QED BY <3>1 DEF Told
  <2> QED BY <2>1, <2>2
<1>15. ASSUME NEW x \in db.rows, x.table = "plan_flow_revisions"
       PROVE  "plan_flows" \in tables /\ x.ref.to = "plan_flows" /\ x.ref.id <= db.seq["plan_flows"]
  <2>1. CASE x \in rows
    <3>1. Told(rows, db.seq, tables)
      BY <1>1, <1>5, <1>6, <1>9, ToldLater
    <3> QED BY <1>15, <2>1, <3>1 DEF Told
  <2>2. CASE \E r \in file : x = is(r)
    <3>1. PICK r \in file : x = is(r)
      BY <2>2
    <3> HIDE DEF is
    <3>2. r.table = "plan_flow_revisions" /\ x.ref = Of(db.map, r.ref)
      BY <1>10, <1>15, <3>1
    <3>3. CASE \E s \in file : RefTo(s) = r.ref
      <4>1. PICK s \in file : RefTo(s) = r.ref
        BY <3>3
      <4>2. RefTo(is(s)) = x.ref /\ is(s) \in db.rows /\ s.table = "plan_flows"
            /\ is(s).table = s.table
        BY <1>10, <1>12, <3>2, <4>1 DEF RefTo
      <4>3. x.ref.to = "plan_flows" /\ x.ref.id = is(s).id
        BY <4>2 DEF RefTo
      <4> QED BY <1>4, <1>12, <3>2, <4>2, <4>3 DEF RowsOK
    <3>4. CASE ~ \E s \in file : RefTo(s) = r.ref
      <4>1. Of(db.map, r.ref) = r.ref
        BY <1>9, <3>4, OfUnknown DEF MapOK
      <4>2. r.ref.id <= db.seq["plan_flows"]
        BY <1>1, <1>5, <1>6, <1>12, <3>2, LaterNumbers
      <4> QED BY <1>12, <3>2, <4>1, <4>2
    <3> QED BY <3>3, <3>4
  <2> QED BY <1>9, <2>1, <2>2 DEF Others
<1> QED BY <1>14, <1>15 DEF Told

(* Who writes what. *)
LEMMA FundOpLeaves ==
  ASSUME NEW new, new.table = "fund_ops", Insert(new) PROVE PlanLeftAlone(rows, rows')
BY DEF Insert, PlanLeftAlone

LEMMA LegStepsLeave ==
  ASSUME BooksInv, NEW c \in Clients, LegSteps(c) PROVE PlanLeftAlone(rows, rows')
<1>1. CASE AddFirstLeg(c)
  <2>1. PICK p : Insert(NewRow("fund_ops", p, NoRef, ""))
    BY <1>1 DEF AddFirstLeg
  <2> QED BY <2>1, RowTable, FundOpLeaves
<1>2. CASE AddSecondLeg(c)
  <2>1. PICK p : Insert(NewRow("fund_ops", p, NoRef, ""))
    BY <1>2 DEF AddSecondLeg
  <2> QED BY <2>1, RowTable, FundOpLeaves
<1>3. CASE LinkFundOps(c)
  <2> DEFINE q == request[c]
             leg == {r \in Own("fund_ops", q.owner) : r.id = q.a}
             other == [to |-> "fund_ops", id |-> q.b]
             done == leg # {} /\ Resolves(rows, other)
             row == CHOOSE r \in leg : TRUE
  <2>1. rows' = IF done THEN SetRef(rows, row, other) ELSE rows
    BY <1>3 DEF LinkFundOps
  <2>2. done => row \in rows /\ row.table = "fund_ops"
    BY DEF Own
  <2> HIDE DEF row, other, done
  <2>3. CASE done
    <3>1. [row EXCEPT !.ref = other].table = "fund_ops"
      BY <2>2, <2>3, RowsAreRows DEF Row
    <3>2. rows' = (rows \ {row}) \cup {[row EXCEPT !.ref = other]}
      BY <2>1, <2>3 DEF SetRef
    <3> QED BY <2>2, <2>3, <3>1, <3>2 DEF PlanLeftAlone
  <2>4. CASE ~done
    BY <2>1, <2>4 DEF PlanLeftAlone
  <2> QED BY <2>3, <2>4
<1> QED BY <1>1, <1>2, <1>3 DEF LegSteps

LEMMA AddFundOpLeaves == ASSUME AddFundOp PROVE PlanLeftAlone(rows, rows')
<1>1. PICK p : Insert(NewRow("fund_ops", p, NoRef, ""))
  BY DEF AddFundOp, AddRoot
<1> QED BY <1>1, RowTable, FundOpLeaves

LEMMA DeletedLeaves ==
  ASSUME NEW rs, NEW gone, \A r \in gone : r.table = "fund_ops"
  PROVE  PlanLeftAlone(rs, Deleted(rs, gone))
<1> DEFINE all == gone \cup UNION {Cascade(rs, r) : r \in gone}
<1>1. \A r \in all : r.table = "fund_ops" \/ r.table = "reserve_loans"
  BY DEF Cascade
<1>2. Deleted(rs, gone) = rs \/ Deleted(rs, gone) = rs \ all
  BY DEF Deleted
<1> HIDE DEF all
<1> QED BY <1>1, <1>2 DEF PlanLeftAlone

LEMMA DeleteFundOpPlan == ASSUME BooksInv, DeleteFundOp PROVE PlanLeftAlone(rows, rows')
<1>1. PICK op \in rows :
        LET both == {r \in Own("fund_ops", op.owner) : r = op \/ Names(r, op.ref)}
            cleared == {[r EXCEPT !.ref = NoRef] : r \in both}
            after == Deleted((rows \ both) \cup cleared, cleared)
        IN  rows' = IF cleared \cap after = {} THEN after ELSE rows
  BY DEF DeleteFundOp
<1> DEFINE both == {r \in Own("fund_ops", op.owner) : r = op \/ Names(r, op.ref)}
           cleared == {[r EXCEPT !.ref = NoRef] : r \in both}
           mid == (rows \ both) \cup cleared
<1>2. rows' = Deleted(mid, cleared) \/ rows' = rows
  BY <1>1
<1>3. \A r \in both : r \in Row /\ r.table = "fund_ops"
  BY RowsAreRows DEF Own
<1>4. \A r \in cleared : r.table = "fund_ops"
  <2> HIDE DEF both
  <2> QED BY <1>3 DEF Row
<1> HIDE DEF both, cleared
<1>5. PlanLeftAlone(rows, mid)
  BY <1>3, <1>4 DEF PlanLeftAlone
<1> HIDE DEF mid
<1>6. PlanLeftAlone(mid, Deleted(mid, cleared))
  BY <1>4, DeletedLeaves
<1>7. PlanLeftAlone(rows, rows)
  BY DEF PlanLeftAlone
<1>8. PlanLeftAlone(rows, Deleted(mid, cleared))
  BY <1>5, <1>6 DEF PlanLeftAlone
<1> QED BY <1>2, <1>7, <1>8

LEMMA QuietPlan == ASSUME Quiet PROVE PlanLeftAlone(rows, rows')
BY DEF Quiet, OfTables, Kept, PlanLeftAlone

LEMMA PlanLegs ==
  ASSUME BooksInv, Plan
  PROVE  request' = request /\ \A r \in rows' : r.table = "fund_ops" => r \in rows
<1>1. CASE AddPlanFlow
  <2>1. PICK p, dest :
          JournalPlanFlow(rows \cup {NewRow("plan_flows", p, dest, "")},
                          NewRow("plan_flows", p, dest, ""), "create", births + 2)
    BY <1>1 DEF AddPlanFlow
  <2> DEFINE flow == NewRow("plan_flows", p, dest, "")
             rev == Line(flow, seq["plan_flow_revisions"] + 1, "create", births + 2)
  <2>2. rows' = (rows \cup {flow}) \cup {rev} /\ request' = request
    BY <2>1 DEF JournalPlanFlow, Line
  <2>3. flow.table = "plan_flows"
    BY RowTable
  <2>4. rev.table = "plan_flow_revisions"
    BY DEF Line
  <2> HIDE DEF flow, rev
  <2> QED BY <2>2, <2>3, <2>4
<1>2. CASE UpdatePlanFlow
  <2>1. PICK flow, dest :
          flow \in rows /\ flow.table = "plan_flows"
          /\ JournalPlanFlow(SetRef(rows, flow, dest), flow, "update", births + 1)
    BY <1>2 DEF UpdatePlanFlow
  <2> DEFINE rev == Line(flow, seq["plan_flow_revisions"] + 1, "update", births + 1)
             to == [flow EXCEPT !.ref = dest]
  <2>2. rows' = ((rows \ {flow}) \cup {to}) \cup {rev} /\ request' = request
    BY <2>1 DEF JournalPlanFlow, Line, SetRef
  <2>3. to.table = "plan_flows"
    BY <2>1, RowsAreRows DEF Row
  <2>4. rev.table = "plan_flow_revisions"
    BY DEF Line
  <2> HIDE DEF to, rev
  <2> QED BY <2>2, <2>3, <2>4
<1>3. CASE DeletePlanFlow
  <2>1. PICK flow \in rows :
          JournalPlanFlow(rows \ {flow}, flow, "delete", births + 1)
    BY <1>3 DEF DeletePlanFlow
  <2> DEFINE rev == Line(flow, seq["plan_flow_revisions"] + 1, "delete", births + 1)
  <2>2. rows' = (rows \ {flow}) \cup {rev} /\ request' = request
    BY <2>1 DEF JournalPlanFlow, Line
  <2>4. rev.table = "plan_flow_revisions"
    BY DEF Line
  <2> HIDE DEF rev
  <2> QED BY <2>2, <2>4
<1> QED BY <1>1, <1>2, <1>3 DEF Plan

LEMMA DeleteFundOpRequests == ASSUME DeleteFundOp PROVE request' = request
BY DEF DeleteFundOp

LEMMA AddFundOpRequests == ASSUME AddFundOp PROVE request' = request
BY DEF AddFundOp, AddRoot

(* A statement of a request, or one of the others. *)
LEMMA Ordinary ==
  ASSUME BooksInv, Next
  PROVE  \/ Statement /\ Elsewhere
         \/ Crash \/ NewMachine \/ \E p \in Portfolios : ExportAll(p) \/ ImportAll(p)
<1>1. CASE Roots \/ Deletes \/ Plan \/ \E c \in Clients : Adds(c) \/ Moves(c) \/ DeletesInSteps(c)
  <2>1. Statement
    BY <1>1, RootsKeep, DeletesKeep, PlanKeeps, AddsKeep, MovesKeep, DeletesInStepsKeep
  <2> QED BY <2>1, NothingElse
<1>2. CASE Crash \/ NewMachine \/ \E p \in Portfolios : ExportAll(p) \/ ImportAll(p)
  BY <1>2
<1> QED BY <1>1, <1>2 DEF Next

-----------------------------------------------------------------------------
(* KeptInv is inductive. *)

LEMMA OnlyUp ==
  ASSUME NEW n \in Nat, NEW m, m = n \/ m = n + 1
  PROVE  m \in Nat /\ (m = 0 => n = 0 /\ m # n + 1)
OBVIOUS

LEMMA Counters ==
  ASSUME KeptInv, Next
  PROVE  /\ machines' \in Nat /\ crashes' \in Nat /\ restores' \in Nat
         /\ machines' = 0 => machines = 0 /\ ~NewMachine
         /\ crashes' = 0 => crashes = 0 /\ ~Crash
         /\ restores' = 0 => restores = 0 /\ \A p : ~ImportAll(p)
<1>1. machines \in Nat /\ crashes \in Nat /\ restores \in Nat
  BY DEF KeptInv
<1>2. machines' = machines \/ machines' = machines + 1
  BY NothingElse DEF Elsewhere, Crash, NewMachine, ExportAll, ImportAll
<1>3. crashes' = crashes \/ crashes' = crashes + 1
  BY NothingElse DEF Elsewhere, Crash, NewMachine, ExportAll, ImportAll
<1>4. restores' = restores \/ restores' = restores + 1
  BY NothingElse DEF Elsewhere, Crash, NewMachine, ExportAll, ImportAll
<1>5. machines' \in Nat /\ (machines' = 0 => machines = 0 /\ machines' # machines + 1)
  BY <1>1, <1>2, OnlyUp
<1>6. crashes' \in Nat /\ (crashes' = 0 => crashes = 0 /\ crashes' # crashes + 1)
  BY <1>1, <1>3, OnlyUp
<1>7. restores' \in Nat /\ (restores' = 0 => restores = 0 /\ restores' # restores + 1)
  BY <1>1, <1>4, OnlyUp
<1> QED BY <1>5, <1>6, <1>7 DEF NewMachine, Crash, ImportAll

LEMMA AllIdle ==
  ASSUME request' = [c \in Clients |-> Idle] PROVE \A c \in Clients : request'[c] = Idle
OBVIOUS

LEMMA LegStepAside ==
  ASSUME BooksInv, NEW c \in Clients, LegSteps(c), NEW d \in Clients, Aside(request[d])
  PROVE  Aside(request'[d])
<1>1. \E q : request' = [request EXCEPT ![c] = q] /\ q.kind \in {"idle", "second leg", "link"}
  <2>1. CASE AddFirstLeg(c)
    <3> DEFINE leg(p, i) == [kind |-> "second leg", owner |-> p, a |-> i]
    <3>1. \A p, i : leg(p, i).kind = "second leg"
      OBVIOUS
    <3>2. \E p, i : request' = [request EXCEPT ![c] = leg(p, i)]
      BY <2>1, Zenon DEF AddFirstLeg
    <3> HIDE DEF leg
    <3> QED BY <3>1, <3>2
  <2>2. CASE AddSecondLeg(c)
    <3> DEFINE link(i) == [kind |-> "link", owner |-> request[c].owner, a |-> request[c].a,
                           b |-> i, again |-> TRUE]
    <3>1. \A i : link(i).kind = "link"
      OBVIOUS
    <3>2. \E i : request' = [request EXCEPT ![c] = link(i)]
      BY <2>2, Zenon DEF AddSecondLeg
    <3> HIDE DEF link
    <3> QED BY <3>1, <3>2
  <2>3. CASE LinkFundOps(c)
    <3> DEFINE q == request[c]
               next == [q EXCEPT !.a = q.b, !.b = q.a, !.again = FALSE]
    <3>1. request' = [request EXCEPT ![c] = next] \/ request' = [request EXCEPT ![c] = Idle]
      BY <2>3 DEF LinkFundOps
    <3>2. q.kind = "link" /\ next.kind = q.kind
      <4>1. q.kind = "link"
        BY <2>3 DEF LinkFundOps
      <4>2. q \in [kind : {"link"}, owner : Portfolios, a : Nat, b : Nat, again : BOOLEAN]
        BY <4>1, IdleAside DEF BooksInv, RequestOK
      <4> QED BY <4>2
    <3> HIDE DEF next
    <3> QED BY <3>1, <3>2, IdleAside
  <2> QED BY <2>1, <2>2, <2>3 DEF LegSteps
<1>2. PICK q : request' = [request EXCEPT ![c] = q] /\ q.kind \in {"idle", "second leg", "link"}
  BY <1>1
<1>3. request'[d] = q \/ request'[d] = request[d]
  BY <1>2, RequestSet DEF BooksInv
<1>4. Aside(q)
  BY <1>2 DEF Aside
<1> QED BY <1>3, <1>4

LEMMA NoLegs ==
  ASSUME NEW rq, \A c \in Clients : rq[c] = Idle PROVE Legs({}, rq)
<1>1. \A c \in Clients : Legless(rq[c])
  BY IdleAside
<1> QED BY <1>1, LegKinds DEF Legs

LEMMA NothingTold ==
  ASSUME NEW sq, NEW ts PROVE Told({}, sq, ts)
<1>1. \A p : Lines({}, p) = {} /\ Flows({}, p) = {}
  BY DEF Lines, Flows
<1>2. \A p, ref : ref \notin PlanAsOf({}, p)
  BY <1>1, PlanIs DEF LastLine
<1>3. \A p : FlowRefs({}, p) = {}
  BY <1>1 DEF FlowRefs
<1> QED BY <1>2, <1>3 DEF Told

LEMMA KeptAside ==
  ASSUME KeptInv, Next PROVE \A c \in Clients : Aside(request'[c])
<1>1. BooksInv /\ \A c \in Clients : Aside(request[c])
  BY DEF KeptInv
<1>2. CASE Quiet
  BY <1>1, <1>2 DEF Quiet
<1>3. CASE AddFundOp \/ DeleteFundOp \/ Plan
  BY <1>1, <1>3, AddFundOpRequests, DeleteFundOpRequests, PlanLegs
<1>4. CASE Crash \/ NewMachine
  <2>1. \A c \in Clients : request'[c] = Idle
    BY <1>4, AllIdle DEF Crash, NewMachine
  <2> QED BY <2>1, IdleAside
<1>5. CASE \E c \in Clients : LegSteps(c)
  BY <1>1, <1>5, LegStepAside
<1>6. CASE \E p \in Portfolios : ExportAll(p) \/ ImportAll(p)
  BY <1>1, <1>6 DEF ExportAll, ImportAll
<1> QED BY <1>1, <1>2, <1>3, <1>4, <1>5, <1>6, Sorts

(* No leg is written, and no request about legs goes on. *)
LegsAlone(rs, rq, rs2, rq2) ==
  /\ \A r \in rs2 : r.table = "fund_ops" => r \in rs
  /\ \A c \in Clients : rq2[c] = rq[c] \/ (Legless(rq[c]) /\ Legless(rq2[c]))

LEMMA LegsLeftAlone ==
  ASSUME NEW rs, NEW rs2, NEW ts, Sound(rs, ts), Sound(rs2, ts), NEW rq, NEW rq2,
         Legs(rs, rq), LegsAlone(rs, rq, rs2, rq2)
  PROVE  Legs(rs2, rq2)
BY LegsFewer DEF LegsAlone

LEMMA SameRequests ==
  ASSUME NEW rs, NEW rs2, NEW rq, NEW rq2, rq2 = rq, \A r \in rs2 : r.table = "fund_ops" => r \in rs
  PROVE  LegsAlone(rs, rq, rs2, rq2)
BY DEF LegsAlone

LEMMA QuietLegs == ASSUME Quiet PROVE LegsAlone(rows, request, rows', request')
<1>1. \A r \in rows' : r.table = "fund_ops" => r \in rows
  BY DEF Quiet, OfTables, Kept
<1> QED BY <1>1, Zenon DEF Quiet, LegsAlone

LEMMA KeptLegs ==
  ASSUME KeptInv, ~swapped', Next, crashes' = 0, restores' = 0
  PROVE  Legs(rows', request')
<1>1. BooksInv /\ (\A c \in Clients : Aside(request[c])) /\ Legs(rows, request)
  BY Counters DEF KeptInv
<1>2. BooksInv' /\ ~Crash /\ \A p : ~ImportAll(p)
  BY <1>1, BooksInvStep, Counters
<1>3. CASE Statement /\ LegsAlone(rows, request, rows', request')
  <2>1. Sound(rows, tables) /\ Sound(rows', tables)
    BY <1>1, <1>2, <1>3 DEF BooksInv, RowsOK, Statement
  <2> QED BY <1>1, <1>3, <2>1, LegsLeftAlone
<1>4. Quiet \/ DeleteFundOp \/ Plan => LegsAlone(rows, request, rows', request')
  BY <1>1, QuietLegs, SameRequests, DeleteFundOpLeaves, DeleteFundOpRequests, PlanLegs
<1>5. CASE NewMachine
  <2>1. rows' = {} /\ request' = [c \in Clients |-> Idle]
    BY <1>5 DEF NewMachine
  <2> QED BY <2>1, AllIdle, NoLegs
<1>6. CASE \E p \in Portfolios : ExportAll(p)
  BY <1>1, <1>6 DEF ExportAll
<1>7. CASE AddFundOp \/ \E c \in Clients : LegSteps(c)
  BY <1>1, <1>7, FundOpLegs, LegStepLegs
<1> QED BY <1>1, <1>2, <1>3, <1>4, <1>5, <1>6, <1>7, Ordinary, Sorts

LEMMA KeptTold ==
  ASSUME KeptInv, Next, machines' = 0
  PROVE  Told(rows', seq', tables)
<1>1. /\ BooksInv /\ Told(rows, seq, tables) /\ ~NewMachine
      /\ (\A c \in Clients : Aside(request[c])) /\ (file # NoFile => Told(file, seq, tables))
  BY Counters DEF KeptInv
<1>2. rows \subseteq Row /\ seq \in [tables -> Nat]
  BY <1>1, RowsAreRows DEF BooksInv
<1>3. ASSUME PlanLeftAlone(rows, rows'), Statement PROVE Told(rows', seq', tables)
  <2>1. seq' \in [tables -> Nat] /\ \A t \in tables : seq'[t] >= seq[t]
    BY <1>1, <1>3, SequenceGrows
  <2>2. Told(rows, seq', tables)
    BY <1>1, <1>2, <2>1, ToldLater
  <2> QED BY <1>3, <2>2, ToldStays
<1>4. CASE Plan
  BY <1>1, <1>4, AddToldFlow, UpdateToldFlow, DeleteToldFlow DEF Plan
<1>5. ASSUME Statement, Quiet \/ AddFundOp \/ DeleteFundOp \/ \E c \in Clients : LegSteps(c)
      PROVE  Told(rows', seq', tables)
  BY <1>1, <1>3, <1>5, QuietPlan, AddFundOpLeaves, DeleteFundOpPlan, LegStepsLeave
<1>6. CASE Crash \/ \E p \in Portfolios : ExportAll(p)
  BY <1>1, <1>6 DEF Crash, ExportAll
<1>7. ASSUME NEW p \in Portfolios, ImportAll(p) PROVE Told(rows', seq', tables)
  <2> DEFINE db == Restored(p, file)
  <2>1. file # NoFile /\ IF db.ok THEN rows' = db.rows /\ seq' = db.seq ELSE UNCHANGED <<rows, seq>>
    BY <1>7 DEF ImportAll
  <2>2. db.ok => Told(db.rows, db.seq, tables)
    BY <1>1, <2>1, RestoredTold
  <2> HIDE DEF db
  <2> QED BY <1>1, <2>1, <2>2
<1> QED BY <1>1, <1>4, <1>5, <1>6, <1>7, Ordinary, Sorts

LEMMA KeptInit == Init => KeptInv
<1> SUFFICES ASSUME Init PROVE KeptInv
  OBVIOUS
<1>1. rows = {} /\ file = NoFile /\ machines = 0 /\ crashes = 0 /\ restores = 0
  BY Zenon DEF Init
<1>2. \A c \in Clients : request[c] = Idle
  BY DEF Init
<1>3. BooksInv
  BY InitOK
<1>4. \A c \in Clients : Aside(request[c])
  BY <1>2, IdleAside
<1>5. Legs(rows, request)
  BY <1>1, <1>2, NoLegs
<1>6. Told(rows, seq, tables)
  BY <1>1, NothingTold
<1> QED BY <1>1, <1>3, <1>4, <1>5, <1>6 DEF KeptInv

LEMMA KeptFile ==
  ASSUME KeptInv, Next, machines' = 0, file' # NoFile
  PROVE  Told(file', seq', tables)
<1>1. /\ BooksInv /\ Told(rows, seq, tables) /\ ~NewMachine
      /\ (file # NoFile => Told(file, seq, tables))
  BY Counters DEF KeptInv
<1>2. CASE \E p \in Portfolios : ExportAll(p)
  <2>1. seq' = seq
    BY <1>2 DEF ExportAll
  <2> QED BY <1>1, <1>2, <2>1, ExportTold
<1>3. ASSUME file' = file, seq' \in [tables -> Nat], \A t \in tables : seq'[t] >= seq[t]
      PROVE  Told(file', seq', tables)
  <2>1. file \subseteq Row /\ seq \in [tables -> Nat] /\ Told(file, seq, tables)
    BY <1>1, <1>3 DEF BooksInv, FileOK, Sound
  <2>2. Told(file, seq', tables)
    BY <1>3, <2>1, ToldLater
  <2> QED BY <1>3, <2>2
<1>4. CASE Statement
  BY <1>1, <1>3, <1>4, SequenceGrows DEF Statement
<1>5. CASE Crash
  BY <1>1, <1>5 DEF Crash
<1>6. ASSUME NEW p \in Portfolios, ImportAll(p) PROVE Told(file', seq', tables)
  <2> DEFINE db == Restored(p, file)
  <2>1. /\ file # NoFile /\ file' = file
        /\ IF db.ok THEN rows' = db.rows /\ seq' = db.seq ELSE UNCHANGED <<rows, seq>>
    BY <1>6 DEF ImportAll
  <2>2. FileOK(file, tables) /\ seq \in [tables -> Nat] /\ tables \subseteq AllTables
        /\ RowsOK(rows, seq, births, tables) /\ births \in Nat
        /\ (\A r \in file : r.label <= births)
        /\ \A r, s \in file : r.label = s.label => r = s
    BY <1>1, <2>1, TablesKnown DEF BooksInv
  <2>3. db.ok => db.seq \in [tables -> Nat]
    BY <2>2, RestoredIsSound
  <2>4. db.ok => \A t \in tables : db.seq[t] >= seq[t]
    BY <2>2, RestoredIsSound
  <2> HIDE DEF db
  <2>5. CASE db.ok
    BY <1>3, <2>1, <2>3, <2>4, <2>5
  <2>6. CASE ~db.ok
    BY <1>1, <2>1, <2>6
  <2> QED BY <2>5, <2>6
<1> QED BY <1>1, <1>2, <1>4, <1>5, <1>6, Ordinary

LEMMA KeptStep == ASSUME KeptInv, ~swapped', [Next]_vars PROVE KeptInv'
<1>1. CASE Next
  <2>1. BooksInv' /\ tables' = tables
    BY <1>1, BooksInvStep, NothingElse DEF KeptInv, Elsewhere, Crash, NewMachine, ExportAll, ImportAll
  <2>2. machines' \in Nat /\ crashes' \in Nat /\ restores' \in Nat
    BY <1>1, Counters
  <2>3. \A c \in Clients : Aside(request'[c])
    BY <1>1, KeptAside
  <2>4. crashes' = 0 /\ restores' = 0 => Legs(rows', request')
    BY <1>1, KeptLegs
  <2>5. machines' = 0 => /\ Told(rows', seq', tables')
                         /\ file' # NoFile => Told(file', seq', tables')
    BY <1>1, <2>1, KeptTold, KeptFile
  <2> QED BY <2>1, <2>2, <2>3, <2>4, <2>5 DEF KeptInv, NoFile
<1>2. CASE UNCHANGED vars
  <2>1. BooksInv'
    BY <1>2, BooksInvStep DEF KeptInv
  <2> QED BY <1>2, <2>1 DEF KeptInv, vars, NoFile
<1> QED BY <1>1, <1>2

(* Once a restore has given a looked-up number away, it stays said; and     *)
(* before the first restore it is not.                                     *)
RestoresInv == restores \in Nat /\ (swapped => restores # 0)

LEMMA SwappedStays ==
  ASSUME [Next]_vars PROVE swapped => swapped'
BY NothingElse DEF Elsewhere, Crash, NewMachine, ExportAll, ImportAll, vars

LEMMA RestoresStep ==
  ASSUME RestoresInv, [Next]_vars PROVE RestoresInv'
<1>1. \/ restores' = restores /\ swapped' = swapped
      \/ restores' = restores + 1
  BY NothingElse DEF Elsewhere, Crash, NewMachine, ExportAll, ImportAll, vars
<1>2. restores \in Nat
  BY DEF RestoresInv
<1>3. CASE restores' = restores /\ swapped' = swapped
  BY <1>3 DEF RestoresInv
<1>4. CASE restores' = restores + 1
  <2>1. restores' \in Nat /\ restores' # 0
    BY <1>2, <1>4
  <2> QED BY <2>1 DEF RestoresInv
<1> QED BY <1>1, <1>3, <1>4

-----------------------------------------------------------------------------
(* The theorems.  Their invariants are about behaviours in which no restore *)
(* has given the number of a row that a request under way had looked up to *)
(* a row of another portfolio: nothing in the program prevents it, and     *)
(* past it there is nothing to prove.  swapped says that it has happened.  *)

LEMMA BooksStep ==
  (swapped \/ BooksInv) /\ [Next]_vars => (swapped \/ BooksInv)'
BY BooksInvStep, SwappedStays

(* Every reference with a foreign key names a row of the own portfolio     *)
(* (ReferencesHold), however the statements of requests, deletions and     *)
(* restores interleave, up to the one accident that the property names.    *)
THEOREM ReferencesAlwaysHold == Spec => []ReferencesHold
<1>1. Init => swapped \/ BooksInv
  BY InitOK
<1>2. swapped \/ BooksInv => ReferencesHold
  BY DEF BooksInv, RowsOK, Sound, Closed, ReferencesHold
<1> QED BY <1>1, BooksStep, <1>2, PTL DEF Spec

(* The kept file can be restored into any portfolio of any database of the *)
(* installation (FileCanBeRestored), with requests under way or not.       *)
THEOREM FileCanAlwaysBeRestored == Spec => []FileCanBeRestored
<1>1. Init => swapped \/ BooksInv
  BY InitOK
<1>2. swapped \/ BooksInv => FileCanBeRestored
  <2>1. CASE swapped
    BY <2>1 DEF FileCanBeRestored
  <2>2. CASE BooksInv
    BY <2>2, CanBeRestored
  <2> QED BY <2>1, <2>2
<1> QED BY <1>1, BooksStep, <1>2, PTL DEF Spec

(* A restore brings back the rows of the file, all of them and no other,   *)
(* and what each of them refers to (RestoreIsFaithful).                    *)
THEOREM RestoreIsAlwaysFaithful == Spec => RestoreIsFaithful
<1> DEFINE Faithful ==
      \A p \in Portfolios :
       ImportAll(p) /\ Restored(p, file).ok /\ ~swapped =>
         LET back == OfPortfolio(rows', p)
         IN  /\ {r.label : r \in back} = {r.label : r \in file}
             /\ \A s \in Story(file) : s.about # 0 => s \in Story(back)
<1>1. Init => swapped \/ BooksInv
  BY InitOK
<1>2. (swapped \/ BooksInv) => [Faithful]_vars
  <2> SUFFICES ASSUME BooksInv, NEW p \in Portfolios, ImportAll(p), Restored(p, file).ok
               PROVE  LET back == OfPortfolio(rows', p)
                      IN  /\ {r.label : r \in back} = {r.label : r \in file}
                          /\ \A s \in Story(file) : s.about # 0 => s \in Story(back)
    OBVIOUS
  <2>1. file # NoFile /\ rows' = Restored(p, file).rows
    BY DEF ImportAll
  <2> DEFINE back == OfPortfolio(rows', p)
  <2>2. back = OfPortfolio(Restored(p, file).rows, p)
    BY <2>1
  <2> HIDE DEF back
  <2>3. {r.label : r \in back} = {r.label : r \in file}
    BY <2>1, <2>2, BroughtBack
  <2>4. \A s \in Story(file) : s.about # 0 => s \in Story(back)
    BY <2>1, <2>2, BroughtBack
  <2> QED BY <2>3, <2>4 DEF back
<1> QED BY <1>1, BooksStep, <1>2, PTL DEF Spec, RestoreIsFaithful

(* No step changes the rows of two portfolios (NeighboursUntouched), except *)
(* the loss of the machine.                                                *)
THEOREM NeighboursAlwaysUntouched == Spec => NeighboursUntouched
<1> DEFINE Apart ==
      machines' = machines /\ ~swapped =>
       \A p, q \in Portfolios :
         p # q => \/ OfPortfolio(rows, p) = OfPortfolio(rows', p)
                  \/ OfPortfolio(rows, q) = OfPortfolio(rows', q)
<1>1. Init => swapped \/ MachinesInv
  BY InitOK DEF Init, MachinesInv
<1>2. (swapped \/ MachinesInv) /\ [Next]_vars => (swapped \/ MachinesInv)'
  BY MachinesStep, SwappedStays
<1>3. (swapped \/ MachinesInv) /\ [Next]_vars => [Apart]_vars
  BY MachinesStep, Neighbours
<1> QED BY <1>1, <1>2, <1>3, PTL DEF Spec, NeighboursUntouched

LEMMA KeptUntilSwapped ==
  (swapped \/ KeptInv) /\ [Next]_vars => (swapped \/ KeptInv)'
BY KeptStep, SwappedStays

(* The legs of a transfer point at each other (PairsMutual), whatever the  *)
(* statements of the four-step link, of deletions and of other transfers   *)
(* come between: KeptInv says of every transfer under way which of its     *)
(* legs is pointed at which, and that no two of them share a leg.          *)
THEOREM PairsStayMutual == Spec => []PairsMutual
<1>1. Init => (swapped \/ KeptInv) /\ RestoresInv
  BY KeptInit DEF Init, RestoresInv
<1>2. RestoresInv /\ [Next]_vars => RestoresInv'
  BY RestoresStep
<1>3. (swapped \/ KeptInv) /\ RestoresInv => PairsMutual
  <2> SUFFICES ASSUME restores = 0 => KeptInv, crashes = 0, restores = 0,
                      NEW r \in rows, r.table = "fund_ops", r.ref # NoRef
               PROVE  \/ \E other \in rows : Names(other, r.ref) /\ other.ref = RefTo(r)
                      \/ \E c \in Clients : request[c].kind = "link" /\ request[c].b = r.id
    BY DEF RestoresInv, PairsMutual
  <2>1. Legs(rows, request)
    BY DEF KeptInv
  <2> QED BY <2>1, LegKinds DEF Legs
<1> QED BY <1>1, KeptUntilSwapped, <1>2, <1>3, PTL DEF Spec

(* On one database the journal of the plan tells the sources of income the *)
(* table holds (JournalMatchesFlows), restores included: a restore gives   *)
(* the sources that only the journal knows numbers of their own.  Proved   *)
(* up to the accident of ReferencesHold, which the run does not except.    *)
THEOREM JournalAlwaysMatches == Spec => [](swapped \/ JournalMatchesFlows)
<1>1. Init => swapped \/ KeptInv
  BY KeptInit
<1>2. (swapped \/ KeptInv) => swapped \/ JournalMatchesFlows
  BY DEF KeptInv, Told, JournalMatchesFlows, FlowRefs, Flows
<1> QED BY <1>1, KeptUntilSwapped, <1>2, PTL DEF Spec
=============================================================================
