---------------------- MODULE PortfolioLifecycleProofs ----------------------
(***************************************************************************)
(* Proofs about PortfolioLifecycle, for any names, any number of requests  *)
(* and any limits.                                                         *)
(***************************************************************************)
EXTENDS PortfolioLifecycle, FiniteSetTheorems, TLAPS

Portfolios == [id : Nat, slug : Slugs]
Requests == [at : Places, slug : Slugs \cup {""}, id : Nat, sat : Nat]
DailyRuns == [at : {"idle", "next", "publish", "taken"}, left : SUBSET Nat, sat : Nat]

Found == {"spawn", "hook", "unhook", "remove", "detach", "forget", "clear", "close", "erase"}
Holding == {"hook", "remove", "detach", "forget", "clear", "close"}

RowTypes ==
  /\ limits \in Limits
  /\ lastId \in Nat \ {0}
  /\ rows \subseteq Portfolios /\ IsFiniteSet(rows)
  /\ \A r \in rows : r.id \in 2..lastId
  /\ \A p, r \in rows : p.id = r.id \/ p.slug = r.slug => p = r
SatTypes ==
  /\ spawned \in Seq(Portfolios)
  /\ \A n \in DOMAIN spawned : spawned[n].id \in 2..lastId
  /\ sats \in [Slugs -> 0..Len(spawned)]
  /\ others \in [Slugs -> 0..Len(spawned)]
  /\ runnerPub \subseteq DOMAIN spawned /\ remembers \subseteq DOMAIN spawned
LinkTypes ==
  /\ link \in Seq({"down", "open", "closed"}) /\ Len(link) = Len(spawned)
  /\ call \in Seq({"idle", "due", "taken"}) /\ Len(call) = Len(spawned)
  /\ daily \in DailyRuns
  /\ daily.left \subseteq DOMAIN spawned
  /\ daily.at \in {"publish", "taken"} => daily.sat \in DOMAIN spawned
RequestTypes ==
  /\ req \in [Clients -> Requests]
  /\ \A c \in Clients :
       /\ req[c].at # "idle" => req[c].slug \in Slugs
       /\ req[c].at \in Found => req[c].id \in 2..lastId
       /\ req[c].at \in Holding => req[c].sat \in DOMAIN spawned
TopicTypes == topic \in [Slugs -> 0..lastId]

Types == RowTypes /\ SatTypes /\ LinkTypes /\ RequestTypes /\ TopicTypes

(* The portfolio a request has found.                                      *)
Row(c) == [id |-> req[c].id, slug |-> req[c].slug]

(* An id names one portfolio for good, wherever it is kept.                *)
Held ==
  rows \cup {spawned[n] : n \in DOMAIN spawned}
       \cup {Row(c) : c \in {d \in Clients : req[d].at \in Found}}
Names ==
  /\ \A p, q \in Held : p.id = q.id => p.slug = q.slug
  /\ \A p \in Held, s \in Slugs : topic[s] = p.id => s = p.slug

-----------------------------------------------------------------------------
(* One request at a time.                                                  *)
Alone == \A c, d \in Clients : req[c].at # "idle" /\ req[d].at # "idle" => c = d

(* What a request knows of the portfolio in its hands.                     *)
InHand(c) ==
  /\ req[c].at \in Found => Row(c) \in rows
  /\ req[c].at = "readback" => SlugTaken(req[c].slug)
  /\ req[c].at \in {"readback", "spawn", "detach", "forget", "clear", "close", "erase"} =>
       sats[req[c].slug] = 0 /\ others[req[c].slug] = 0
  /\ req[c].at \in {"hook", "remove"} =>
       sats[req[c].slug] = 0 /\ others[req[c].slug] = req[c].sat
  /\ req[c].at \in Holding => spawned[req[c].sat] = Row(c)
  /\ req[c].at \in {"clear", "close"} /\ req[c].sat \in remembers => req[c].id \in late

Busy(s, places) == \E c \in Clients : req[c].slug = s /\ req[c].at \in places

\* Where the fleet is ahead of the hub, where a row may be without a
\* satellite, and where its document may be with the broker.
Placing == {"hook", "remove"}
Owning == Found \cup {"readback"}
Answering == {"hook", "remove", "detach", "forget", "clear"}

Served(s) ==
  /\ sats[s] # 0 =>
       /\ others[s] = sats[s]
       /\ spawned[sats[s]] \in rows /\ spawned[sats[s]].slug = s
  /\ sats[s] = 0 =>
       /\ others[s] = 0 \/ Busy(s, Placing)
       /\ \A r \in rows : r.slug = s => r.id \in halfAdded \/ Busy(s, Owning)

(* A connection that is not closed is that of a satellite of the hub, or   *)
(* of one that a request puts into the hub or takes apart.                 *)
InUse(n) ==
  \/ sats[spawned[n].slug] = n
  \/ \E c \in Clients : req[c].at \in Holding /\ req[c].sat = n
Linked == \A n \in DOMAIN spawned : link[n] # "closed" => InUse(n)

Excused == late \cup unerased
Accounted(s) == topic[s] = 0 \/ HasRow(topic[s]) \/ topic[s] \in Excused
Answered(r) ==
  topic[r.slug] = r.id =>
    r.id \in Excused \/ sats[r.slug] # 0 \/ Busy(r.slug, Answering)

InHands == \A c \in Clients : InHand(c)
AllServed == \A s \in Slugs : Served(s)
AllAccounted == \A s \in Slugs : Accounted(s)
AllAnswered == \A r \in rows : Answered(r)

OneInv ==
  Alone /\ InHands /\ AllServed /\ Linked /\ AllAccounted /\ AllAnswered

-----------------------------------------------------------------------------
(* Lemmas about how a request goes on.                                     *)

Moves(c, place, slug, id, sat) ==
  /\ req' \in [Clients -> Requests]
  /\ \A d \in Clients \ {c} : req'[d] = req[d]
  /\ req'[c].at = place /\ req'[c].slug = slug /\ req'[c].id = id /\ req'[c].sat = sat

(* A request whose record is given a new value.                            *)
LEMMA Given ==
  ASSUME NEW c \in Clients, NEW r \in Requests, req \in [Clients -> Requests],
         req' = [req EXCEPT ![c] = r]
  PROVE  Moves(c, r.at, r.slug, r.id, r.sat)
<1>1. req' \in [Clients -> Requests]
  OBVIOUS
<1>2. \A d \in Clients \ {c} : req'[d] = req[d]
  OBVIOUS
<1>3. req'[c] = r
  OBVIOUS
<1> QED
  BY <1>1, <1>2, <1>3 DEF Moves

(* Goes: only the place changes.                                           *)
LEMMA GoesOn ==
  ASSUME NEW c \in Clients, NEW place \in Places, req \in [Clients -> Requests],
         Goes(c, place)
  PROVE  Moves(c, place, req[c].slug, req[c].id, req[c].sat)
<1> DEFINE old == req[c]
<1> DEFINE r == [old EXCEPT !.at = place]
<1>1. old \in Requests
  OBVIOUS
<1>2. req' = [req EXCEPT ![c] = r]
  BY DEF Goes
<1> HIDE DEF old
<1>3. r \in Requests
  BY ONLY <1>1, place \in Places DEF Requests
<1>4. r.at = place /\ r.slug = old.slug /\ r.id = old.id /\ r.sat = old.sat
  BY <1>1 DEF Requests
<1> HIDE DEF r
<1>5. Moves(c, r.at, r.slug, r.id, r.sat)
  BY <1>2, <1>3, Given
<1> QED
  BY <1>4, <1>5 DEF old

(* Ends: the request is answered.                                          *)
LEMMA Answer ==
  ASSUME NEW c \in Clients, req \in [Clients -> Requests], Ends(c)
  PROVE  Moves(c, "idle", "", 0, 0)
<1>1. NoRequest \in Requests
  BY DEF NoRequest, Requests, Places
<1>2. req' = [req EXCEPT ![c] = NoRequest]
  BY DEF Ends
<1>3. Moves(c, NoRequest.at, NoRequest.slug, NoRequest.id, NoRequest.sat)
  BY <1>1, <1>2, Given
<1> QED
  BY <1>3 DEF NoRequest

(* The place and the id change: ReadBack and Find.                         *)
LEMMA Finds ==
  ASSUME NEW c \in Clients, NEW place \in Places, NEW i \in Nat,
         req \in [Clients -> Requests],
         req' = [req EXCEPT ![c].at = place, ![c].id = i]
  PROVE  Moves(c, place, req[c].slug, i, req[c].sat)
<1> DEFINE old == req[c]
<1> DEFINE r == [old EXCEPT !.at = place, !.id = i]
<1>1. old \in Requests
  OBVIOUS
<1>2. req' = [req EXCEPT ![c] = r]
  OBVIOUS
<1> HIDE DEF old
<1>3. r \in Requests
  BY <1>1 DEF Requests
<1>4. r.at = place /\ r.slug = old.slug /\ r.id = i /\ r.sat = old.sat
  BY <1>1 DEF Requests
<1> HIDE DEF r
<1>5. Moves(c, r.at, r.slug, r.id, r.sat)
  BY <1>2, <1>3, Given
<1> QED
  BY <1>4, <1>5 DEF old

(* The place and the satellite change: Spawn and Unhook.                   *)
LEMMA Takes ==
  ASSUME NEW c \in Clients, NEW place \in Places, NEW n \in Nat,
         req \in [Clients -> Requests],
         \/ req' = [req EXCEPT ![c].at = place, ![c].sat = n]
         \/ req' = [req EXCEPT ![c].sat = n, ![c].at = place]
  PROVE  Moves(c, place, req[c].slug, req[c].id, n)
<1> DEFINE old == req[c]
<1> DEFINE r == [old EXCEPT !.at = place, !.sat = n]
<1>1. old \in Requests
  OBVIOUS
<1>2. [old EXCEPT !.sat = n, !.at = place] = r
  BY ONLY <1>1 DEF Requests
<1>3. req' = [req EXCEPT ![c] = r]
  BY <1>2
<1> HIDE DEF old
<1>4. r \in Requests
  BY <1>1 DEF Requests
<1>5. r.at = place /\ r.slug = old.slug /\ r.id = old.id /\ r.sat = n
  BY <1>1 DEF Requests
<1> HIDE DEF r
<1>6. Moves(c, r.at, r.slug, r.id, r.sat)
  BY <1>3, <1>4, Given
<1> QED
  BY <1>5, <1>6 DEF old

(* SetToSeq lists a finite set, each member once.                          *)
LEMMA Listed ==
  ASSUME NEW S, IsFiniteSet(S)
  PROVE  /\ SetToSeq(S) \in Seq(S)
         /\ \A x \in S : \E n \in DOMAIN SetToSeq(S) : SetToSeq(S)[n] = x
         /\ \A m, n \in DOMAIN SetToSeq(S) : SetToSeq(S)[m] = SetToSeq(S)[n] => m = n
<1> DEFINE N == Cardinality(S)
<1>1. N \in Nat /\ ExistsBijection(1..N, S)
  BY FS_CardinalityType
<1>2. \E f \in [1..N -> S] : IsInjective(f)
  BY <1>1 DEF ExistsBijection, Bijection, Injection
<1>3. SetToSeq(S) \in [1..N -> S] /\ IsInjective(SetToSeq(S))
  BY <1>2 DEF SetToSeq
<1>4. IsFiniteSet(1..N) /\ Cardinality(1..N) = N
  BY <1>1, FS_Interval
<1>5. SetToSeq(S) \in Injection(1..N, S)
  BY <1>3 DEF Injection
<1>6. SetToSeq(S) \in Surjection(1..N, S)
  BY <1>4, <1>5, FS_Injection
<1> QED
  BY <1>1, <1>3, <1>6 DEF Surjection, IsInjective


(* Lemmas *)

-----------------------------------------------------------------------------
(* Every step keeps the types.                                             *)

(* The parts of the types an action leaves alone.                          *)
LEMMA TypesAlone ==
  ASSUME Types
  PROVE  /\ UNCHANGED <<limits, lastId, rows>> => RowTypes'
         /\ UNCHANGED <<lastId, spawned, sats, others, runnerPub, remembers>> => SatTypes'
         /\ UNCHANGED <<spawned, link, call, daily>> => LinkTypes'
         /\ UNCHANGED <<lastId, spawned, req>> => RequestTypes'
         /\ UNCHANGED <<lastId, topic>> => TopicTypes'
<1>1. UNCHANGED <<limits, lastId, rows>> => RowTypes'
  BY DEF Types, RowTypes
<1>2. UNCHANGED <<lastId, spawned, sats, others, runnerPub, remembers>> => SatTypes'
  BY DEF Types, SatTypes
<1>3. UNCHANGED <<spawned, link, call, daily>> => LinkTypes'
  BY DEF Types, LinkTypes
<1>4. UNCHANGED <<lastId, spawned, req>> => RequestTypes'
  BY DEF Types, RequestTypes
<1>5. UNCHANGED <<lastId, topic>> => TopicTypes'
  BY DEF Types, TopicTypes
<1> QED
  BY <1>1, <1>2, <1>3, <1>4, <1>5

(* What a request that moves must bring along.                             *)
LEMMA RequestMoves ==
  ASSUME Types, NEW c \in Clients, NEW place, NEW slug, NEW id, NEW sat,
         Moves(c, place, slug, id, sat),
         spawned' = spawned \/ (Len(spawned') = Len(spawned) + 1 /\ spawned' \in Seq(Portfolios)),
         lastId' = lastId \/ lastId' = lastId + 1,
         place # "idle" => slug \in Slugs,
         place \in Found => id \in 2..lastId,
         place \in Holding => sat \in DOMAIN spawned'
  PROVE  RequestTypes'
<1>1. \A i : i \in 2..lastId => i \in 2..lastId'
  BY DEF Types, RowTypes
<1>2. DOMAIN spawned \subseteq DOMAIN spawned'
  <2>1. DOMAIN spawned = 1..Len(spawned) /\ Len(spawned) \in Nat
    BY DEF Types, SatTypes
  <2>2. DOMAIN spawned' = 1..Len(spawned') \/ spawned' = spawned
    OBVIOUS
  <2> QED
    BY <2>1, <2>2
<1>3. \A d \in Clients \ {c} :
        /\ req'[d].at # "idle" => req'[d].slug \in Slugs
        /\ req'[d].at \in Found => req'[d].id \in 2..lastId'
        /\ req'[d].at \in Holding => req'[d].sat \in DOMAIN spawned'
  BY <1>1, <1>2 DEF Types, RequestTypes, Moves
<1>4. /\ req'[c].at # "idle" => req'[c].slug \in Slugs
      /\ req'[c].at \in Found => req'[c].id \in 2..lastId'
      /\ req'[c].at \in Holding => req'[c].sat \in DOMAIN spawned'
  BY <1>1 DEF Moves
<1>5. req' \in [Clients -> Requests]
  BY DEF Moves
<1> QED
  BY <1>3, <1>4, <1>5 DEF RequestTypes

-----------------------------------------------------------------------------
(* What becomes of the request that acts.                                  *)

LEMMA FoundRow ==
  ASSUME NEW s, SlugTaken(s)
  PROVE  RowOf(s) \in rows /\ RowOf(s).slug = s
  BY DEF SlugTaken, RowOf

LEMMA Asks ==
  ASSUME Types, NEW c \in Clients, NEW s \in Slugs, NEW place \in {"insert", "find"},
         Request(c, place, s)
  PROVE  Moves(c, place, s, 0, 0)
<1> DEFINE r == [NoRequest EXCEPT !.at = place, !.slug = s]
<1>1. r \in Requests
  BY DEF NoRequest, Requests, Places
<1>2. r.at = place /\ r.slug = s /\ r.id = 0 /\ r.sat = 0
  BY DEF NoRequest
<1>3. req \in [Clients -> Requests] /\ req' = [req EXCEPT ![c] = r]
  BY DEF Request, Types, RequestTypes
<1> HIDE DEF r
<1>4. Moves(c, r.at, r.slug, r.id, r.sat)
  BY <1>1, <1>3, Given
<1> QED
  BY <1>2, <1>4

LEMMA AddGoesOn ==
  ASSUME Types, NEW c \in Clients, AddPortfolio(c)
  PROVE  \/ /\ SlugTaken(req[c].slug) /\ UNCHANGED storeVars
            /\ Moves(c, "idle", "", 0, 0)
         \/ /\ ~SlugTaken(req[c].slug)
            /\ lastId' = lastId + 1
            /\ rows' = rows \cup {[id |-> lastId + 1, slug |-> req[c].slug]}
            /\ Moves(c, "readback", req[c].slug, req[c].id, req[c].sat)
<1>1. req \in [Clients -> Requests] /\ "readback" \in Places
  BY DEF Types, RequestTypes, Places
<1>2. CASE SlugTaken(req[c].slug) /\ Ends(c) /\ UNCHANGED storeVars
  BY <1>1, <1>2, Answer
<1>3. CASE /\ ~SlugTaken(req[c].slug)
           /\ lastId' = lastId + 1
           /\ rows' = rows \cup {[id |-> lastId + 1, slug |-> req[c].slug]}
           /\ Goes(c, "readback")
  BY <1>1, <1>3, GoesOn
<1> QED
  BY <1>2, <1>3 DEF AddPortfolio

LEMMA ReadBackGoesOn ==
  ASSUME Types, NEW c \in Clients, ReadBack(c)
  PROVE  \/ /\ SlugTaken(req[c].slug) /\ UNCHANGED halfAdded
            /\ Moves(c, "spawn", req[c].slug, RowOf(req[c].slug).id, req[c].sat)
         \/ /\ ~SlugTaken(req[c].slug) /\ UNCHANGED halfAdded
            /\ Moves(c, "idle", "", 0, 0)
         \/ /\ SlugTaken(req[c].slug)
            /\ halfAdded' = halfAdded \cup {RowOf(req[c].slug).id}
            /\ Moves(c, "idle", "", 0, 0)
<1>1. req \in [Clients -> Requests] /\ "spawn" \in Places
  BY DEF Types, RequestTypes, Places
<1>2. ASSUME SlugTaken(req[c].slug) PROVE RowOf(req[c].slug).id \in Nat
  BY <1>2, FoundRow DEF Types, RowTypes, Portfolios
<1>3. CASE /\ SlugTaken(req[c].slug)
           /\ req' = [req EXCEPT ![c].at = "spawn", ![c].id = RowOf(req[c].slug).id]
           /\ UNCHANGED <<halfAdded, faults>>
  <2> DEFINE i == RowOf(req[c].slug).id
  <2>1. i \in Nat
    BY <1>2, <1>3
  <2>2. req' = [req EXCEPT ![c].at = "spawn", ![c].id = i]
    BY <1>3
  <2> HIDE DEF i
  <2>3. Moves(c, "spawn", req[c].slug, i, req[c].sat)
    BY <1>1, <2>1, <2>2, Finds
  <2> QED
    BY <1>3, <2>3 DEF i
<1>4. CASE ~SlugTaken(req[c].slug) /\ Ends(c) /\ UNCHANGED <<halfAdded, faults>>
  BY <1>1, <1>4, Answer
<1>5. CASE /\ SlugTaken(req[c].slug) /\ Fault
           /\ halfAdded' = halfAdded \cup {RowOf(req[c].slug).id}
           /\ Ends(c)
  BY <1>1, <1>5, Answer
<1> QED
  BY <1>3, <1>4, <1>5 DEF ReadBack

LEMMA FindGoesOn ==
  ASSUME Types, NEW c \in Clients, Find(c)
  PROVE  \/ /\ SlugTaken(req[c].slug)
            /\ Moves(c, "unhook", req[c].slug, RowOf(req[c].slug).id, req[c].sat)
         \/ /\ ~SlugTaken(req[c].slug)
            /\ Moves(c, "idle", "", 0, 0)
<1>1. req \in [Clients -> Requests] /\ "unhook" \in Places
  BY DEF Types, RequestTypes, Places
<1>2. CASE /\ SlugTaken(req[c].slug)
           /\ req' = [req EXCEPT ![c].at = "unhook", ![c].id = RowOf(req[c].slug).id]
  <2> DEFINE i == RowOf(req[c].slug).id
  <2>1. i \in Nat
    BY <1>2, FoundRow DEF Types, RowTypes, Portfolios
  <2>2. req' = [req EXCEPT ![c].at = "unhook", ![c].id = i]
    BY <1>2
  <2> HIDE DEF i
  <2>3. Moves(c, "unhook", req[c].slug, i, req[c].sat)
    BY <1>1, <2>1, <2>2, Finds
  <2> QED
    BY <1>2, <2>3 DEF i
<1>3. CASE ~SlugTaken(req[c].slug) /\ Ends(c)
  BY <1>1, <1>3, Answer
<1> QED
  BY <1>2, <1>3 DEF Find

LEMMA SpawnGoesOn ==
  ASSUME Types, NEW c \in Clients, Spawn(c)
  PROVE  Moves(c, "hook", req[c].slug, req[c].id, Len(spawned) + 1)
<1> DEFINE n == Len(spawned) + 1
<1>1. req \in [Clients -> Requests] /\ "hook" \in Places /\ n \in Nat
  BY DEF Types, RequestTypes, SatTypes, Places
<1>2. req' = [req EXCEPT ![c].at = "hook", ![c].sat = n]
  BY DEF Spawn
<1> HIDE DEF n
<1>3. Moves(c, "hook", req[c].slug, req[c].id, n)
  BY <1>1, <1>2, Takes
<1> QED
  BY <1>3 DEF n

LEMMA UnhookGoesOn ==
  ASSUME Types, NEW c \in Clients, Unhook(c)
  PROVE  \/ /\ sats[req[c].slug] = 0
            /\ Moves(c, "erase", req[c].slug, req[c].id, 0)
         \/ /\ sats[req[c].slug] # 0
            /\ Moves(c, "remove", req[c].slug, req[c].id, sats[req[c].slug])
<1> DEFINE n == sats[req[c].slug]
           place == IF n = 0 THEN "erase" ELSE "remove"
<1>1. req[c].slug \in Slugs
  BY DEF Unhook, Types, RequestTypes
<1>2. Len(spawned) \in Nat
  BY DEF Types, SatTypes
<1>3. n \in Nat
  BY <1>1, <1>2 DEF Types, SatTypes
<1>4. req \in [Clients -> Requests] /\ place \in Places
  BY DEF Types, RequestTypes, Places
<1>5. req' = [req EXCEPT ![c].sat = n, ![c].at = place]
  BY DEF Unhook
<1>6. (n = 0 => place = "erase") /\ (n # 0 => place = "remove")
  OBVIOUS
<1> HIDE DEF n, place
<1>7. Moves(c, place, req[c].slug, req[c].id, n)
  BY <1>3, <1>4, <1>5, Takes
<1> QED
  BY <1>6, <1>7 DEF n

LEMMA RetireGoesOn ==
  ASSUME Types, NEW c \in Clients
  PROVE  /\ Hook(c) => Moves(c, "idle", "", 0, 0)
         /\ FleetRemove(c) => Moves(c, "detach", req[c].slug, req[c].id, req[c].sat)
         /\ Detach(c) => Moves(c, "forget", req[c].slug, req[c].id, req[c].sat)
         /\ RetireForgets(c) => Moves(c, "clear", req[c].slug, req[c].id, req[c].sat)
         /\ RetireClears(c) => Moves(c, "close", req[c].slug, req[c].id, req[c].sat)
         /\ RetireCloses(c) => Moves(c, "erase", req[c].slug, req[c].id, req[c].sat)
<1>1. req \in [Clients -> Requests]
  BY DEF Types, RequestTypes
<1>2. {"detach", "forget", "clear", "close", "erase"} \subseteq Places
  BY DEF Places
<1>3. Hook(c) => Moves(c, "idle", "", 0, 0)
  BY <1>1, Answer DEF Hook
<1>4. FleetRemove(c) => Moves(c, "detach", req[c].slug, req[c].id, req[c].sat)
  BY <1>1, <1>2, GoesOn DEF FleetRemove
<1>5. Detach(c) => Moves(c, "forget", req[c].slug, req[c].id, req[c].sat)
  BY <1>1, <1>2, GoesOn DEF Detach
<1>6. RetireForgets(c) => Moves(c, "clear", req[c].slug, req[c].id, req[c].sat)
  BY <1>1, <1>2, GoesOn DEF RetireForgets
<1>7. RetireClears(c) => Moves(c, "close", req[c].slug, req[c].id, req[c].sat)
  BY <1>1, <1>2, GoesOn DEF RetireClears
<1>8. RetireCloses(c) => Moves(c, "erase", req[c].slug, req[c].id, req[c].sat)
  BY <1>1, <1>2, GoesOn DEF RetireCloses
<1> QED
  BY <1>3, <1>4, <1>5, <1>6, <1>7, <1>8

LEMMA DeleteGoesOn ==
  ASSUME Types, NEW c \in Clients, DeletePortfolio(c)
  PROVE  \/ /\ HasRow(req[c].id) /\ rows' = {r \in rows : r.id # req[c].id}
            /\ Moves(c, "idle", "", 0, 0)
         \/ /\ UNCHANGED rows
            /\ Moves(c, "spawn", req[c].slug, req[c].id, req[c].sat)
<1>1. req \in [Clients -> Requests] /\ "spawn" \in Places
  BY DEF Types, RequestTypes, Places
<1>2. CASE /\ HasRow(req[c].id) /\ rows' = {r \in rows : r.id # req[c].id} /\ Ends(c)
  BY <1>1, <1>2, Answer
<1>3. CASE Goes(c, "spawn") /\ UNCHANGED rows
  BY <1>1, <1>3, GoesOn
<1> QED
  BY <1>2, <1>3 DEF DeletePortfolio

-----------------------------------------------------------------------------
(* Every step keeps the types.                                             *)

LEMMA RequestKeepsTypes ==
  ASSUME Types, NEW c \in Clients, NEW s \in Slugs, NEW place \in {"insert", "find"},
         Request(c, place, s)
  PROVE  Types'
<1>1. RequestTypes'
  BY Asks, RequestMoves DEF Request, storeVars, Found, Holding
<1> QED
  BY <1>1, TypesAlone DEF Request, Types, storeVars, hubVars, satVars, historyVars

LEMMA AddKeepsTypes ==
  ASSUME Types, NEW c \in Clients, AddPortfolio(c)
  PROVE  Types'
<1> DEFINE new == [id |-> lastId + 1, slug |-> req[c].slug]
<1>1. req[c].slug \in Slugs
  BY DEF AddPortfolio, Types, RequestTypes
<1>2. lastId \in Nat \ {0}
  BY DEF Types, RowTypes
<1>3. UNCHANGED <<spawned, sats, others, runnerPub, remembers, link, call, daily, topic, limits>>
  BY DEF AddPortfolio, hubVars, satVars, countVars
<1>4. CASE /\ UNCHANGED storeVars /\ Moves(c, "idle", "", 0, 0)
  <2>1. RequestTypes'
    BY <1>3, <1>4, RequestMoves DEF storeVars, Found, Holding
  <2> QED
    BY <1>3, <1>4, <2>1, TypesAlone DEF Types, storeVars
<1>5. CASE /\ ~SlugTaken(req[c].slug)
           /\ lastId' = lastId + 1 /\ rows' = rows \cup {new}
           /\ Moves(c, "readback", req[c].slug, req[c].id, req[c].sat)
  <2>1. RequestTypes'
    BY <1>1, <1>3, <1>5, RequestMoves DEF Found, Holding
  <2>2. new \in Portfolios /\ new.id = lastId + 1 /\ new.slug = req[c].slug
    BY <1>1, <1>2 DEF Portfolios
  <2> HIDE DEF new
  <2>3. rows' \subseteq Portfolios /\ IsFiniteSet(rows')
    BY <1>5, <2>2, FS_AddElement DEF Types, RowTypes
  <2>4. \A r \in rows' : r.id \in 2..lastId'
    BY <1>2, <1>5, <2>2 DEF Types, RowTypes
  <2>5. \A r \in rows : r.id # new.id /\ r.slug # new.slug
    BY <1>2, <1>5, <2>2 DEF Types, RowTypes, SlugTaken
  <2>6. \A p, r \in rows' : p.id = r.id \/ p.slug = r.slug => p = r
    BY <1>5, <2>5 DEF Types, RowTypes
  <2>7. limits' \in Limits /\ lastId' \in Nat \ {0}
    BY <1>2, <1>3, <1>5 DEF Types, RowTypes
  <2>8. RowTypes'
    BY <2>3, <2>4, <2>6, <2>7 DEF RowTypes
  <2>9. \A i \in 0..lastId : i \in 0..lastId'
    BY <1>2, <1>5
  <2>10. TopicTypes'
    BY <1>3, <2>9 DEF Types, TopicTypes
  <2>11. \A i \in 2..lastId : i \in 2..lastId'
    BY <1>2, <1>5
  <2>12. SatTypes'
    BY <1>3, <2>11 DEF Types, SatTypes
  <2> QED
    BY <1>3, <2>1, <2>8, <2>10, <2>12, TypesAlone DEF Types
<1> QED
  BY <1>4, <1>5, AddGoesOn

LEMMA ReadBackKeepsTypes ==
  ASSUME Types, NEW c \in Clients, ReadBack(c)
  PROVE  Types'
<1>1. UNCHANGED <<rows, lastId, spawned, sats, others, runnerPub, remembers, link, call, daily,
                  topic, limits>>
  BY DEF ReadBack, storeVars, hubVars, satVars
<1>2. req[c].slug \in Slugs
  BY DEF ReadBack, Types, RequestTypes
<1>3. SlugTaken(req[c].slug) => RowOf(req[c].slug).id \in 2..lastId
  BY FoundRow DEF Types, RowTypes
<1>4. RequestTypes'
  <2>1. CASE Moves(c, "idle", "", 0, 0)
    BY <1>1, <2>1, RequestMoves DEF Found, Holding
  <2>2. CASE /\ SlugTaken(req[c].slug)
             /\ Moves(c, "spawn", req[c].slug, RowOf(req[c].slug).id, req[c].sat)
    BY <1>1, <1>2, <1>3, <2>2, RequestMoves DEF Found, Holding
  <2> QED
    BY <2>1, <2>2, ReadBackGoesOn
<1> QED
  BY <1>1, <1>4, TypesAlone DEF Types

LEMMA FindKeepsTypes ==
  ASSUME Types, NEW c \in Clients, Find(c)
  PROVE  Types'
<1>1. UNCHANGED <<rows, lastId, spawned, sats, others, runnerPub, remembers, link, call, daily,
                  topic, limits>>
  BY DEF Find, storeVars, hubVars, satVars, countVars
<1>2. req[c].slug \in Slugs
  BY DEF Find, Types, RequestTypes
<1>3. SlugTaken(req[c].slug) => RowOf(req[c].slug).id \in 2..lastId
  BY FoundRow DEF Types, RowTypes
<1>4. RequestTypes'
  <2>1. CASE Moves(c, "idle", "", 0, 0)
    BY <1>1, <2>1, RequestMoves DEF Found, Holding
  <2>2. CASE /\ SlugTaken(req[c].slug)
             /\ Moves(c, "unhook", req[c].slug, RowOf(req[c].slug).id, req[c].sat)
    BY <1>1, <1>2, <1>3, <2>2, RequestMoves DEF Found, Holding
  <2> QED
    BY <2>1, <2>2, FindGoesOn
<1> QED
  BY <1>1, <1>4, TypesAlone DEF Types

LEMMA SpawnKeepsTypes ==
  ASSUME Types, NEW c \in Clients, Spawn(c)
  PROVE  Types'
<1> DEFINE n == Len(spawned) + 1
           new == [id |-> req[c].id, slug |-> req[c].slug]
<1>1. UNCHANGED <<rows, lastId, sats, remembers, daily, topic, limits>>
  BY DEF Spawn, storeVars, countVars
<1>2. req[c].at = "spawn" /\ req[c].slug \in Slugs /\ req[c].id \in 2..lastId
  BY DEF Spawn, Types, RequestTypes, Found
<1>3. lastId \in Nat \ {0} /\ spawned \in Seq(Portfolios) /\ Len(spawned) \in Nat
  BY DEF Types, RowTypes, SatTypes
<1>4. new \in Portfolios /\ new.id = req[c].id
  BY <1>2, <1>3 DEF Portfolios
<1>5. /\ spawned' = Append(spawned, new) /\ others' = [others EXCEPT ![req[c].slug] = n]
      /\ runnerPub' = runnerPub \cup {n}
      /\ link' = Append(link, "down") /\ call' = Append(call, "due")
  BY DEF Spawn
<1> HIDE DEF new
<1>6. /\ spawned' \in Seq(Portfolios) /\ Len(spawned') = Len(spawned) + 1
      /\ DOMAIN spawned' = 1..Len(spawned) + 1 /\ DOMAIN spawned = 1..Len(spawned)
      /\ \A m \in DOMAIN spawned : spawned'[m] = spawned[m]
      /\ spawned'[Len(spawned) + 1] = new
  BY <1>3, <1>4, <1>5
<1>7. SatTypes'
  <2>1. \A m \in DOMAIN spawned' : spawned'[m].id \in 2..lastId'
    BY <1>1, <1>2, <1>3, <1>4, <1>6 DEF Types, SatTypes
  <2>2. 0..Len(spawned) \subseteq 0..Len(spawned') /\ n \in 0..Len(spawned')
    BY <1>3, <1>6
  <2>3. sats' \in [Slugs -> 0..Len(spawned')]
    BY <1>1, <2>2 DEF Types, SatTypes
  <2>4. others' \in [Slugs -> 0..Len(spawned')]
    BY <1>2, <1>5, <2>2 DEF Types, SatTypes
  <2>5. runnerPub' \subseteq DOMAIN spawned' /\ remembers' \subseteq DOMAIN spawned'
    BY <1>1, <1>3, <1>5, <1>6 DEF Types, SatTypes
  <2> QED
    BY <1>6, <2>1, <2>3, <2>4, <2>5 DEF SatTypes
<1>8. LinkTypes'
  <2>1. link' \in Seq({"down", "open", "closed"}) /\ Len(link') = Len(spawned')
    BY <1>5, <1>6 DEF Types, LinkTypes
  <2>2. call' \in Seq({"idle", "due", "taken"}) /\ Len(call') = Len(spawned')
    BY <1>5, <1>6 DEF Types, LinkTypes
  <2>3. /\ daily' \in DailyRuns /\ daily'.left \subseteq DOMAIN spawned'
        /\ daily'.at \in {"publish", "taken"} => daily'.sat \in DOMAIN spawned'
    BY <1>1, <1>3, <1>6 DEF Types, LinkTypes
  <2> QED
    BY <2>1, <2>2, <2>3 DEF LinkTypes
<1>9. RequestTypes'
  <2>1. n \in DOMAIN spawned'
    BY <1>3, <1>6
  <2>2. Moves(c, "hook", req[c].slug, req[c].id, n)
    BY SpawnGoesOn
  <2> HIDE DEF n
  <2> QED
    BY <1>1, <1>2, <1>6, <2>1, <2>2, RequestMoves DEF Found
<1> QED
  BY <1>1, <1>7, <1>8, <1>9, TypesAlone DEF Types

LEMMA HookKeepsTypes ==
  ASSUME Types, NEW c \in Clients, Hook(c)
  PROVE  Types'
<1>1. UNCHANGED <<rows, lastId, spawned, others, runnerPub, remembers, link, call, daily, topic,
                  limits>>
  BY DEF Hook, storeVars, satVars, countVars
<1>2. RequestTypes'
  BY <1>1, RetireGoesOn, RequestMoves DEF Found, Holding
<1>3. req[c].sat \in 0..Len(spawned)
  BY DEF Hook, Types, RequestTypes, SatTypes, Holding
<1>4. sats' \in [Slugs -> 0..Len(spawned)]
  BY <1>3 DEF Hook, Types, SatTypes
<1>5. SatTypes'
  BY <1>1, <1>4 DEF Types, SatTypes
<1> QED
  BY <1>1, <1>2, <1>5, TypesAlone DEF Types

LEMMA UnhookKeepsTypes ==
  ASSUME Types, NEW c \in Clients, Unhook(c)
  PROVE  Types'
<1>1. UNCHANGED <<rows, lastId, spawned, others, runnerPub, remembers, link, call, daily, topic,
                  limits>>
  BY DEF Unhook, storeVars, satVars, countVars
<1>2. req[c].slug \in Slugs /\ req[c].id \in 2..lastId
  BY DEF Unhook, Types, RequestTypes, Found
<1>3. sats[req[c].slug] \in 0..Len(spawned) /\ Len(spawned) \in Nat
  BY <1>2 DEF Types, SatTypes
<1>4. DOMAIN spawned = 1..Len(spawned)
  BY DEF Types, SatTypes
<1>5. RequestTypes'
  <2>1. CASE Moves(c, "erase", req[c].slug, req[c].id, 0)
    BY <1>1, <1>2, <2>1, RequestMoves DEF Holding
  <2>2. CASE /\ sats[req[c].slug] # 0
             /\ Moves(c, "remove", req[c].slug, req[c].id, sats[req[c].slug])
    <3>1. sats[req[c].slug] \in DOMAIN spawned
      BY <1>3, <1>4, <2>2
    <3> QED
      BY <1>1, <1>2, <2>2, <3>1, RequestMoves
  <2> QED
    BY <2>1, <2>2, UnhookGoesOn
<1>6. sats' \in [Slugs -> 0..Len(spawned)]
  <2>1. 0 \in 0..Len(spawned)
    BY <1>3
  <2> QED
    BY <2>1 DEF Unhook, Types, SatTypes
<1>7. SatTypes'
  BY <1>1, <1>6 DEF Types, SatTypes
<1> QED
  BY <1>1, <1>5, <1>7, TypesAlone DEF Types

(* A request that goes on from a place to the next, with what it holds.    *)
LEMMA GoingOn ==
  ASSUME Types, NEW c \in Clients, NEW place,
         Moves(c, place, req[c].slug, req[c].id, req[c].sat),
         UNCHANGED <<lastId, spawned>>,
         req[c].at \in Found, place \in Holding => req[c].at \in Holding
  PROVE  RequestTypes'
<1>1. req[c].slug \in Slugs /\ req[c].id \in 2..lastId
  BY DEF Types, RequestTypes, Found
<1>2. place \in Holding => req[c].sat \in DOMAIN spawned
  BY DEF Types, RequestTypes
<1> QED
  BY <1>1, <1>2, RequestMoves

LEMMA FleetRemoveKeepsTypes ==
  ASSUME Types, NEW c \in Clients, FleetRemove(c)
  PROVE  Types'
<1>1. UNCHANGED <<rows, lastId, spawned, sats, runnerPub, remembers, link, call, daily, topic,
                  limits>>
  BY DEF FleetRemove, storeVars, satVars, countVars
<1>2. RequestTypes'
  BY <1>1, RetireGoesOn, GoingOn DEF FleetRemove, Found, Holding
<1>3. others' \in [Slugs -> 0..Len(spawned)]
  <2>1. 0 \in 0..Len(spawned)
    BY DEF Types, SatTypes
  <2> QED
    BY <2>1 DEF FleetRemove, Types, SatTypes
<1>4. SatTypes'
  BY <1>1, <1>3 DEF Types, SatTypes
<1> QED
  BY <1>1, <1>2, <1>4, TypesAlone DEF Types

LEMMA RetireKeepsTypes ==
  ASSUME Types, NEW c \in Clients,
         Detach(c) \/ RetireForgets(c) \/ RetireClears(c) \/ RetireCloses(c)
  PROVE  Types'
<1>1. UNCHANGED <<rows, lastId, spawned, sats, others, call, daily, limits>>
  BY DEF Detach, RetireForgets, RetireClears, RetireCloses, storeVars, hubVars, satVars, countVars
<1>2. RequestTypes'
  BY <1>1, RetireGoesOn, GoingOn
  DEF Detach, RetireForgets, RetireClears, RetireCloses, Found, Holding
<1>3. runnerPub' \subseteq runnerPub /\ remembers' \subseteq remembers
  BY DEF Detach, RetireForgets, RetireClears, RetireCloses, satVars
<1>4. SatTypes'
  BY <1>1, <1>3 DEF Types, SatTypes
<1>5. LinkTypes'
  <2>1. link' = link \/ link' = [link EXCEPT ![req[c].sat] = "closed"]
    BY DEF Detach, RetireForgets, RetireClears, RetireCloses, satVars
  <2>2. link' \in Seq({"down", "open", "closed"}) /\ Len(link') = Len(spawned)
    BY <2>1 DEF Types, LinkTypes
  <2> QED
    BY <1>1, <2>2 DEF Types, LinkTypes
<1>6. TopicTypes'
  <2>1. topic' = topic \/ topic' = [topic EXCEPT ![req[c].slug] = 0]
    BY DEF Detach, RetireForgets, RetireClears, RetireCloses
  <2>2. 0 \in 0..lastId
    BY DEF Types, RowTypes
  <2> QED
    BY <1>1, <2>1, <2>2 DEF Types, TopicTypes
<1> QED
  BY <1>1, <1>2, <1>4, <1>5, <1>6, TypesAlone DEF Types

LEMMA DeleteKeepsTypes ==
  ASSUME Types, NEW c \in Clients, DeletePortfolio(c)
  PROVE  Types'
<1>1. UNCHANGED <<lastId, spawned, sats, others, runnerPub, remembers, link, call, daily, topic,
                  limits>>
  BY DEF DeletePortfolio, hubVars, satVars
<1>2. req[c].at = "erase"
  BY DEF DeletePortfolio
<1>3. RequestTypes'
  <2>1. CASE Moves(c, "idle", "", 0, 0)
    BY <1>1, <2>1, RequestMoves DEF Found, Holding
  <2>2. CASE Moves(c, "spawn", req[c].slug, req[c].id, req[c].sat)
    BY <1>1, <1>2, <2>2, GoingOn DEF Found, Holding
  <2> QED
    BY <2>1, <2>2, DeleteGoesOn
<1>4. RowTypes'
  <2>1. rows' \subseteq rows
    BY DeleteGoesOn
  <2>2. IsFiniteSet(rows')
    BY <2>1, FS_Subset DEF Types, RowTypes
  <2> QED
    BY <1>1, <2>1, <2>2 DEF Types, RowTypes
<1> QED
  BY <1>1, <1>3, <1>4, TypesAlone DEF Types

LEMMA CallKeepsTypes ==
  ASSUME Types, (\E s \in Slugs : Mutate(s)) \/ (\E n \in DOMAIN spawned : TakePublisher(n))
  PROVE  Types'
<1>1. UNCHANGED <<rows, lastId, spawned, sats, others, runnerPub, remembers, link, daily, req,
                  topic, limits>>
  BY DEF Mutate, TakePublisher, storeVars, hubVars, satVars, countVars
<1>2. \E m, v : v \in {"idle", "due", "taken"} /\ call' = [call EXCEPT ![m] = v]
  BY DEF Mutate, TakePublisher
<1>3. call' \in Seq({"idle", "due", "taken"}) /\ Len(call') = Len(spawned)
  <2>1. PICK m, v : v \in {"idle", "due", "taken"} /\ call' = [call EXCEPT ![m] = v]
    BY <1>2
  <2>2. call \in Seq({"idle", "due", "taken"}) /\ Len(call) = Len(spawned)
    BY DEF Types, LinkTypes
  <2> DEFINE places == {"idle", "due", "taken"}
             N == Len(call)
  <2>3. N \in Nat /\ call \in [1..N -> places]
    BY ONLY <2>2
  <2> HIDE DEF N, places
  <2>4. call' \in [1..N -> places]
    BY <2>1, <2>3 DEF places
  <2>5. call' \in Seq(places) /\ Len(call') = N
    BY ONLY <2>3, <2>4
  <2> QED
    BY <2>2, <2>5 DEF places, N
<1>4. LinkTypes'
  BY <1>1, <1>3 DEF Types, LinkTypes
<1> QED
  BY <1>1, <1>4, TypesAlone DEF Types

(* A document in a publisher's hands changes the topic of its own slug.    *)
LEMMA OwnTopic ==
  ASSUME Types, NEW n \in DOMAIN spawned, UNCHANGED lastId,
         \/ topic' = topic
         \/ topic' = [topic EXCEPT ![spawned[n].slug] = spawned[n].id]
  PROVE  TopicTypes'
<1>1. spawned[n].id \in 2..lastId /\ lastId \in Nat
  BY DEF Types, SatTypes, RowTypes
<1>2. spawned[n].id \in 0..lastId
  BY <1>1
<1>3. topic' \in [Slugs -> 0..lastId]
  BY <1>2 DEF Types, TopicTypes
<1> QED
  BY <1>3 DEF TopicTypes

LEMMA HandedOver ==
  ASSUME Types, NEW n \in DOMAIN spawned, HandOver(n),
         UNCHANGED <<lastId, spawned, sats, others, runnerPub>>
  PROVE  SatTypes' /\ TopicTypes'
<1>1. SatTypes'
  BY DEF HandOver, Types, SatTypes
<1>2. TopicTypes'
  BY OwnTopic DEF HandOver
<1> QED
  BY <1>1, <1>2

LEMMA PublishKeepsTypes ==
  ASSUME Types, NEW n \in DOMAIN spawned, Publish(n)
  PROVE  Types'
<1>1. UNCHANGED <<rows, lastId, spawned, sats, others, runnerPub, link, daily, req, limits>>
  BY DEF Publish, storeVars, hubVars, countVars
<1>2. call' \in Seq({"idle", "due", "taken"}) /\ Len(call') = Len(spawned)
  BY DEF Publish, Types, LinkTypes
<1>3. LinkTypes'
  BY <1>1, <1>2 DEF Types, LinkTypes
<1>4. SatTypes' /\ TopicTypes'
  BY <1>1, HandedOver DEF Publish
<1> QED
  BY <1>1, <1>3, <1>4, TypesAlone DEF Types

LEMMA LinkKeepsTypes ==
  ASSUME Types, NEW n \in DOMAIN spawned, Connect(n) \/ Drop(n)
  PROVE  Types'
<1>1. UNCHANGED <<rows, lastId, spawned, sats, others, runnerPub, remembers, call, daily, req,
                  limits>>
  BY DEF Connect, Drop, storeVars, hubVars, countVars
<1>2. link' = [link EXCEPT ![n] = "open"] \/ link' = [link EXCEPT ![n] = "down"]
  BY DEF Connect, Drop
<1>3. link' \in Seq({"down", "open", "closed"}) /\ Len(link') = Len(spawned)
  BY <1>2 DEF Types, LinkTypes
<1>4. LinkTypes'
  BY <1>1, <1>3 DEF Types, LinkTypes
<1>5. TopicTypes'
  BY <1>1, OwnTopic DEF Connect, Drop
<1> QED
  BY <1>1, <1>4, <1>5, TypesAlone DEF Types

LEMMA DailyKeepsTypes ==
  ASSUME Types, DailyStart \/ DailyRun
  PROVE  Types'
<1>1. UNCHANGED <<rows, lastId, spawned, sats, others, runnerPub, link, call, req, limits>>
  BY DEF DailyStart, DailyRun, DailySnapshot, DailyTakesPublisher, DailyPublishes, DailyEnds,
         storeVars, hubVars, satVars, countVars
<1>2. DOMAIN spawned = 1..Len(spawned) /\ Len(spawned) \in Nat /\ daily \in DailyRuns
  BY DEF Types, SatTypes, LinkTypes
<1>3. CASE DailyStart
  <2> DEFINE runners == {others[s] : s \in Slugs} \ {0}
  <2>1. runners \subseteq DOMAIN spawned
    <3>1. \A s \in Slugs : others[s] \in 0..Len(spawned)
      BY DEF Types, SatTypes
    <3> QED
      BY <1>2, <3>1
  <2>2. runners \subseteq Nat
    BY <1>2, <2>1
  <2>3. daily' = [at |-> "next", left |-> runners, sat |-> 0]
    BY <1>3 DEF DailyStart
  <2> HIDE DEF runners
  <2>4. daily' \in DailyRuns /\ daily'.left = runners /\ daily'.at = "next"
    BY ONLY <2>2, <2>3 DEF DailyRuns
  <2>5. LinkTypes'
    BY <1>1, <2>1, <2>4 DEF Types, LinkTypes
  <2>6. UNCHANGED <<remembers, topic>>
    BY <1>3 DEF DailyStart, satVars
  <2> QED
    BY <1>1, <2>5, <2>6, TypesAlone DEF Types
<1>4. CASE DailySnapshot
  <2>1. PICK n \in daily.left :
          daily' = [at |-> "publish", left |-> daily.left \ {n}, sat |-> n]
    BY <1>4 DEF DailySnapshot
  <2>2. n \in DOMAIN spawned /\ daily.left \subseteq DOMAIN spawned
    BY <2>1 DEF Types, LinkTypes
  <2>3. n \in Nat /\ daily.left \subseteq Nat
    BY <1>2, <2>2
  <2>4. daily' \in DailyRuns /\ daily'.left \subseteq daily.left /\ daily'.sat = n
    BY ONLY <2>1, <2>3 DEF DailyRuns
  <2>5. LinkTypes'
    BY <1>1, <2>2, <2>4 DEF Types, LinkTypes
  <2>6. UNCHANGED <<remembers, topic>>
    BY <1>4 DEF DailySnapshot, satVars
  <2> QED
    BY <1>1, <2>5, <2>6, TypesAlone DEF Types
<1>5. CASE DailyTakesPublisher
  <2> DEFINE place == IF daily.sat \in runnerPub THEN "taken" ELSE "next"
  <2>1. daily.at = "publish" /\ daily' = [daily EXCEPT !.at = place]
    BY <1>5 DEF DailyTakesPublisher
  <2>2. place \in {"taken", "next"}
    OBVIOUS
  <2> HIDE DEF place
  <2>3. daily' \in DailyRuns /\ daily'.left = daily.left /\ daily'.sat = daily.sat
    BY ONLY <1>2, <2>1, <2>2 DEF DailyRuns
  <2>4. LinkTypes'
    BY <1>1, <2>1, <2>3 DEF Types, LinkTypes
  <2>5. UNCHANGED <<remembers, topic>>
    BY <1>5 DEF DailyTakesPublisher, satVars
  <2> QED
    BY <1>1, <2>4, <2>5, TypesAlone DEF Types
<1>6. CASE DailyPublishes
  <2>1. daily.at = "taken" /\ daily' = [daily EXCEPT !.at = "next"] /\ HandOver(daily.sat)
    BY <1>6 DEF DailyPublishes
  <2>2. daily.sat \in DOMAIN spawned
    BY <2>1 DEF Types, LinkTypes
  <2>3. daily' \in DailyRuns /\ daily'.left = daily.left /\ daily'.at = "next"
    BY ONLY <1>2, <2>1 DEF DailyRuns
  <2>4. LinkTypes'
    BY <1>1, <2>3 DEF Types, LinkTypes
  <2>5. SatTypes' /\ TopicTypes'
    BY <1>1, <2>1, <2>2, HandedOver
  <2> QED
    BY <1>1, <2>4, <2>5, TypesAlone DEF Types
<1>7. CASE DailyEnds
  <2>1. daily' \in DailyRuns /\ daily'.left = {} /\ daily'.at = "idle"
    BY <1>7 DEF DailyEnds, NoDaily, DailyRuns
  <2>2. LinkTypes'
    BY <1>1, <2>1 DEF Types, LinkTypes
  <2>3. UNCHANGED <<remembers, topic>>
    BY <1>7 DEF DailyEnds, satVars
  <2> QED
    BY <1>1, <2>2, <2>3, TypesAlone DEF Types
<1> QED
  BY <1>3, <1>4, <1>5, <1>6, <1>7 DEF DailyRun

(* After a restart the hub and the fleet hold a satellite for each row.    *)
LEMMA RestartServes ==
  ASSUME Types, Restart
  PROVE  /\ spawned' \in Seq(rows)
         /\ \A m, n \in DOMAIN spawned' : spawned'[m].slug = spawned'[n].slug => m = n
         /\ sats' = others'
         /\ sats' \in [Slugs -> 0..Len(spawned')]
         /\ \A s \in Slugs :
              \/ ~SlugTaken(s) /\ sats'[s] = 0
              \/ /\ SlugTaken(s) /\ sats'[s] \in DOMAIN spawned'
                 /\ spawned'[sats'[s]].slug = s
<1> DEFINE place(s) == IF SlugTaken(s)
                       THEN CHOOSE n \in DOMAIN spawned' : spawned'[n].slug = s
                       ELSE 0
<1>1. spawned' = SetToSeq(rows) /\ IsFiniteSet(rows)
  BY DEF Restart, Types, RowTypes
<1>2. /\ spawned' \in Seq(rows)
      /\ \A r \in rows : \E n \in DOMAIN spawned' : spawned'[n] = r
      /\ \A m, n \in DOMAIN spawned' : spawned'[m] = spawned'[n] => m = n
  BY <1>1, Listed
<1>3. \A n \in DOMAIN spawned' : spawned'[n] \in rows
  BY <1>2
<1>4. \A m, n \in DOMAIN spawned' : spawned'[m].slug = spawned'[n].slug => m = n
  BY <1>2, <1>3 DEF Types, RowTypes
<1>5. ASSUME NEW s \in Slugs, SlugTaken(s)
      PROVE  place(s) \in DOMAIN spawned' /\ spawned'[place(s)].slug = s
  <2>1. \E n \in DOMAIN spawned' : spawned'[n].slug = s
    BY <1>2, <1>5 DEF SlugTaken
  <2> QED
    BY <1>5, <2>1
<1>6. DOMAIN spawned' = 1..Len(spawned') /\ Len(spawned') \in Nat
  BY <1>2
<1>7. sats' = [s \in Slugs |-> place(s)] /\ others' = [s \in Slugs |-> place(s)]
  BY DEF Restart
<1>8. \A s \in Slugs : ~SlugTaken(s) => place(s) = 0
  OBVIOUS
<1> HIDE DEF place
<1>9. \A s \in Slugs : place(s) \in 0..Len(spawned')
  BY <1>5, <1>6, <1>8
<1> QED
  BY <1>2, <1>4, <1>5, <1>7, <1>8, <1>9

LEMMA RestartKeepsTypes ==
  ASSUME Types, Restart
  PROVE  Types'
<1>1. UNCHANGED <<rows, lastId, topic, limits>>
  BY DEF Restart, storeVars
<1>2. spawned' \in Seq(rows) /\ sats' = others' /\ sats' \in [Slugs -> 0..Len(spawned')]
  BY RestartServes
<1>3. \A n \in DOMAIN spawned' : spawned'[n] \in rows
  BY <1>2
<1>4. spawned' \in Seq(Portfolios) /\ DOMAIN spawned' = 1..Len(spawned')
  BY <1>2 DEF Types, RowTypes
<1>5. runnerPub' = DOMAIN spawned' /\ remembers' = {}
  BY DEF Restart
<1>6. SatTypes'
  BY <1>1, <1>2, <1>3, <1>4, <1>5 DEF Types, RowTypes, SatTypes
<1>7. LinkTypes'
  <2>1. /\ link' = [n \in DOMAIN spawned' |-> "down"] /\ call' = [n \in DOMAIN spawned' |-> "due"]
        /\ daily' = NoDaily
    BY DEF Restart
  <2>2. link' \in Seq({"down", "open", "closed"}) /\ Len(link') = Len(spawned')
    BY <1>4, <2>1
  <2>3. call' \in Seq({"idle", "due", "taken"}) /\ Len(call') = Len(spawned')
    BY <1>4, <2>1
  <2>4. daily' \in DailyRuns /\ daily'.left = {} /\ daily'.at = "idle"
    BY <2>1 DEF NoDaily, DailyRuns
  <2> QED
    BY <2>2, <2>3, <2>4 DEF LinkTypes
<1>8. RequestTypes'
  <2>1. req' = [c \in Clients |-> NoRequest]
    BY DEF Restart
  <2>2. NoRequest \in Requests /\ NoRequest.at = "idle"
    BY DEF NoRequest, Requests, Places
  <2> QED
    BY <2>1, <2>2 DEF RequestTypes, Found, Holding
<1> QED
  BY <1>1, <1>6, <1>7, <1>8, TypesAlone DEF Types

LEMMA TypesInit ==
  ASSUME Init
  PROVE  Types
<1>1. RowTypes
  <2>1. IsFiniteSet({})
    BY FS_EmptySet
  <2> QED
    BY <2>1 DEF Init, RowTypes
<1>2. SatTypes
  BY DEF Init, SatTypes, Nobody
<1>3. LinkTypes
  BY DEF Init, LinkTypes, NoDaily, DailyRuns
<1>4. RequestTypes
  <2>1. req = [c \in Clients |-> NoRequest]
    BY DEF Init
  <2>2. NoRequest \in Requests /\ NoRequest.at = "idle"
    BY DEF NoRequest, Requests, Places
  <2> QED
    BY <2>1, <2>2 DEF RequestTypes, Found, Holding
<1>5. TopicTypes
  BY DEF Init, TopicTypes, Nobody
<1> QED
  BY <1>1, <1>2, <1>3, <1>4, <1>5 DEF Types

LEMMA TypesNext ==
  ASSUME Types, [Next]_vars
  PROVE  Types'
<1>1. CASE UNCHANGED vars
  BY <1>1, TypesAlone DEF vars, Types, storeVars, hubVars, satVars, countVars
<1>2. ASSUME NEW c \in Clients, Handle(c) PROVE Types'
  BY <1>2, AddKeepsTypes, ReadBackKeepsTypes, FindKeepsTypes, SpawnKeepsTypes, HookKeepsTypes,
     UnhookKeepsTypes, FleetRemoveKeepsTypes, RetireKeepsTypes, DeleteKeepsTypes DEF Handle
<1>3. ASSUME NEW c \in Clients, NEW s \in Slugs, Request(c, "insert", s) \/ Request(c, "find", s)
      PROVE  Types'
  BY <1>3, RequestKeepsTypes
<1>4. ASSUME NEW n \in DOMAIN spawned, Publication(n) \/ Connect(n) \/ Drop(n) PROVE Types'
  BY <1>4, CallKeepsTypes, PublishKeepsTypes, LinkKeepsTypes DEF Publication
<1> QED
  BY <1>1, <1>2, <1>3, <1>4, CallKeepsTypes, DailyKeepsTypes, RestartKeepsTypes DEF Next

LEMMA TypesHold == Spec => []Types
<1>1. Init => Types
  BY TypesInit
<1>2. Types /\ [Next]_vars => Types'
  BY TypesNext
<1> QED
  BY <1>1, <1>2, PTL DEF Spec

-----------------------------------------------------------------------------
(* Ids are never given twice.                                              *)

LEMMA HeldTypes ==
  ASSUME Types
  PROVE  \A p \in Held : p.id \in 2..lastId
<1>1. \A r \in rows : r.id \in 2..lastId
  BY DEF Types, RowTypes
<1>2. \A n \in DOMAIN spawned : spawned[n].id \in 2..lastId
  BY DEF Types, SatTypes
<1>3. \A c \in Clients : req[c].at \in Found => Row(c).id \in 2..lastId
  BY DEF Types, RequestTypes, Row
<1> QED
  BY <1>1, <1>2, <1>3 DEF Held

LEMMA NamesStay ==
  ASSUME Types, Names, Held' \subseteq Held,
         \A s \in Slugs :
           \/ topic'[s] \in {0, topic[s]}
           \/ \E p \in Held : topic'[s] = p.id /\ s = p.slug
  PROVE  Names'
<1>1. \A p \in Held' : p.id # 0
  BY HeldTypes DEF Types, RowTypes
<1>2. \A p, q \in Held' : p.id = q.id => p.slug = q.slug
  BY DEF Names
<1>3. ASSUME NEW p \in Held', NEW s \in Slugs, topic'[s] = p.id
      PROVE  s = p.slug
  BY <1>1, <1>3 DEF Names
<1> QED
  BY <1>2, <1>3 DEF Names

(* A request that goes on with what it holds, or with the row it found.    *)
LEMMA HeldMoves ==
  ASSUME Types, NEW c \in Clients, NEW place, NEW slug, NEW id, NEW sat,
         Moves(c, place, slug, id, sat),
         rows' \subseteq Held, \A n \in DOMAIN spawned' : spawned'[n] \in Held,
         place \in Found => [id |-> id, slug |-> slug] \in Held
  PROVE  Held' \subseteq Held
<1>1. \A d \in Clients : req'[d].at \in Found => Row(d)' \in Held
  <2>1. ASSUME NEW d \in Clients \ {c}, req'[d].at \in Found PROVE Row(d)' \in Held
    <3>1. Row(d)' = Row(d) /\ req[d].at \in Found
      BY <2>1 DEF Moves, Row
    <3> QED
      BY <3>1 DEF Held
  <2>2. ASSUME req'[c].at \in Found PROVE Row(c)' \in Held
    BY <2>2 DEF Moves, Row
  <2> QED
    BY <2>1, <2>2
<1> QED
  BY <1>1 DEF Held

(* With what it holds.                                                     *)
LEMMA HeldGoesOn ==
  ASSUME Types, NEW c \in Clients, NEW place, NEW sat,
         Moves(c, place, req[c].slug, req[c].id, sat), rows' \subseteq rows, UNCHANGED spawned,
         req[c].at \in Found
  PROVE  Held' \subseteq Held
<1>1. Row(c) \in Held /\ rows' \subseteq Held /\ \A n \in DOMAIN spawned' : spawned'[n] \in Held
  BY DEF Held
<1> QED
  BY <1>1, HeldMoves DEF Row

LEMMA HeldEnds ==
  ASSUME Types, NEW c \in Clients, NEW place, NEW slug, NEW id, NEW sat,
         Moves(c, place, slug, id, sat), rows' \subseteq rows, UNCHANGED spawned,
         place \notin Found
  PROVE  Held' \subseteq Held
<1>1. rows' \subseteq Held /\ \A n \in DOMAIN spawned' : spawned'[n] \in Held
  BY DEF Held
<1> QED
  BY <1>1, HeldMoves

LEMMA HeldFinds ==
  ASSUME Types, NEW c \in Clients, NEW place, NEW sat, SlugTaken(req[c].slug),
         Moves(c, place, req[c].slug, RowOf(req[c].slug).id, sat),
         rows' \subseteq rows, UNCHANGED spawned
  PROVE  Held' \subseteq Held
<1> DEFINE row == RowOf(req[c].slug)
<1>1. row \in rows /\ row.slug = req[c].slug
  BY FoundRow
<1>2. row = [id |-> row.id, slug |-> row.slug]
  BY <1>1 DEF Types, RowTypes, Portfolios
<1>3. /\ [id |-> row.id, slug |-> req[c].slug] \in Held
      /\ rows' \subseteq Held /\ \A n \in DOMAIN spawned' : spawned'[n] \in Held
  BY <1>1, <1>2 DEF Held
<1> QED
  BY <1>3, HeldMoves

LEMMA NamesHandle ==
  ASSUME Types, Names, NEW c \in Clients, Handle(c), ~AddPortfolio(c)
  PROVE  Names'
<1>1. CASE ReadBack(c)
  <2>1. UNCHANGED <<rows, spawned, topic>>
    BY <1>1 DEF ReadBack, storeVars
  <2>2. Held' \subseteq Held
    BY <1>1, <2>1, ReadBackGoesOn, HeldFinds, HeldEnds DEF Found
  <2> QED
    BY <2>1, <2>2, NamesStay
<1>2. CASE Find(c)
  <2>1. UNCHANGED <<rows, spawned, topic>>
    BY <1>2 DEF Find, storeVars
  <2>2. Held' \subseteq Held
    BY <1>2, <2>1, FindGoesOn, HeldFinds, HeldEnds DEF Found
  <2> QED
    BY <2>1, <2>2, NamesStay
<1>3. CASE Spawn(c)
  <2> DEFINE new == [id |-> req[c].id, slug |-> req[c].slug]
  <2>1. req[c].at = "spawn" /\ spawned' = Append(spawned, new) /\ UNCHANGED <<rows, topic>>
    BY <1>3 DEF Spawn, storeVars
  <2>2. new \in Held /\ rows' \subseteq Held /\ \A n \in DOMAIN spawned : spawned[n] \in Held
    BY <2>1 DEF Held, Row, Found
  <2> HIDE DEF new
  <2>3. \A n \in DOMAIN spawned' : spawned'[n] \in Held
    BY <2>1, <2>2 DEF Types, SatTypes
  <2>4. Moves(c, "hook", req[c].slug, req[c].id, Len(spawned) + 1)
    BY <1>3, SpawnGoesOn
  <2>5. Held' \subseteq Held
    BY <2>2, <2>3, <2>4, HeldMoves DEF new
  <2> QED
    BY <2>1, <2>5, NamesStay
<1>4. CASE Hook(c)
  <2>1. UNCHANGED <<rows, spawned, topic>>
    BY <1>4 DEF Hook, storeVars
  <2>2. Held' \subseteq Held
    BY <1>4, <2>1, RetireGoesOn, HeldEnds DEF Found
  <2> QED
    BY <2>1, <2>2, NamesStay
<1>5. CASE Unhook(c)
  <2>1. UNCHANGED <<rows, spawned, topic>> /\ req[c].at \in Found
    BY <1>5 DEF Unhook, storeVars, Found
  <2>2. Held' \subseteq Held
    BY <1>5, <2>1, UnhookGoesOn, HeldGoesOn
  <2> QED
    BY <2>1, <2>2, NamesStay
<1>6. CASE FleetRemove(c) \/ Detach(c) \/ RetireForgets(c) \/ RetireClears(c) \/ RetireCloses(c)
  <2>1. UNCHANGED <<rows, spawned>> /\ req[c].at \in Found
    BY <1>6 DEF FleetRemove, Detach, RetireForgets, RetireClears, RetireCloses, storeVars, Found
  <2>2. Held' \subseteq Held
    BY <1>6, <2>1, RetireGoesOn, HeldGoesOn
  <2>3. topic' = topic \/ topic' = [topic EXCEPT ![req[c].slug] = 0]
    BY <1>6 DEF FleetRemove, Detach, RetireForgets, RetireClears, RetireCloses
  <2>4. \A s \in Slugs : topic'[s] \in {0, topic[s]}
    BY <2>3 DEF Types, TopicTypes
  <2> QED
    BY <2>2, <2>4, NamesStay
<1>7. CASE DeletePortfolio(c)
  <2>1. UNCHANGED <<spawned, topic>> /\ req[c].at \in Found
    BY <1>7 DEF DeletePortfolio, Found
  <2>2. rows' \subseteq rows
    BY <1>7, DeleteGoesOn
  <2>3. Held' \subseteq Held
    BY <1>7, <2>1, <2>2, DeleteGoesOn, HeldGoesOn, HeldEnds DEF Found
  <2> QED
    BY <2>1, <2>3, NamesStay
<1> QED
  BY <1>1, <1>2, <1>3, <1>4, <1>5, <1>6, <1>7 DEF Handle

(* A new row has an id nobody has: AUTOINCREMENT.                          *)
LEMMA NamesAdd ==
  ASSUME Types, Names, NEW c \in Clients, AddPortfolio(c)
  PROVE  Names'
<1>1. UNCHANGED <<spawned, topic>> /\ req[c].slug \in Slugs
  BY DEF AddPortfolio, Types, RequestTypes
<1>2. CASE Moves(c, "idle", "", 0, 0) /\ UNCHANGED storeVars
  <2>1. Held' \subseteq Held
    BY <1>1, <1>2, HeldEnds DEF storeVars, Found
  <2> QED
    BY <1>1, <2>1, NamesStay
<1>3. CASE /\ rows' = rows \cup {[id |-> lastId + 1, slug |-> req[c].slug]}
           /\ Moves(c, "readback", req[c].slug, req[c].id, req[c].sat)
  <2> DEFINE new == [id |-> lastId + 1, slug |-> req[c].slug]
  <2>1. rows' = rows \cup {new} /\ new.id = lastId + 1
    BY <1>3
  <2> HIDE DEF new
  <2>2. \A d \in Clients : req'[d].at \in Found => Row(d)' = Row(d) /\ req[d].at \in Found
    BY <1>3 DEF Moves, Row, Found
  <2>3. Held' \subseteq Held \cup {new}
    BY <1>1, <2>1, <2>2 DEF Held
  <2>4. \A p \in Held : p.id # new.id
    BY <2>1, HeldTypes DEF Types, RowTypes
  <2>5. \A s \in Slugs : topic'[s] # new.id
    <3>1. \A s \in Slugs : topic[s] \in 0..lastId
      BY DEF Types, TopicTypes
    <3>2. lastId \in Nat
      BY DEF Types, RowTypes
    <3> QED
      BY <1>1, <2>1, <3>1, <3>2
  <2>6. \A p, q \in Held' : p.id = q.id => p.slug = q.slug
    BY <2>3, <2>4 DEF Names
  <2>7. \A p \in Held', s \in Slugs : topic'[s] = p.id => s = p.slug
    BY <1>1, <2>3, <2>5 DEF Names
  <2> QED
    BY <2>6, <2>7 DEF Names
<1> QED
  BY <1>2, <1>3, AddGoesOn

LEMMA NamesNext ==
  ASSUME Types, Types', Names, [Next]_vars
  PROVE  Names'
<1>1. ASSUME UNCHANGED <<rows, spawned, req>> PROVE Held' \subseteq Held
  BY <1>1 DEF Held, Row
<1>2. ASSUME NEW n \in DOMAIN spawned, UNCHANGED <<rows, spawned, req>>,
             topic' = topic \/ topic' = [topic EXCEPT ![spawned[n].slug] = spawned[n].id]
      PROVE  Names'
  <2>1. spawned[n] \in Held
    BY DEF Held
  <2>2. \A s \in Slugs : \/ topic'[s] = topic[s]
                         \/ topic'[s] = spawned[n].id /\ s = spawned[n].slug
    BY <1>2 DEF Types, TopicTypes
  <2> QED
    BY <1>1, <1>2, <2>1, <2>2, NamesStay
<1>3. ASSUME UNCHANGED <<rows, spawned, req, topic>> PROVE Names'
  BY <1>1, <1>3, NamesStay
<1>4. CASE UNCHANGED vars
  BY <1>3, <1>4 DEF vars, storeVars
<1>5. ASSUME NEW c \in Clients, Handle(c) PROVE Names'
  BY <1>5, NamesHandle, NamesAdd
<1>6. ASSUME NEW c \in Clients, NEW s \in Slugs, NEW place \in {"insert", "find"},
             Request(c, place, s)
      PROVE  Names'
  <2>1. UNCHANGED <<rows, spawned, topic>>
    BY <1>6 DEF Request, storeVars
  <2>2. Held' \subseteq Held
    BY <1>6, <2>1, Asks, HeldEnds DEF Found
  <2> QED
    BY <2>1, <2>2, NamesStay
<1>7. ASSUME NEW s \in Slugs, Mutate(s) PROVE Names'
  BY <1>3, <1>7 DEF Mutate, storeVars
<1>8. ASSUME NEW n \in DOMAIN spawned, Publication(n) \/ Connect(n) \/ Drop(n) PROVE Names'
  <2>1. CASE TakePublisher(n) \/ Drop(n)
    BY <1>3, <2>1 DEF TakePublisher, Drop, storeVars
  <2>2. CASE Publish(n) \/ Connect(n)
    BY <1>2, <2>2 DEF Publish, HandOver, Connect, storeVars
  <2> QED
    BY <1>8, <2>1, <2>2 DEF Publication
<1>9. CASE DailyStart \/ DailyRun
  <2>1. CASE DailyPublishes
    <3>1. daily.sat \in DOMAIN spawned
      BY <2>1 DEF DailyPublishes, Types, LinkTypes
    <3> QED
      BY <1>2, <2>1, <3>1 DEF DailyPublishes, HandOver, storeVars
  <2>2. CASE DailyStart \/ DailySnapshot \/ DailyTakesPublisher \/ DailyEnds
    BY <1>3, <2>2 DEF DailyStart, DailySnapshot, DailyTakesPublisher, DailyEnds, storeVars
  <2> QED
    BY <1>9, <2>1, <2>2 DEF DailyRun
<1>10. CASE Restart
  <2>1. UNCHANGED <<rows, topic>> /\ req' = [c \in Clients |-> NoRequest]
    BY <1>10 DEF Restart, storeVars
  <2>2. \A n \in DOMAIN spawned' : spawned'[n] \in rows
    BY <1>10, RestartServes
  <2>3. \A c \in Clients : req'[c].at \notin Found
    BY <2>1 DEF NoRequest, Found
  <2>4. Held' \subseteq Held
    BY <2>1, <2>2, <2>3 DEF Held
  <2> QED
    BY <2>1, <2>4, NamesStay
<1> QED
  BY <1>4, <1>5, <1>6, <1>7, <1>8, <1>9, <1>10 DEF Next

LEMMA NamesHold == Spec => []Names
<1>1. Init => Names
  <2> SUFFICES ASSUME Init PROVE Names
    OBVIOUS
  <2>1. rows = {} /\ DOMAIN spawned = {} /\ req = [c \in Clients |-> NoRequest]
    BY DEF Init
  <2>2. \A c \in Clients : req[c].at \notin Found
    BY <2>1 DEF NoRequest, Found
  <2>3. Held = {}
    BY <2>1, <2>2 DEF Held
  <2> QED
    BY <2>3 DEF Names
<1>2. Types /\ Types' /\ Names /\ [Next]_vars => Names'
  BY NamesNext
<1> QED
  BY <1>1, <1>2, TypesHold, PTL DEF Spec

-----------------------------------------------------------------------------
(* One request at a time.                                                  *)

(* The others wait: what is said of requests is said of the one that acts. *)
Lone(c) == \A d \in Clients \ {c} : req[d].at = "idle"

LEMMA OthersWait ==
  ASSUME NEW c \in Clients, Alone, req[c].at # "idle"
  PROVE  Lone(c)
  BY DEF Alone, Lone

LEMMA BusyIsMine ==
  ASSUME NEW c \in Clients, Lone(c), NEW s
  PROVE  /\ Busy(s, Placing) <=> req[c].slug = s /\ req[c].at \in Placing
         /\ Busy(s, Owning) <=> req[c].slug = s /\ req[c].at \in Owning
         /\ Busy(s, Answering) <=> req[c].slug = s /\ req[c].at \in Answering
  BY DEF Busy, Lone, Placing, Owning, Answering, Found

LEMMA BusyWillBeMine ==
  ASSUME NEW c \in Clients, Lone(c), NEW place, NEW slug, NEW id, NEW sat,
         Moves(c, place, slug, id, sat), NEW s
  PROVE  /\ Busy(s, Placing)' <=> slug = s /\ place \in Placing
         /\ Busy(s, Owning)' <=> slug = s /\ place \in Owning
         /\ Busy(s, Answering)' <=> slug = s /\ place \in Answering
  BY DEF Busy, Lone, Moves, Placing, Owning, Answering, Found

(* The parts of the invariant, from what a request that moves leaves and   *)
(* brings.                                                                 *)
LEMMA AloneMoves ==
  ASSUME NEW c \in Clients, Lone(c), NEW place, NEW slug, NEW id, NEW sat,
         Moves(c, place, slug, id, sat)
  PROVE  Alone'
  BY DEF Alone, Lone, Moves

LEMMA HandsMove ==
  ASSUME NEW c \in Clients, Lone(c), NEW place, NEW slug, NEW id, NEW sat,
         Moves(c, place, slug, id, sat), InHand(c)'
  PROVE  InHands'
<1>1. ASSUME NEW d \in Clients \ {c} PROVE InHand(d)'
  BY DEF InHand, Lone, Moves, Found, Holding
<1> QED
  BY <1>1 DEF InHands

LEMMA ServedElsewhere ==
  ASSUME NEW c \in Clients, Lone(c), NEW place, NEW slug, NEW id, NEW sat,
         Moves(c, place, slug, id, sat),
         NEW s, Served(s), s # req[c].slug,
         sats'[s] = sats[s], others'[s] = others[s],
         sats[s] # 0 => spawned'[sats[s]] = spawned[sats[s]],
         \A r \in rows : r.slug = s => r \in rows',
         \A r \in rows' : r.slug = s => r \in rows,
         halfAdded \subseteq halfAdded'
  PROVE  Served(s)'
<1>1. ~Busy(s, Placing) /\ ~Busy(s, Owning)
  BY BusyIsMine
<1>2. CASE sats[s] # 0
  BY <1>2 DEF Served
<1>3. CASE sats[s] = 0
  BY <1>1, <1>3 DEF Served
<1> QED
  BY <1>2, <1>3

(* Documents: what the step may bring to the topic or take from the rows.  *)
LEMMA AccountedStay ==
  ASSUME AllAccounted, UNCHANGED topic, rows \subseteq rows', Excused \subseteq Excused'
  PROVE  AllAccounted'
  BY DEF AllAccounted, Accounted, HasRow

LEMMA RowIsMine ==
  ASSUME Types, NEW c \in Clients, InHand(c), req[c].at \in Found, NEW r \in rows,
         r.slug = req[c].slug \/ r.id = req[c].id
  PROVE  r = Row(c)
<1>1. Row(c) \in rows /\ Row(c).slug = req[c].slug /\ Row(c).id = req[c].id
  BY DEF InHand, Row
<1> QED
  BY <1>1 DEF Types, RowTypes

(* A step of a request that leaves satellites and connections alone.       *)
LEMMA LinkedStays ==
  ASSUME NEW c \in Clients, Lone(c), NEW place, NEW slug, NEW id, NEW sat,
         Moves(c, place, slug, id, sat), Linked, UNCHANGED <<spawned, link, sats>>,
         req[c].at \in Holding => place \in Holding /\ sat = req[c].sat
  PROVE  Linked'
<1> SUFFICES ASSUME NEW n \in DOMAIN spawned, link[n] # "closed" PROVE InUse(n)'
  BY DEF Linked
<1>1. InUse(n)
  BY DEF Linked
<1>2. CASE sats[spawned[n].slug] = n
  BY <1>2 DEF InUse
<1>3. CASE \E d \in Clients : req[d].at \in Holding /\ req[d].sat = n
  <2>1. req[c].at \in Holding /\ req[c].sat = n
    BY <1>3 DEF Lone, Holding
  <2>2. req'[c].at \in Holding /\ req'[c].sat = n
    BY <2>1 DEF Moves
  <2> QED
    BY <2>2 DEF InUse
<1> QED
  BY <1>1, <1>2, <1>3 DEF InUse

LEMMA AnsweredStays ==
  ASSUME NEW c \in Clients, Lone(c), NEW place, NEW slug, NEW id, NEW sat,
         Moves(c, place, slug, id, sat), AllAnswered,
         UNCHANGED <<topic, sats>>, Excused \subseteq Excused',
         \A r \in rows' : r \in rows \/ topic[r.slug] # r.id,
         req[c].at \in Answering => slug = req[c].slug /\ place \in Answering
  PROVE  AllAnswered'
<1> SUFFICES ASSUME NEW r \in rows', topic[r.slug] = r.id PROVE Answered(r)'
  BY DEF AllAnswered, Answered
<1>1. r \in rows /\ Answered(r)
  BY DEF AllAnswered
<1>2. r.id \in Excused' \/ sats'[r.slug] # 0 \/ Busy(r.slug, Answering)' => Answered(r)'
  BY DEF Answered
<1>3. CASE r.id \in Excused
  BY <1>2, <1>3
<1>4. CASE sats[r.slug] # 0
  BY <1>1, <1>2, <1>4
<1>5. CASE Busy(r.slug, Answering)
  <2>1. req[c].slug = r.slug /\ req[c].at \in Answering
    BY <1>5, BusyIsMine
  <2> QED
    BY <1>2, <2>1, BusyWillBeMine
<1> QED
  BY <1>1, <1>3, <1>4, <1>5 DEF Answered

LEMMA RequestOne ==
  ASSUME Types, OneInv, IsFiniteSet(Clients), limits.atOnce = 1,
         NEW c \in Clients, NEW s \in Slugs, NEW place \in {"insert", "find"},
         Request(c, place, s)
  PROVE  OneInv'
<1>1. Lone(c)
  <2> DEFINE busy == {d \in Clients : req[d].at # "idle"}
  <2>1. Cardinality(busy) < 1
    BY DEF Request
  <2>2. IsFiniteSet(busy)
    BY FS_Subset
  <2>3. Cardinality(busy) = 0
    BY <2>1, <2>2, FS_CardinalityType
  <2>4. busy = {}
    BY <2>2, <2>3, FS_EmptySet
  <2> QED
    BY <2>4 DEF Lone
<1>2. Moves(c, place, s, 0, 0) /\ req[c].at = "idle"
  BY Asks DEF Request
<1>3. UNCHANGED <<rows, spawned, sats, others, remembers, link, topic, halfAdded, late, unerased>>
  BY DEF Request, storeVars, hubVars, satVars, historyVars
<1>4. Alone'
  BY <1>1, <1>2, AloneMoves
<1>5. InHands'
  <2>1. InHand(c)'
    BY <1>2 DEF InHand, Moves, Found, Holding
  <2> QED
    BY <1>1, <1>2, <2>1, HandsMove
<1>6. AllServed'
  <2>1. \A t \in Slugs : ~Busy(t, Placing) /\ ~Busy(t, Owning)
    BY <1>1, <1>2, BusyIsMine DEF Placing, Owning, Found
  <2> QED
    BY <1>3, <2>1 DEF OneInv, AllServed, Served
<1>7. Linked'
  BY <1>1, <1>2, <1>3, LinkedStays DEF OneInv, Holding
<1>8. Excused' = Excused
  BY <1>3 DEF Excused
<1>9. AllAccounted'
  BY <1>3, <1>8, AccountedStay DEF OneInv
<1>10. AllAnswered'
  BY <1>1, <1>2, <1>3, <1>8, AnsweredStays DEF OneInv, Answering
<1> QED
  BY <1>4, <1>5, <1>6, <1>7, <1>9, <1>10 DEF OneInv

LEMMA AddOne ==
  ASSUME Types, OneInv, NEW c \in Clients, AddPortfolio(c)
  PROVE  OneInv'
<1>0. PICK s \in Slugs : s = req[c].slug
  BY DEF AddPortfolio, Types, RequestTypes
<1>1. req[c].at = "insert" /\ Lone(c)
  BY OthersWait DEF AddPortfolio, OneInv
<1>2. UNCHANGED <<spawned, sats, others, remembers, link, topic, halfAdded, late, unerased>>
  BY DEF AddPortfolio, hubVars, satVars, historyVars
<1>3. Excused' = Excused
  BY <1>0, <1>2 DEF Excused
<1>4. \A t \in Slugs : ~Busy(t, Placing) /\ ~Busy(t, Owning)
  BY <1>0, <1>1, BusyIsMine DEF Placing, Owning, Found
<1>5. CASE Moves(c, "idle", "", 0, 0) /\ UNCHANGED storeVars
  <2>1. UNCHANGED rows
    BY <1>0, <1>5 DEF storeVars
  <2>2. Alone'
    BY <1>0, <1>1, <1>5, AloneMoves
  <2>3. InHands'
    <3>1. InHand(c)'
      BY <1>0, <1>5 DEF InHand, Moves, Found, Holding
    <3> QED
      BY <1>0, <1>1, <1>5, <3>1, HandsMove
  <2>4. AllServed'
    BY <1>0, <1>2, <1>4, <2>1 DEF OneInv, AllServed, Served
  <2>5. Linked'
    BY <1>0, <1>1, <1>2, <1>5, LinkedStays DEF OneInv, Holding
  <2>6. AllAccounted'
    BY <1>0, <1>2, <1>3, <2>1, AccountedStay DEF OneInv
  <2>7. AllAnswered'
    BY <1>0, <1>1, <1>2, <1>3, <1>5, <2>1, AnsweredStays DEF OneInv, Answering
  <2> QED
    BY <1>0, <2>2, <2>3, <2>4, <2>5, <2>6, <2>7 DEF OneInv
<1>6. CASE /\ ~SlugTaken(s)
           /\ rows' = rows \cup {[id |-> lastId + 1, slug |-> s]}
           /\ Moves(c, "readback", s, req[c].id, req[c].sat)
  <2> DEFINE new == [id |-> lastId + 1, slug |-> s]
  <2>1. rows' = rows \cup {new} /\ new.id = lastId + 1 /\ new.slug = s
    BY <1>0, <1>6
  <2> HIDE DEF new
  <2>2. Alone'
    BY <1>0, <1>1, <1>6, AloneMoves
  <2>3. sats[s] = 0 /\ others[s] = 0
    <3>1. Served(s)
      BY <1>0, <1>1 DEF OneInv, AllServed
    <3>2. sats[s] = 0
      BY <1>0, <1>6, <3>1 DEF Served, SlugTaken
    <3> QED
      BY <1>0, <1>1, <1>4, <3>1, <3>2 DEF Served
  <2>4. InHands'
    <3>1. SlugTaken(s)'
      BY <1>0, <2>1 DEF SlugTaken
    <3>2. InHand(c)'
      BY <1>0, <1>2, <1>6, <2>3, <3>1 DEF InHand, Moves, Found, Holding, SlugTaken
    <3> QED
      BY <1>0, <1>1, <1>6, <3>2, HandsMove
  <2>5. AllServed'
    <3>1. ASSUME NEW t \in Slugs, t # s PROVE Served(t)'
      <4>1. Served(t)
        BY DEF OneInv, AllServed
      <4>2. \A r \in rows' : r.slug = t => r \in rows
        BY <1>0, <2>1, <3>1
      <4> QED
        BY <1>0, <1>1, <1>2, <1>6, <2>1, <3>1, <4>1, <4>2, ServedElsewhere
    <3>2. Busy(s, Owning)'
      BY <1>0, <1>1, <1>6, BusyWillBeMine DEF Owning
    <3>3. Served(s)'
      BY <1>0, <1>2, <2>3, <3>2 DEF Served
    <3> QED
      BY <1>0, <3>1, <3>3 DEF AllServed
  <2>6. Linked'
    BY <1>0, <1>1, <1>2, <1>6, LinkedStays DEF OneInv, Holding
  <2>7. AllAccounted'
    BY <1>0, <1>2, <1>3, <2>1, AccountedStay DEF OneInv
  <2>8. topic[s] # new.id
    <3>1. topic[s] \in 0..lastId /\ lastId \in Nat
      BY <1>0, <1>1 DEF Types, TopicTypes, RowTypes
    <3> QED
      BY <1>0, <2>1, <3>1
  <2>9. AllAnswered'
    <3>1. \A r \in rows' : r \in rows \/ topic[r.slug] # r.id
      BY <1>0, <2>1, <2>8
    <3> QED
      BY <1>0, <1>1, <1>2, <1>3, <1>6, <3>1, AnsweredStays DEF OneInv, Answering
  <2> QED
    BY <1>0, <2>2, <2>4, <2>5, <2>6, <2>7, <2>9 DEF OneInv
<1> QED
  BY <1>0, <1>5, <1>6, AddGoesOn

LEMMA ReadBackOne ==
  ASSUME Types, OneInv, NEW c \in Clients, ReadBack(c)
  PROVE  OneInv'
<1>0. PICK s, row : s \in Slugs /\ s = req[c].slug /\ row = RowOf(s)
  BY DEF ReadBack, Types, RequestTypes
<1>1. req[c].at = "readback" /\ Lone(c) /\ InHand(c)
  BY OthersWait DEF ReadBack, OneInv, InHands
<1>2. UNCHANGED <<rows, spawned, sats, others, remembers, link, topic, late, unerased>>
  BY DEF ReadBack, storeVars, hubVars, satVars
<1>3. Excused' = Excused
  BY <1>0, <1>2 DEF Excused
<1>4. SlugTaken(s) /\ sats[s] = 0 /\ others[s] = 0
  BY <1>0, <1>1 DEF InHand
<1>5. row \in rows /\ row.slug = s
  BY <1>0, <1>4, FoundRow
<1>6. PICK place, slug, id, sat :
        /\ Moves(c, place, slug, id, sat)
        /\ \/ /\ place = "spawn" /\ slug = s /\ id = row.id
              /\ UNCHANGED halfAdded
           \/ /\ place = "idle"
              /\ halfAdded' = halfAdded \cup {row.id}
  BY <1>0, <1>4, ReadBackGoesOn
<1>7. Alone'
  BY <1>0, <1>1, <1>6, AloneMoves
<1>8. InHands'
  <2>1. row = [id |-> row.id, slug |-> row.slug]
    BY <1>0, <1>5 DEF Types, RowTypes, Portfolios
  <2>2. InHand(c)'
    BY <1>0, <1>2, <1>4, <1>5, <1>6, <2>1 DEF InHand, Moves, Found, Holding, Row
  <2> QED
    BY <1>0, <1>1, <1>6, <2>2, HandsMove
<1>9. AllServed'
  <2>1. ASSUME NEW t \in Slugs, t # s PROVE Served(t)'
    <3>1. Served(t) /\ halfAdded \subseteq halfAdded'
      BY <1>0, <1>6 DEF OneInv, AllServed
    <3> QED
      BY <1>0, <1>1, <1>2, <1>6, <2>1, <3>1, ServedElsewhere
  <2>2. \A r \in rows : r.slug = s => r.id = row.id
    BY <1>0, <1>5 DEF Types, RowTypes
  <2>3. Busy(s, Owning)' \/ row.id \in halfAdded'
    <3>1. CASE place = "spawn" /\ slug = s
      BY <1>0, <1>1, <1>6, <3>1, BusyWillBeMine DEF Owning, Found
    <3> QED
      BY <1>0, <1>6, <3>1
  <2>4. Served(s)'
    BY <1>0, <1>2, <1>4, <2>2, <2>3 DEF Served
  <2> QED
    BY <1>0, <2>1, <2>4 DEF AllServed
<1>10. Linked'
  BY <1>0, <1>1, <1>2, <1>6, LinkedStays DEF OneInv, Holding
<1>11. AllAccounted'
  BY <1>0, <1>2, <1>3, AccountedStay DEF OneInv
<1>12. AllAnswered'
  BY <1>0, <1>1, <1>2, <1>3, <1>6, AnsweredStays DEF OneInv, Answering
<1> QED
  BY <1>0, <1>7, <1>8, <1>9, <1>10, <1>11, <1>12 DEF OneInv

LEMMA SpawnOne ==
  ASSUME Types, OneInv, NEW c \in Clients, Spawn(c)
  PROVE  OneInv'
<1>0. PICK s, n : s \in Slugs /\ s = req[c].slug /\ n = Len(spawned) + 1
  BY DEF Spawn, Types, RequestTypes
<1>1. req[c].at = "spawn" /\ Lone(c) /\ InHand(c)
  BY OthersWait DEF Spawn, OneInv, InHands
<1>2. UNCHANGED <<rows, sats, remembers, topic, halfAdded, late, unerased>>
  BY DEF Spawn, storeVars, historyVars
<1>3. Excused' = Excused
  BY <1>0, <1>2 DEF Excused
<1>4. Row(c) \in rows /\ sats[s] = 0
  BY <1>0, <1>1 DEF InHand, Found
<1>5. /\ spawned' = Append(spawned, Row(c)) /\ others' = [others EXCEPT ![s] = n]
      /\ link' = Append(link, "down")
  BY <1>0 DEF Spawn, Row
<1>6. Moves(c, "hook", s, req[c].id, n)
  BY <1>0, SpawnGoesOn
<1>7. /\ spawned \in Seq(Portfolios) /\ Len(spawned) \in Nat
      /\ link \in Seq({"down", "open", "closed"}) /\ Len(link) = Len(spawned)
      /\ Row(c) \in Portfolios
  BY <1>0, <1>4 DEF Types, RowTypes, SatTypes, LinkTypes
<1>8. /\ DOMAIN spawned' = DOMAIN spawned \cup {n}
      /\ \A m \in DOMAIN spawned : spawned'[m] = spawned[m] /\ link'[m] = link[m]
      /\ spawned'[n] = Row(c)
      /\ \A m \in DOMAIN spawned : m # n
  BY <1>0, <1>5, <1>7
<1>9. others'[s] = n /\ \A t \in Slugs \ {s} : others'[t] = others[t]
  BY <1>0, <1>1, <1>5 DEF Types, SatTypes
<1>10. Alone'
  BY <1>0, <1>1, <1>6, AloneMoves
<1>11. InHands'
  <2>1. req'[c].id = req[c].id /\ req'[c].slug = s /\ req'[c].at = "hook" /\ req'[c].sat = n
    BY <1>0, <1>6 DEF Moves
  <2>2. Row(c)' = Row(c)
    BY <1>0, <2>1 DEF Row
  <2>3. InHand(c)'
    BY <1>0, <1>2, <1>4, <1>8, <1>9, <2>1, <2>2 DEF InHand
  <2> QED
    BY <1>0, <1>1, <1>6, <2>3, HandsMove
<1>12. AllServed'
  <2>1. ASSUME NEW t \in Slugs, t # s PROVE Served(t)'
    <3>1. Served(t)
      BY DEF OneInv, AllServed
    <3>2. sats[t] # 0 => sats[t] \in DOMAIN spawned
      BY DEF Types, SatTypes
    <3> QED
      BY <1>0, <1>1, <1>2, <1>6, <1>8, <1>9, <2>1, <3>1, <3>2, ServedElsewhere
  <2>2. Busy(s, Owning)' /\ Busy(s, Placing)'
    BY <1>0, <1>1, <1>6, BusyWillBeMine DEF Owning, Placing, Found
  <2>3. Served(s)'
    BY <1>0, <1>2, <1>4, <2>2 DEF Served
  <2> QED
    BY <1>0, <2>1, <2>3 DEF AllServed
<1>13. Linked'
  <2>1. ASSUME NEW m \in DOMAIN spawned, link'[m] # "closed" PROVE InUse(m)'
    <3>1. InUse(m)
      BY <1>0, <1>8, <2>1 DEF OneInv, Linked
    <3>2. sats[spawned[m].slug] = m
      BY <1>0, <1>1, <3>1 DEF InUse, Lone, Holding
    <3> QED
      BY <1>0, <1>2, <1>8, <3>2 DEF InUse
  <2>2. InUse(n)'
    BY <1>0, <1>6 DEF InUse, Moves, Holding
  <2> QED
    BY <1>0, <1>8, <2>1, <2>2 DEF Linked
<1>14. AllAccounted'
  BY <1>0, <1>2, <1>3, AccountedStay DEF OneInv
<1>15. AllAnswered'
  BY <1>0, <1>1, <1>2, <1>3, <1>6, AnsweredStays DEF OneInv, Answering
<1> QED
  BY <1>0, <1>10, <1>11, <1>12, <1>13, <1>14, <1>15 DEF OneInv

LEMMA Satellites ==
  ASSUME Types, NEW n \in DOMAIN spawned
  PROVE  n # 0 /\ spawned[n] \in Portfolios /\ spawned[n].slug \in Slugs
<1>1. spawned \in Seq(Portfolios)
  BY DEF Types, SatTypes
<1>2. n # 0 /\ spawned[n] \in Portfolios
  BY <1>1
<1> QED
  BY <1>2 DEF Portfolios

LEMMA HookOne ==
  ASSUME Types, OneInv, NEW c \in Clients, Hook(c)
  PROVE  OneInv'
<1>0. PICK s, n : s \in Slugs /\ s = req[c].slug /\ n = req[c].sat
  BY DEF Hook, Types, RequestTypes
<1>1. req[c].at = "hook" /\ Lone(c) /\ InHand(c)
  BY OthersWait DEF Hook, OneInv, InHands
<1>2. UNCHANGED <<rows, spawned, others, remembers, link, topic, halfAdded, late, unerased>>
  BY DEF Hook, storeVars, satVars, historyVars
<1>3. Excused' = Excused
  BY <1>2 DEF Excused
<1>4. /\ Row(c) \in rows /\ sats[s] = 0 /\ others[s] = n /\ spawned[n] = Row(c)
      /\ Row(c).slug = s
  BY <1>0, <1>1 DEF InHand, Found, Holding, Row
<1>5. n \in DOMAIN spawned /\ n # 0
  BY <1>0, <1>1 DEF Types, RequestTypes, SatTypes, Holding
<1>6. sats'[s] = n /\ \A t \in Slugs \ {s} : sats'[t] = sats[t]
  BY <1>0 DEF Hook, Types, SatTypes
<1>7. Moves(c, "idle", "", 0, 0)
  BY RetireGoesOn
<1>8. Alone'
  BY <1>1, <1>7, AloneMoves
<1>9. InHands'
  <2>1. InHand(c)'
    BY <1>7 DEF InHand, Moves, Found, Holding
  <2> QED
    BY <1>1, <1>7, <2>1, HandsMove
<1>10. AllServed'
  <2>1. ASSUME NEW t \in Slugs, t # s PROVE Served(t)'
    <3>1. Served(t)
      BY DEF OneInv, AllServed
    <3> QED
      BY <1>0, <1>1, <1>2, <1>6, <1>7, <2>1, <3>1, ServedElsewhere
  <2>2. Served(s)'
    BY <1>2, <1>4, <1>5, <1>6 DEF Served
  <2> QED
    BY <2>1, <2>2 DEF AllServed
<1>11. Linked'
  <2>1. ASSUME NEW m \in DOMAIN spawned, link[m] # "closed" PROVE InUse(m)'
    <3>1. InUse(m)
      BY <2>1 DEF OneInv, Linked
    <3>2. CASE m = n
      BY <1>2, <1>4, <1>6, <3>2 DEF InUse
    <3>3. CASE m # n
      <4>1. sats[spawned[m].slug] = m
        BY <1>0, <1>1, <3>1, <3>3 DEF InUse, Lone, Holding
      <4>2. spawned[m].slug \in Slugs /\ m # 0
        BY Satellites
      <4>3. sats'[spawned[m].slug] = m
        BY <1>4, <1>6, <4>1, <4>2
      <4> QED
        BY <1>2, <4>3 DEF InUse
    <3> QED
      BY <3>2, <3>3
  <2> QED
    BY <1>2, <2>1 DEF Linked
<1>12. AllAccounted'
  BY <1>2, <1>3, AccountedStay DEF OneInv
<1>13. AllAnswered'
  <2>1. ASSUME NEW r \in rows, topic[r.slug] = r.id PROVE Answered(r)'
    <3>1. Answered(r) /\ r.slug \in Slugs
      BY DEF OneInv, AllAnswered, Types, RowTypes, Portfolios
    <3>2. CASE r.slug = s
      BY <1>5, <1>6, <3>2 DEF Answered
    <3>3. CASE r.slug # s
      <4>1. ~Busy(r.slug, Answering)
        BY <1>0, <1>1, <3>3, BusyIsMine
      <4> QED
        BY <1>3, <1>6, <2>1, <3>1, <3>3, <4>1 DEF Answered
    <3> QED
      BY <3>2, <3>3
  <2> QED
    BY <1>2, <2>1 DEF AllAnswered, Answered
<1> QED
  BY <1>8, <1>9, <1>10, <1>11, <1>12, <1>13 DEF OneInv

LEMMA FindOne ==
  ASSUME Types, OneInv, NEW c \in Clients, Find(c)
  PROVE  OneInv'
<1>0. PICK s, row : s \in Slugs /\ s = req[c].slug /\ row = RowOf(s)
  BY DEF Find, Types, RequestTypes
<1>1. req[c].at = "find" /\ Lone(c)
  BY OthersWait DEF Find, OneInv
<1>2. UNCHANGED <<rows, spawned, sats, others, remembers, link, topic, halfAdded, late, unerased>>
  BY DEF Find, storeVars, hubVars, satVars, historyVars
<1>3. Excused' = Excused
  BY <1>2 DEF Excused
<1>4. PICK place, slug, id, sat :
        /\ Moves(c, place, slug, id, sat)
        /\ \/ SlugTaken(s) /\ place = "unhook" /\ slug = s /\ id = row.id
           \/ place = "idle"
  BY <1>0, FindGoesOn
<1>5. Alone'
  BY <1>1, <1>4, AloneMoves
<1>6. InHands'
  <2>1. SlugTaken(s) => row \in rows /\ row.slug = s
    BY <1>0, FoundRow
  <2>2. row \in rows => row = [id |-> row.id, slug |-> row.slug]
    BY DEF Types, RowTypes, Portfolios
  <2>3. InHand(c)'
    BY <1>2, <1>4, <2>1, <2>2 DEF InHand, Moves, Found, Holding, Row
  <2> QED
    BY <1>1, <1>4, <2>3, HandsMove
<1>7. AllServed'
  <2>1. \A t \in Slugs : ~Busy(t, Placing) /\ ~Busy(t, Owning)
    BY <1>1, BusyIsMine DEF Placing, Owning, Found
  <2> QED
    BY <1>2, <2>1 DEF OneInv, AllServed, Served
<1>8. Linked'
  BY <1>1, <1>2, <1>4, LinkedStays DEF OneInv, Holding
<1>9. AllAccounted'
  BY <1>2, <1>3, AccountedStay DEF OneInv
<1>10. AllAnswered'
  BY <1>1, <1>2, <1>3, <1>4, AnsweredStays DEF OneInv, Answering
<1> QED
  BY <1>5, <1>6, <1>7, <1>8, <1>9, <1>10 DEF OneInv

LEMMA UnhookOne ==
  ASSUME Types, OneInv, NEW c \in Clients, Unhook(c)
  PROVE  OneInv'
<1>0. PICK s, n : s \in Slugs /\ s = req[c].slug /\ n = sats[s]
  BY DEF Unhook, Types, RequestTypes
<1>1. req[c].at = "unhook" /\ Lone(c) /\ InHand(c)
  BY OthersWait DEF Unhook, OneInv, InHands
<1>2. UNCHANGED <<rows, spawned, others, remembers, link, topic, halfAdded, late, unerased>>
  BY DEF Unhook, storeVars, satVars, historyVars
<1>3. Excused' = Excused
  BY <1>2 DEF Excused
<1>4. Row(c) \in rows /\ Row(c).slug = s
  BY <1>0, <1>1 DEF InHand, Found, Row
<1>5. /\ n # 0 => others[s] = n /\ spawned[n] \in rows /\ spawned[n].slug = s
      /\ n = 0 => others[s] = 0
  <2>1. Served(s) /\ ~Busy(s, Placing)
    BY <1>0, <1>1, BusyIsMine DEF OneInv, AllServed, Placing
  <2> QED
    BY <1>0, <2>1 DEF Served
<1>6. n # 0 => spawned[n] = Row(c)
  BY <1>4, <1>5 DEF Types, RowTypes
<1>7. sats'[s] = 0 /\ \A t \in Slugs \ {s} : sats'[t] = sats[t]
  BY <1>0 DEF Unhook, Types, SatTypes
<1>8. PICK place :
        /\ Moves(c, place, s, req[c].id, n)
        /\ n = 0 => place = "erase"
        /\ n # 0 => place = "remove"
  <2>1. CASE n = 0 /\ Moves(c, "erase", s, req[c].id, n)
    BY <2>1
  <2>2. CASE n # 0 /\ Moves(c, "remove", s, req[c].id, n)
    BY <2>2
  <2> QED
    BY <1>0, <2>1, <2>2, UnhookGoesOn
<1>9. Alone'
  BY <1>1, <1>8, AloneMoves
<1>10. InHands'
  <2>1. req'[c].at = place /\ req'[c].slug = s /\ req'[c].id = req[c].id /\ req'[c].sat = n
    BY <1>8 DEF Moves
  <2>2. Row(c)' = Row(c)
    BY <1>0, <2>1 DEF Row
  <2>3. InHand(c)'
    BY <1>2, <1>4, <1>5, <1>6, <1>7, <1>8, <2>1, <2>2 DEF InHand, Found, Holding
  <2> QED
    BY <1>1, <1>8, <2>3, HandsMove
<1>11. AllServed'
  <2>1. ASSUME NEW t \in Slugs, t # s PROVE Served(t)'
    <3>1. Served(t)
      BY DEF OneInv, AllServed
    <3> QED
      BY <1>0, <1>1, <1>2, <1>7, <1>8, <2>1, <3>1, ServedElsewhere
  <2>2. Busy(s, Owning)' /\ (n # 0 => Busy(s, Placing)')
    BY <1>1, <1>8, BusyWillBeMine DEF Owning, Found, Placing
  <2>3. Served(s)'
    BY <1>2, <1>5, <1>7, <2>2 DEF Served
  <2> QED
    BY <2>1, <2>3 DEF AllServed
<1>12. Linked'
  <2>1. ASSUME NEW m \in DOMAIN spawned, link[m] # "closed" PROVE InUse(m)'
    <3>1. InUse(m)
      BY <2>1 DEF OneInv, Linked
    <3>2. sats[spawned[m].slug] = m /\ m # 0 /\ spawned[m].slug \in Slugs
      BY <1>1, <3>1, Satellites DEF InUse, Lone, Holding
    <3>3. CASE spawned[m].slug = s
      <4>1. m = n /\ n # 0
        BY <1>0, <3>2, <3>3
      <4> QED
        BY <1>8, <4>1 DEF InUse, Moves, Holding
    <3>4. CASE spawned[m].slug # s
      BY <1>2, <1>7, <3>2, <3>4 DEF InUse
    <3> QED
      BY <3>3, <3>4
  <2> QED
    BY <1>2, <2>1 DEF Linked
<1>13. AllAccounted'
  BY <1>2, <1>3, AccountedStay DEF OneInv
<1>14. AllAnswered'
  <2>1. ASSUME NEW r \in rows, topic[r.slug] = r.id PROVE Answered(r)'
    <3>1. Answered(r) /\ r.slug \in Slugs /\ ~Busy(r.slug, Answering)
      BY <1>1, BusyIsMine DEF OneInv, AllAnswered, Types, RowTypes, Portfolios, Answering
    <3>2. CASE r.id \in Excused
      BY <1>3, <3>2 DEF Answered
    <3>3. CASE sats[r.slug] # 0 /\ r.slug = s
      <4>1. place = "remove" /\ Busy(r.slug, Answering)'
        BY <1>0, <1>1, <1>8, <3>3, BusyWillBeMine DEF Answering
      <4> QED
        BY <4>1 DEF Answered
    <3>4. CASE sats[r.slug] # 0 /\ r.slug # s
      BY <1>7, <3>1, <3>4 DEF Answered
    <3> QED
      BY <2>1, <3>1, <3>2, <3>3, <3>4 DEF Answered
  <2> QED
    BY <1>2, <2>1 DEF AllAnswered, Answered
<1> QED
  BY <1>9, <1>10, <1>11, <1>12, <1>13, <1>14 DEF OneInv

(* FleetRemove, Detach and RetireForgets: the satellite is taken apart.    *)
LEMMA TakeApartOne ==
  ASSUME Types, OneInv, NEW c \in Clients, FleetRemove(c) \/ Detach(c) \/ RetireForgets(c)
  PROVE  OneInv'
<1>0. PICK s, n : s \in Slugs /\ s = req[c].slug /\ n = req[c].sat
  BY DEF FleetRemove, Detach, RetireForgets, Types, RequestTypes
<1>1. req[c].at \in {"remove", "detach", "forget"} /\ Lone(c) /\ InHand(c)
  BY OthersWait DEF FleetRemove, Detach, RetireForgets, OneInv, InHands
<1>2. UNCHANGED <<rows, spawned, sats, link, topic, halfAdded, late, unerased>>
  BY DEF FleetRemove, Detach, RetireForgets, storeVars, hubVars, satVars, historyVars
<1>3. Excused' = Excused
  BY <1>2 DEF Excused
<1>4. Row(c) \in rows /\ Row(c).slug = s /\ sats[s] = 0 /\ spawned[n] = Row(c)
  BY <1>0, <1>1 DEF InHand, Found, Holding, Row
<1>5. others'[s] = 0 /\ \A t \in Slugs \ {s} : others'[t] = others[t]
  <2>1. CASE FleetRemove(c)
    BY <1>0, <2>1 DEF FleetRemove, Types, SatTypes
  <2>2. CASE Detach(c) \/ RetireForgets(c)
    BY <1>0, <1>1, <2>2 DEF Detach, RetireForgets, hubVars, InHand
  <2> QED
    BY <2>1, <2>2
<1>6. PICK place \in {"detach", "forget", "clear"} : Moves(c, place, s, req[c].id, n)
  BY <1>0, RetireGoesOn
<1>7. place = "clear" => n \notin remembers'
  <2>1. CASE RetireForgets(c)
    BY <1>0, <2>1 DEF RetireForgets
  <2>2. CASE FleetRemove(c) \/ Detach(c)
    BY <1>6, <2>2, RetireGoesOn DEF Moves
  <2> QED
    BY <2>1, <2>2
<1>8. Alone'
  BY <1>1, <1>6, AloneMoves
<1>9. InHands'
  <2>1. req'[c].at = place /\ req'[c].slug = s /\ req'[c].id = req[c].id /\ req'[c].sat = n
    BY <1>6 DEF Moves
  <2>2. Row(c)' = Row(c)
    BY <1>0, <2>1 DEF Row
  <2>3. InHand(c)'
    BY <1>2, <1>4, <1>5, <1>6, <1>7, <2>1, <2>2 DEF InHand
  <2> QED
    BY <1>1, <1>6, <2>3, HandsMove
<1>10. AllServed'
  <2>1. ASSUME NEW t \in Slugs, t # s PROVE Served(t)'
    <3>1. Served(t)
      BY DEF OneInv, AllServed
    <3> QED
      BY <1>0, <1>1, <1>2, <1>5, <1>6, <2>1, <3>1, ServedElsewhere
  <2>2. Busy(s, Owning)'
    BY <1>1, <1>6, BusyWillBeMine DEF Owning, Found
  <2>3. Served(s)'
    BY <1>2, <1>4, <1>5, <2>2 DEF Served
  <2> QED
    BY <2>1, <2>3 DEF AllServed
<1>11. Linked'
  BY <1>0, <1>1, <1>2, <1>6, LinkedStays DEF OneInv, Holding
<1>12. AllAccounted'
  BY <1>2, <1>3, AccountedStay DEF OneInv
<1>13. AllAnswered'
  BY <1>0, <1>1, <1>2, <1>3, <1>6, AnsweredStays DEF OneInv, Answering
<1> QED
  BY <1>8, <1>9, <1>10, <1>11, <1>12, <1>13 DEF OneInv

LEMMA RetireClearsOne ==
  ASSUME Types, Names, OneInv, NEW c \in Clients, RetireClears(c)
  PROVE  OneInv'
<1>0. PICK s, n : s \in Slugs /\ s = req[c].slug /\ n = req[c].sat
  BY DEF RetireClears, Types, RequestTypes
<1>1. req[c].at = "clear" /\ Lone(c) /\ InHand(c)
  BY OthersWait DEF RetireClears, OneInv, InHands
<1>2. UNCHANGED <<rows, spawned, sats, others, remembers, link, halfAdded, late>>
  BY DEF RetireClears, storeVars, hubVars, satVars
<1>3. /\ Row(c) \in rows /\ Row(c).slug = s /\ spawned[n] = Row(c) /\ Row(c).id = req[c].id
      /\ sats[s] = 0 /\ others[s] = 0 /\ (n \in remembers => req[c].id \in late)
  BY <1>0, <1>1 DEF InHand, Found, Holding, Row
<1>4. Moves(c, "close", s, req[c].id, n)
  BY <1>0, RetireGoesOn
<1>5. \/ topic'[s] = 0
      \/ topic'[s] = topic[s] /\ req[c].id \in Excused'
  BY <1>0, <1>3 DEF RetireClears, Types, TopicTypes, Excused
<1>6. \A t \in Slugs \ {s} : topic'[t] = topic[t]
  BY <1>0 DEF RetireClears, Types, TopicTypes
<1>7. Excused \subseteq Excused'
  BY <1>2 DEF RetireClears, Excused
<1>8. Alone'
  BY <1>1, <1>4, AloneMoves
<1>9. InHands'
  <2>1. req'[c].at = "close" /\ req'[c].slug = s /\ req'[c].id = req[c].id /\ req'[c].sat = n
    BY <1>4 DEF Moves
  <2>2. Row(c)' = Row(c)
    BY <1>0, <2>1 DEF Row
  <2>3. InHand(c)'
    BY <1>2, <1>3, <2>1, <2>2 DEF InHand
  <2> QED
    BY <1>1, <1>4, <2>3, HandsMove
<1>10. AllServed'
  <2>1. ASSUME NEW t \in Slugs, t # s PROVE Served(t)'
    <3>1. Served(t)
      BY DEF OneInv, AllServed
    <3> QED
      BY <1>0, <1>1, <1>2, <1>4, <2>1, <3>1, ServedElsewhere
  <2>2. Busy(s, Owning)'
    BY <1>1, <1>4, BusyWillBeMine DEF Owning, Found
  <2>3. Served(s)'
    BY <1>2, <1>3, <2>2 DEF Served
  <2> QED
    BY <2>1, <2>3 DEF AllServed
<1>11. Linked'
  BY <1>0, <1>1, <1>2, <1>4, LinkedStays DEF OneInv, Holding
<1>12. AllAccounted'
  <2>1. ASSUME NEW t \in Slugs PROVE topic'[t] = 0 \/ HasRow(topic'[t]) \/ topic'[t] \in Excused'
    BY <1>5, <1>6, <1>7 DEF OneInv, AllAccounted, Accounted
  <2> QED
    BY <1>2, <2>1 DEF AllAccounted, Accounted, HasRow
<1>13. AllAnswered'
  <2>1. ASSUME NEW r \in rows, topic'[r.slug] = r.id PROVE r.id \in Excused' \/ sats[r.slug] # 0
    <3>1. Answered(r) /\ r.slug \in Slugs /\ r.id # 0
      BY DEF OneInv, AllAnswered, Types, RowTypes, Portfolios
    <3>2. CASE r.slug = s
      <4>1. r.id = req[c].id
        BY <1>0, <1>1, <1>3, <3>2, RowIsMine DEF Found
      <4> QED
        BY <1>5, <2>1, <3>1, <3>2, <4>1
    <3>3. CASE r.slug # s
      <4>1. ~Busy(r.slug, Answering)
        BY <1>0, <1>1, <3>3, BusyIsMine
      <4> QED
        BY <1>6, <1>7, <2>1, <3>1, <3>3, <4>1 DEF Answered
    <3> QED
      BY <3>2, <3>3
  <2> QED
    BY <1>2, <2>1 DEF AllAnswered, Answered
<1> QED
  BY <1>8, <1>9, <1>10, <1>11, <1>12, <1>13 DEF OneInv

LEMMA RetireClosesOne ==
  ASSUME Types, Names, OneInv, NEW c \in Clients, RetireCloses(c)
  PROVE  OneInv'
<1>0. PICK s, n : s \in Slugs /\ s = req[c].slug /\ n = req[c].sat
  BY DEF RetireCloses, Types, RequestTypes
<1>1. req[c].at = "close" /\ Lone(c) /\ InHand(c)
  BY OthersWait DEF RetireCloses, OneInv, InHands
<1>2. UNCHANGED <<rows, spawned, sats, others, remembers, topic, halfAdded, late, unerased>>
  BY DEF RetireCloses, storeVars, hubVars, historyVars
<1>3. Excused' = Excused
  BY <1>2 DEF Excused
<1>4. Row(c) \in rows /\ Row(c).slug = s /\ sats[s] = 0 /\ others[s] = 0
  BY <1>0, <1>1 DEF InHand, Found, Row
<1>5. Moves(c, "erase", s, req[c].id, n)
  BY <1>0, RetireGoesOn
<1>6. n \in DOMAIN spawned /\ DOMAIN link = DOMAIN spawned
  BY <1>0, <1>1 DEF Types, RequestTypes, SatTypes, LinkTypes, Holding
<1>7. link'[n] = "closed" /\ \A m \in DOMAIN spawned \ {n} : link'[m] = link[m]
  BY <1>0, <1>6 DEF RetireCloses
<1>8. Alone'
  BY <1>1, <1>5, AloneMoves
<1>9. InHands'
  <2>1. req'[c].at = "erase" /\ req'[c].slug = s /\ req'[c].id = req[c].id /\ req'[c].sat = n
    BY <1>5 DEF Moves
  <2>2. Row(c)' = Row(c)
    BY <1>0, <2>1 DEF Row
  <2>3. InHand(c)'
    BY <1>2, <1>4, <2>1, <2>2 DEF InHand, Holding
  <2> QED
    BY <1>1, <1>5, <2>3, HandsMove
<1>10. AllServed'
  <2>1. ASSUME NEW t \in Slugs, t # s PROVE Served(t)'
    <3>1. Served(t)
      BY DEF OneInv, AllServed
    <3> QED
      BY <1>0, <1>1, <1>2, <1>5, <2>1, <3>1, ServedElsewhere
  <2>2. Busy(s, Owning)'
    BY <1>1, <1>5, BusyWillBeMine DEF Owning, Found
  <2>3. Served(s)'
    BY <1>2, <1>4, <2>2 DEF Served
  <2> QED
    BY <2>1, <2>3 DEF AllServed
<1>11. Linked'
  <2>1. ASSUME NEW m \in DOMAIN spawned, link'[m] # "closed" PROVE InUse(m)'
    <3>1. m # n /\ InUse(m)
      BY <1>7, <2>1 DEF OneInv, Linked
    <3>2. sats[spawned[m].slug] = m
      BY <1>0, <1>1, <3>1 DEF InUse, Lone, Holding
    <3> QED
      BY <1>2, <3>2 DEF InUse
  <2> QED
    BY <1>2, <2>1 DEF Linked
<1>12. AllAccounted'
  BY <1>2, <1>3, AccountedStay DEF OneInv
<1>13. AllAnswered'
  BY <1>1, <1>2, <1>3, <1>5, AnsweredStays DEF OneInv, Answering
<1> QED
  BY <1>8, <1>9, <1>10, <1>11, <1>12, <1>13 DEF OneInv

LEMMA DeleteOne ==
  ASSUME Types, Names, OneInv, NEW c \in Clients, DeletePortfolio(c)
  PROVE  OneInv'
<1>0. PICK s, n : s \in Slugs /\ s = req[c].slug /\ n = req[c].sat
  BY DEF DeletePortfolio, Types, RequestTypes
<1>1. req[c].at = "erase" /\ Lone(c) /\ InHand(c)
  BY OthersWait DEF DeletePortfolio, OneInv, InHands
<1>2. UNCHANGED <<spawned, sats, others, remembers, link, topic, halfAdded, late, unerased>>
  BY DEF DeletePortfolio, hubVars, satVars, historyVars
<1>3. Excused' = Excused
  BY <1>2 DEF Excused
<1>4. /\ Row(c) \in rows /\ Row(c).slug = s /\ Row(c).id = req[c].id
      /\ sats[s] = 0 /\ others[s] = 0
  BY <1>0, <1>1 DEF InHand, Found, Row
<1>5. PICK place, slug, id, sat :
        /\ Moves(c, place, slug, id, sat)
        /\ \/ place = "idle" /\ rows' = {r \in rows : r.id # req[c].id}
           \/ place = "spawn" /\ slug = s /\ id = req[c].id /\ UNCHANGED rows
  BY <1>0, DeleteGoesOn
<1>6. /\ rows' \subseteq rows /\ \A r \in rows : r.slug # s => r \in rows'
      /\ place = "idle" => \A r \in rows' : r.slug # s
  <2>1. \A r \in rows : r.slug = s => r.id = req[c].id
    BY <1>0, <1>1, <1>4, RowIsMine DEF Found
  <2>2. \A r \in rows : r.id = req[c].id => r.slug = s
    BY <1>0, <1>1, <1>4, RowIsMine DEF Found
  <2> QED
    BY <1>5, <2>1, <2>2
<1>7. Alone'
  BY <1>1, <1>5, AloneMoves
<1>8. InHands'
  <2>1. CASE place = "idle"
    <3>1. InHand(c)'
      BY <1>5, <2>1 DEF InHand, Moves, Found, Holding
    <3> QED
      BY <1>1, <1>5, <3>1, HandsMove
  <2>2. CASE place = "spawn" /\ slug = s /\ id = req[c].id /\ UNCHANGED rows
    <3>1. req'[c].at = "spawn" /\ req'[c].slug = s /\ req'[c].id = req[c].id
      BY <1>5, <2>2 DEF Moves
    <3>2. Row(c)' = Row(c)
      BY <1>0, <3>1 DEF Row
    <3>3. InHand(c)'
      BY <1>2, <1>4, <2>2, <3>1, <3>2 DEF InHand, Holding
    <3> QED
      BY <1>1, <1>5, <3>3, HandsMove
  <2> QED
    BY <1>5, <2>1, <2>2
<1>9. AllServed'
  <2>1. ASSUME NEW t \in Slugs, t # s PROVE Served(t)'
    <3>1. Served(t) /\ \A r \in rows : r.slug = t => r \in rows'
      BY <1>6, <2>1 DEF OneInv, AllServed
    <3> QED
      BY <1>0, <1>1, <1>2, <1>5, <1>6, <2>1, <3>1, ServedElsewhere
  <2>2. Served(s)'
    <3>1. place = "spawn" /\ slug = s => Busy(s, Owning)'
      BY <1>1, <1>5, BusyWillBeMine DEF Owning, Found
    <3> QED
      BY <1>2, <1>4, <1>5, <1>6, <3>1 DEF Served
  <2> QED
    BY <2>1, <2>2 DEF AllServed
<1>10. Linked'
  BY <1>1, <1>2, <1>5, LinkedStays DEF OneInv, Holding
<1>11. AllAccounted'
  <2>1. ASSUME NEW t \in Slugs
        PROVE  topic[t] = 0 \/ (\E r \in rows' : r.id = topic[t]) \/ topic[t] \in Excused
    <3>1. Accounted(t)
      BY DEF OneInv, AllAccounted
    <3>2. CASE \E r \in rows : r.id = topic[t]
      <4>1. PICK r \in rows : r.id = topic[t]
        BY <3>2
      <4>2. CASE r \in rows'
        BY <4>1, <4>2
      <4>3. CASE r \notin rows'
        <5>1. r.slug = s /\ r = Row(c)
          BY <1>0, <1>1, <1>6, <4>3, RowIsMine DEF Found
        <5>2. t = s
          BY <4>1, <5>1 DEF Names, Held
        <5>3. Answered(r) /\ ~Busy(s, Answering)
          BY <1>1, BusyIsMine DEF OneInv, AllAnswered, Answering
        <5> QED
          BY <1>4, <4>1, <5>1, <5>2, <5>3 DEF Answered
      <4> QED
        BY <4>2, <4>3
    <3> QED
      BY <3>1, <3>2 DEF Accounted, HasRow
  <2> QED
    BY <1>2, <1>3, <2>1 DEF AllAccounted, Accounted, HasRow
<1>12. AllAnswered'
  BY <1>1, <1>2, <1>3, <1>5, <1>6, AnsweredStays DEF OneInv, Answering
<1> QED
  BY <1>7, <1>8, <1>9, <1>10, <1>11, <1>12 DEF OneInv

-----------------------------------------------------------------------------
(* What the publications and the connections do with it.                   *)

(* A publisher in use belongs to a row, and its document is answered for.  *)
LEMMA PublisherInUse ==
  ASSUME Types, OneInv, NEW n \in DOMAIN spawned, InUse(n)
  PROVE  /\ spawned[n] \in rows
         /\ \/ sats[spawned[n].slug] = n
            \/ \E c \in Clients :
                 /\ req[c].at \in Holding /\ req[c].sat = n /\ spawned[n] = Row(c)
<1>1. CASE sats[spawned[n].slug] = n
  <2>1. Served(spawned[n].slug) /\ n # 0
    BY Satellites DEF OneInv, AllServed
  <2> QED
    BY <1>1, <2>1 DEF Served
<1>2. CASE \E c \in Clients : req[c].at \in Holding /\ req[c].sat = n
  <2>1. PICK c \in Clients : req[c].at \in Holding /\ req[c].sat = n
    BY <1>2
  <2>2. InHand(c) /\ req[c].at \in Found
    BY <2>1 DEF OneInv, InHands, Holding, Found
  <2> QED
    BY <2>1, <2>2 DEF InHand
<1> QED
  BY <1>1, <1>2 DEF InUse

(* The topic gets the document of a publisher in use: if nobody answers    *)
(* for it any more, the document came late.                                *)
LEMMA SentOne ==
  ASSUME Types, OneInv, NEW n \in DOMAIN spawned, InUse(n),
         UNCHANGED <<rows, spawned, sats, others, req, unerased>>, late \subseteq late',
         topic' = topic \/ topic' = [topic EXCEPT ![spawned[n].slug] = spawned[n].id],
         topic' # topic /\ (\E c \in Clients : req[c].at = "close" /\ req[c].sat = n) =>
           spawned[n].id \in late'
  PROVE  AllAccounted' /\ AllAnswered'
<1> DEFINE p == spawned[n]
<1>1. p \in rows /\ p.slug \in Slugs
  BY PublisherInUse, Satellites
<1>2. \A t \in Slugs : topic'[t] = topic[t] \/ (t = p.slug /\ topic'[t] = p.id)
  BY DEF Types, TopicTypes
<1>3. Excused \subseteq Excused'
  BY DEF Excused
<1>4. AllAccounted'
  <2>1. ASSUME NEW t \in Slugs PROVE Accounted(t)'
    <3>1. CASE topic'[t] = topic[t]
      BY <1>3, <3>1 DEF OneInv, AllAccounted, Accounted, HasRow
    <3>2. CASE t = p.slug /\ topic'[t] = p.id
      BY <1>1, <3>2 DEF Accounted, HasRow
    <3> QED
      BY <1>2, <3>1, <3>2
  <2> QED
    BY <2>1 DEF AllAccounted
<1>5. AllAnswered'
  <2>1. ASSUME NEW r \in rows, topic'[r.slug] = r.id
        PROVE  r.id \in Excused' \/ sats[r.slug] # 0 \/ Busy(r.slug, Answering)
    <3>1. Answered(r) /\ r.slug \in Slugs
      BY DEF OneInv, AllAnswered, Types, RowTypes, Portfolios
    <3>2. CASE topic'[r.slug] = topic[r.slug]
      BY <1>3, <2>1, <3>1, <3>2 DEF Answered
    <3>3. CASE topic'[r.slug] # topic[r.slug]
      <4>1. r.slug = p.slug /\ r.id = p.id
        BY <1>2, <2>1, <3>1, <3>3
      <4>2. CASE sats[p.slug] = n
        BY <4>1, <4>2, Satellites
      <4>3. CASE \E c \in Clients : req[c].at \in Holding /\ req[c].sat = n /\ p = Row(c)
        <5>1. PICK c \in Clients : req[c].at \in Holding /\ req[c].sat = n /\ p = Row(c)
          BY <4>3
        <5>2. CASE req[c].at = "close"
          BY <3>3, <4>1, <5>1, <5>2 DEF Excused
        <5>3. CASE req[c].at # "close"
          BY <4>1, <5>1, <5>3 DEF Busy, Answering, Holding, Row
        <5> QED
          BY <5>2, <5>3
      <4> QED
        BY <4>2, <4>3, PublisherInUse
    <3> QED
      BY <3>2, <3>3
  <2> QED
    BY <2>1 DEF AllAnswered, Answered, Busy
<1> QED
  BY <1>4, <1>5

LEMMA HandOverOne ==
  ASSUME Types, OneInv, NEW n \in DOMAIN spawned, HandOver(n),
         UNCHANGED <<rows, spawned, sats, others, link, req, halfAdded, unerased>>
  PROVE  OneInv'
<1>1. late \subseteq late' /\ remembers' = remembers \cup {n}
  BY DEF HandOver
<1>2. Alone' /\ AllServed' /\ Linked'
  BY DEF OneInv, Alone, AllServed, Served, Busy, Linked, InUse
<1>3. InHands'
  <2>1. ASSUME NEW c \in Clients, req[c].at \in {"clear", "close"}, req[c].sat \in remembers'
        PROVE  req[c].id \in late'
    <3>1. CASE req[c].sat = n
      <4>1. Retired(n) /\ spawned[n] = Row(c)
        BY <2>1, <3>1 DEF Retired, OneInv, InHands, InHand, Holding
      <4> QED
        BY <4>1 DEF HandOver, Row
    <3>2. CASE req[c].sat # n
      BY <1>1, <2>1, <3>2 DEF OneInv, InHands, InHand
    <3> QED
      BY <3>1, <3>2
  <2>2. ASSUME NEW c \in Clients PROVE InHand(c)'
    <3>1. InHand(c)
      BY DEF OneInv, InHands
    <3> QED
      BY <2>1, <3>1 DEF InHand, Row, SlugTaken
  <2> QED
    BY <2>2 DEF InHands
<1>4. AllAccounted' /\ AllAnswered'
  <2>1. CASE link[n] = "open"
    <3>1. InUse(n)
      BY <2>1 DEF OneInv, Linked
    <3>2. topic' = [topic EXCEPT ![spawned[n].slug] = spawned[n].id]
      BY <2>1 DEF HandOver
    <3>3. (\E c \in Clients : req[c].at = "close" /\ req[c].sat = n) => spawned[n].id \in late'
      BY DEF HandOver, Retired
    <3> QED
      BY <1>1, <3>1, <3>2, <3>3, SentOne
  <2>2. CASE link[n] # "open"
    <3>1. topic' = topic
      BY <2>2 DEF HandOver
    <3> QED
      BY <1>1, <3>1
      DEF OneInv, AllAccounted, Accounted, HasRow, AllAnswered, Answered, Busy, Excused
  <2> QED
    BY <2>1, <2>2
<1> QED
  BY <1>2, <1>3, <1>4 DEF OneInv

LEMMA ConnectOne ==
  ASSUME Types, OneInv, NEW n \in DOMAIN spawned, Connect(n)
  PROVE  OneInv'
<1>1. UNCHANGED <<rows, spawned, sats, others, remembers, req, halfAdded, late, unerased>>
  BY DEF Connect, storeVars, hubVars, historyVars
<1>2. DOMAIN link = DOMAIN spawned
  BY DEF Types, SatTypes, LinkTypes
<1>3. link[n] = "down" /\ \A m \in DOMAIN spawned : link'[m] # "closed" => link[m] # "closed"
  BY <1>2 DEF Connect
<1>4. InUse(n)
  BY <1>3 DEF OneInv, Linked
<1>5. Alone' /\ AllServed' /\ Linked' /\ InHands'
  BY <1>1, <1>3 DEF OneInv, Alone, AllServed, Served, Busy, Linked, InUse, InHands, InHand, Row,
     SlugTaken
<1>6. /\ topic' = topic \/ topic' = [topic EXCEPT ![spawned[n].slug] = spawned[n].id]
      /\ topic' # topic => n \in remembers
  BY DEF Connect
<1>7. topic' # topic /\ (\E c \in Clients : req[c].at = "close" /\ req[c].sat = n) =>
        spawned[n].id \in late'
  <2> SUFFICES ASSUME n \in remembers, NEW c \in Clients, req[c].at = "close", req[c].sat = n
               PROVE  spawned[n].id \in late
    BY <1>1, <1>6
  <2>1. InHand(c)
    BY DEF OneInv, InHands
  <2> QED
    BY <2>1 DEF InHand, Holding, Row
<1>8. AllAccounted' /\ AllAnswered'
  BY <1>1, <1>4, <1>6, <1>7, SentOne
<1> QED
  BY <1>5, <1>8 DEF OneInv

LEMMA RestartOne ==
  ASSUME Types, OneInv, Restart
  PROVE  OneInv'
<1>1. UNCHANGED <<rows, topic, halfAdded, late, unerased>> /\ req' = [c \in Clients |-> NoRequest]
  BY DEF Restart, storeVars, historyVars
<1>2. \A c \in Clients : req'[c].at = "idle"
  BY <1>1 DEF NoRequest
<1>3. /\ \A n \in DOMAIN spawned' : spawned'[n] \in rows
      /\ \A m, n \in DOMAIN spawned' : spawned'[m].slug = spawned'[n].slug => m = n
      /\ sats' = others'
      /\ \A s \in Slugs :
           \/ ~SlugTaken(s) /\ sats'[s] = 0
           \/ /\ SlugTaken(s) /\ sats'[s] \in DOMAIN spawned'
              /\ spawned'[sats'[s]].slug = s
  BY RestartServes
<1>4. \A n \in DOMAIN spawned' : n # 0
  BY RestartServes
<1>5. Alone'
  BY <1>2 DEF Alone
<1>6. InHands'
  BY <1>2 DEF InHands, InHand, Found, Holding
<1>7. AllServed'
  BY <1>1, <1>3, <1>4 DEF AllServed, Served, SlugTaken
<1>8. Linked'
  <2>1. ASSUME NEW n \in DOMAIN spawned' PROVE sats'[spawned'[n].slug] = n
    <3>1. spawned'[n] \in rows /\ spawned'[n].slug \in Slugs
      BY <1>3 DEF Types, RowTypes, Portfolios
    <3> QED
      BY <1>3, <3>1 DEF SlugTaken
  <2> QED
    BY <2>1 DEF Linked, InUse
<1>9. AllAccounted'
  BY <1>1 DEF OneInv, AllAccounted, Accounted, HasRow, Excused
<1>10. AllAnswered'
  <2>1. \A r \in rows : r.slug \in Slugs /\ SlugTaken(r.slug)
    BY DEF Types, RowTypes, Portfolios, SlugTaken
  <2>2. \A r \in rows : sats'[r.slug] # 0
    BY <1>3, <1>4, <2>1
  <2> QED
    BY <1>1, <2>2 DEF AllAnswered, Answered
<1> QED
  BY <1>5, <1>6, <1>7, <1>8, <1>9, <1>10 DEF OneInv

LEMMA OneNext ==
  ASSUME Types, Names, limits.atOnce = 1, OneInv, [Next]_vars
  PROVE  OneInv'
<1>1. ASSUME UNCHANGED <<rows, spawned, sats, others, remembers, req, topic, historyVars>>,
             UNCHANGED link \/ \E n \in DOMAIN spawned : Drop(n)
      PROVE  OneInv'
  <2>1. \A n \in DOMAIN spawned : link'[n] # "closed" => link[n] # "closed"
    <3>1. CASE UNCHANGED link
      BY <3>1
    <3>2. ASSUME NEW m \in DOMAIN spawned, Drop(m)
          PROVE  \A n \in DOMAIN spawned : link'[n] # "closed" => link[n] # "closed"
      BY <3>2 DEF Drop, Types, SatTypes, LinkTypes
    <3> QED
      BY <1>1, <3>1, <3>2
  <2>2. Linked'
    BY <1>1, <2>1 DEF OneInv, Linked, InUse
  <2>3. Alone' /\ InHands'
    BY <1>1 DEF OneInv, Alone, InHands, InHand, Row, SlugTaken, historyVars
  <2>4. AllServed'
    BY <1>1 DEF OneInv, AllServed, Served, Busy, historyVars
  <2>5. AllAccounted' /\ AllAnswered'
    BY <1>1
    DEF OneInv, AllAccounted, Accounted, HasRow, AllAnswered, Answered, Busy, Excused, historyVars
  <2> QED
    BY <2>2, <2>3, <2>4, <2>5 DEF OneInv
<1>2. CASE UNCHANGED vars
  BY <1>1, <1>2 DEF vars, storeVars, hubVars, satVars
<1>3. ASSUME NEW c \in Clients, NEW s \in Slugs, Request(c, "insert", s) \/ Request(c, "find", s)
      PROVE  OneInv'
  BY <1>3, RequestOne, LifecycleBounds
<1>4. ASSUME NEW c \in Clients, Handle(c) PROVE OneInv'
  BY <1>4, AddOne, ReadBackOne, SpawnOne, HookOne, FindOne, UnhookOne, TakeApartOne,
     RetireClearsOne, RetireClosesOne, DeleteOne DEF Handle
<1>5. ASSUME NEW s \in Slugs, Mutate(s) PROVE OneInv'
  BY <1>1, <1>5 DEF Mutate, storeVars, hubVars, satVars
<1>6. ASSUME NEW n \in DOMAIN spawned, Publication(n) \/ Connect(n) \/ Drop(n) PROVE OneInv'
  <2>1. CASE TakePublisher(n)
    BY <1>1, <2>1 DEF TakePublisher, storeVars, hubVars, satVars
  <2>2. CASE Drop(n)
    <3>1. UNCHANGED <<rows, spawned, sats, others, remembers, req, topic, historyVars>>
      BY <2>2 DEF Drop, storeVars, hubVars
    <3> QED
      BY <1>1, <2>2, <3>1
  <2>3. CASE Publish(n)
    <3>1. /\ HandOver(n)
          /\ UNCHANGED <<rows, spawned, sats, others, link, req, halfAdded, unerased>>
      BY <2>3 DEF Publish, storeVars, hubVars
    <3> QED
      BY <3>1, HandOverOne
  <2> QED
    BY <1>6, <2>1, <2>2, <2>3, ConnectOne DEF Publication
<1>7. CASE DailyStart \/ DailyRun
  <2>1. CASE DailyPublishes
    <3>1. daily.sat \in DOMAIN spawned
      BY <2>1 DEF DailyPublishes, Types, LinkTypes
    <3>2. /\ HandOver(daily.sat)
          /\ UNCHANGED <<rows, spawned, sats, others, link, req, halfAdded, unerased>>
      BY <2>1 DEF DailyPublishes, storeVars, hubVars
    <3> QED
      BY <3>1, <3>2, HandOverOne
  <2>2. CASE DailySnapshot
    <3>1. UNCHANGED <<rows, spawned, sats, others, remembers, link, req, topic, halfAdded, late,
                      unerased>>
      BY <2>2 DEF DailySnapshot, storeVars, hubVars, satVars
    <3>2. Alone' /\ InHands' /\ Linked'
      BY <3>1 DEF OneInv, Alone, InHands, InHand, Row, SlugTaken, Linked, InUse
    <3>3. AllServed'
      BY <3>1 DEF OneInv, AllServed, Served, Busy
    <3>4. AllAccounted' /\ AllAnswered'
      BY <3>1
      DEF OneInv, AllAccounted, Accounted, HasRow, AllAnswered, Answered, Busy, Excused
    <3> QED
      BY <3>2, <3>3, <3>4 DEF OneInv
  <2>3. CASE DailyStart \/ DailyTakesPublisher \/ DailyEnds
    BY <1>1, <2>3 DEF DailyStart, DailyTakesPublisher, DailyEnds, storeVars, hubVars, satVars
  <2> QED
    BY <1>7, <2>1, <2>2, <2>3 DEF DailyRun
<1>8. CASE Restart
  BY <1>8, RestartOne
<1> QED
  BY <1>2, <1>3, <1>4, <1>5, <1>6, <1>7, <1>8 DEF Next

LEMMA OneHolds == Spec => [](limits.atOnce = 1 => OneInv)
<1>1. Init => (limits.atOnce = 1 => OneInv)
  <2> SUFFICES ASSUME Init PROVE OneInv
    OBVIOUS
  <2>1. /\ rows = {} /\ DOMAIN spawned = {} /\ sats = Nobody /\ others = Nobody /\ topic = Nobody
        /\ req = [c \in Clients |-> NoRequest]
    BY DEF Init
  <2>2. \A c \in Clients : req[c].at = "idle"
    BY <2>1 DEF NoRequest
  <2>3. Alone /\ InHands
    BY <2>2 DEF Alone, InHands, InHand, Found, Holding
  <2>4. AllServed
    BY <2>1 DEF AllServed, Served, Nobody
  <2>5. Linked /\ AllAccounted /\ AllAnswered
    BY <2>1 DEF Linked, AllAccounted, Accounted, AllAnswered, Nobody
  <2> QED
    BY <2>3, <2>4, <2>5 DEF OneInv
<1>2. Types /\ Names /\ (limits.atOnce = 1 => OneInv) /\ [Next]_vars
      => (limits.atOnce = 1 => OneInv)'
  <2>1. [Next]_vars => limits' = limits
    BY ZenonT(60) DEF Next, Request, Handle, AddPortfolio, ReadBack, Spawn, Hook, Find, Unhook, FleetRemove,
       Detach, RetireForgets, RetireClears, RetireCloses, DeletePortfolio, Mutate, Publication,
       TakePublisher, Publish, Connect, Drop, DailyStart, DailyRun, DailySnapshot,
       DailyTakesPublisher, DailyPublishes, DailyEnds, Restart, vars, countVars
  <2> QED
    BY <2>1, OneNext
<1> QED
  BY <1>1, <1>2, TypesHold, NamesHold, PTL DEF Spec

-----------------------------------------------------------------------------
(* With one request at a time, whatever fails, drops or restarts: the hub  *)
(* and the fleet hold a satellite for each row, save for the rows whose    *)
(* POST answered 500, and none without a row; and, with any number of      *)
(* requests, no satellite takes the id of another portfolio (hub.go:       *)
(* handleAdd, handleDelete, attach).                                       *)
THEOREM PortfoliosStayInPlace == Spec => []PortfoliosInPlace
<1>1. Names => OwnPortfolioOnly
  BY DEF Names, Held, OwnPortfolioOnly
<1>2. Types /\ (limits.atOnce = 1 => OneInv) => HubMatchesStore
  <2> SUFFICES ASSUME Types, OneInv, AllIdle
               PROVE  /\ \A s \in Slugs : sats[s] = others[s]
                      /\ \A s \in Slugs : sats[s] # 0 => spawned[sats[s]] \in rows
                      /\ \A r \in rows : sats[r.slug] = 0 => r.id \in halfAdded
    BY DEF HubMatchesStore
  <2>1. \A s \in Slugs : ~Busy(s, Placing) /\ ~Busy(s, Owning)
    BY DEF AllIdle, Busy, Placing, Owning, Found
  <2>2. \A r \in rows : r.slug \in Slugs
    BY DEF Types, RowTypes, Portfolios
  <2> QED
    BY <2>1, <2>2 DEF OneInv, AllServed, Served
<1> QED
  BY <1>1, <1>2, TypesHold, NamesHold, OneHolds, PTL DEF PortfoliosInPlace

(* With one request at a time the retained document of a deleted portfolio *)
(* is gone from the broker, reconnects and restarts included, unless it    *)
(* was handed over after the topic was cleared or the broker was away then *)
(* (publisher.go: Retire; main.go: stop).                                  *)
THEOREM GhostsNeedAnAccident == Spec => []GhostsOnlyByAccident
<1>1. (limits.atOnce = 1 => OneInv) => GhostsOnlyByAccident
  BY DEF OneInv, AllAccounted, Accounted, Excused, GhostsOnlyByAccident
<1> QED
  BY <1>1, OneHolds, PTL

=============================================================================
