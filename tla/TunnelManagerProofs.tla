------------------------ MODULE TunnelManagerProofs ------------------------
(***************************************************************************)
(* Proofs about TunnelManager, for any names, any number of requests and   *)
(* clients, and any limits on failures, falls and restarts.                *)
(***************************************************************************)
EXTENDS TunnelManager, FiniteSetTheorems, TLAPS

Processes == Clients \cup {Main}
Names == Hosts \cup {NoHost}

Supervisors ==
  [token : Nat, state : {"up", "down", "done"}, cancelled : BOOLEAN, fromStart : BOOLEAN]
Secrets ==
  [api : BOOLEAN, tunnel : Nat, token : Nat, host : Names, record : Nat, pem : Nat,
   key : Nat, url : Names]
SecretKeys == {"api", "tunnel", "token", "host", "record", "pem", "key", "url"}
Requests ==
  [at : Places, what : {"", "connect", "disconnect", "close"}, host : Names, tunnel : Nat,
   record : Nat, mine : Nat, todo : Seq(SecretKeys \cup {"memory"}), new : Secrets]
Issuances ==
  [at : {"idle", "read", "challenge", "pem", "key", "load"}, host : Names]

\* What is left of a list of keys to be written: its last ones.
LeftOf(todo, keys) ==
  /\ Len(todo) <= Len(keys)
  /\ \A i \in 1..Len(todo) : todo[i] = keys[Len(keys) - Len(todo) + i]

(* Where a request is, and what it has still to write.                     *)
InOrder(r) ==
  /\ r.at \in {"find", "route", "supervise"} => r.what = "connect"
  /\ r.at \in {"read", "clean"} => r.what = "disconnect"
  /\ r.at \in {"stop", "wait", "write"} => r.what \in {"connect", "disconnect"}
  /\ r.at # "closed"
  /\ r.what = "disconnect" => r.new = Blank
  /\ r.at = "write" =>
       LeftOf(r.todo, IF r.what = "connect" THEN ConnectKeys ELSE DisconnectKeys)

MainInOrder(r) ==
  /\ r.at \in {"idle", "stop", "wait", "closed"}
  /\ r.at # "idle" => r.what = "close"

CloudTypes ==
  /\ tunnels \subseteq Nat
  /\ \A r \in records : r.id \in Nat
  /\ ids \in Nat
ConnTypes ==
  /\ conns \in Seq(Supervisors)
  /\ sup \in 0..Len(conns)
  /\ running \in BOOLEAN
RequestTypes ==
  /\ req \in [Processes -> Requests]
  /\ \A c \in Clients : InOrder(req[c])
  /\ MainInOrder(req[Main])
CertTypes ==
  /\ memory \in Nat
  /\ issued \in Seq(Names)
  /\ issue \in Issuances

Types ==
  /\ limits \in Limits /\ faults \in Nat
  /\ secrets \in Secrets
  /\ CloudTypes /\ ConnTypes /\ RequestTypes /\ CertTypes

-----------------------------------------------------------------------------
(* One step of one request.                                                *)

LEMMA Beginnings ==
  /\ Blank \in Secrets /\ Blank.token = 0
  /\ NoRequest \in Requests
  /\ NoRequest.at = "idle" /\ NoRequest.what = "" /\ NoRequest.mine = 0
  /\ InOrder(NoRequest)
  /\ NoIssue \in Issuances /\ [NoIssue EXCEPT !.at = "read"] \in Issuances
BY TunnelNames DEF Blank, NoRequest, NoIssue, Secrets, Requests, Issuances, Places, Names, InOrder

LEMMA NoConnector ==
  <<>> \in Seq(Supervisors) /\ Len(<<>>) = 0 /\ DOMAIN <<>> = {} /\ <<>> \in Seq(Names)
OBVIOUS

(* Everybody but p is where he was.                                        *)
OthersWait(p) == \A q \in Processes \ {p} : req'[q] = req[q]

Ended(p) == req'[p] = NoRequest

Moved(p, place) ==
  /\ req'[p].at = place
  /\ req'[p].what = req[p].what
  /\ req'[p].mine = req[p].mine
  /\ req'[p].new = req[p].new
  /\ req'[p].todo = req[p].todo

LEMMA EndOfRequest ==
  ASSUME req \in [Processes -> Requests], NEW p \in Processes, Ends(p)
  PROVE  req' \in [Processes -> Requests] /\ OthersWait(p) /\ Ended(p)
BY Beginnings DEF Ends, OthersWait, Ended

LEMMA StepOfRequest ==
  ASSUME req \in [Processes -> Requests], NEW p \in Processes, NEW place \in Places,
         Goes(p, place)
  PROVE  req' \in [Processes -> Requests] /\ OthersWait(p) /\ Moved(p, place)
BY DEF Goes, OthersWait, Moved, Requests

LEMMA RequestOf ==
  ASSUME req \in [Processes -> Requests], NEW c \in Clients, NEW r \in Requests,
         Request(c, r)
  PROVE  req' \in [Processes -> Requests] /\ OthersWait(c) /\ req'[c] = r
BY DEF Request, OthersWait, Processes

LEMMA ConnectBegins ==
  ASSUME Types, NEW c \in Clients, Connect(c)
  PROVE  /\ req[c].at = "idle" /\ c \in limits.users
         /\ req' \in [Processes -> Requests] /\ OthersWait(c)
         /\ req'[c].at = "find" /\ req'[c].what = "connect" /\ req'[c].mine = 0
         /\ UNCHANGED <<secrets, cloudVars, connVars, certVars, limits, faults>>
<1> DEFINE r(h) == [NoRequest EXCEPT !.at = "find", !.what = "connect", !.host = h]
<1>1. \A h \in Hosts : r(h) \in Requests /\ r(h).at = "find" /\ r(h).what = "connect"
                       /\ r(h).mine = 0
  BY ONLY ZenonT(60), Beginnings DEF Requests, Places, Names, NoRequest
<1>2. PICK h \in Hosts : Request(c, r(h))
  BY DEF Connect
<1> HIDE DEF r
<1>3. req' \in [Processes -> Requests] /\ OthersWait(c) /\ req'[c] = r(h)
  BY <1>1, <1>2, RequestOf DEF Types, RequestTypes
<1> QED
  BY <1>1, <1>2, <1>3 DEF Request

LEMMA DisconnectBegins ==
  ASSUME Types, NEW c \in Clients, Disconnect(c)
  PROVE  /\ req[c].at = "idle" /\ c \in limits.users
         /\ req' \in [Processes -> Requests] /\ OthersWait(c)
         /\ req'[c].at = "read" /\ req'[c].what = "disconnect" /\ req'[c].mine = 0
         /\ req'[c].new = Blank
         /\ UNCHANGED <<secrets, cloudVars, connVars, certVars, limits, faults>>
<1> DEFINE r == [NoRequest EXCEPT !.at = "read", !.what = "disconnect"]
<1>1. r \in Requests /\ r.at = "read" /\ r.what = "disconnect" /\ r.mine = 0
      /\ r.new = Blank
  BY ONLY ZenonT(60), Beginnings DEF Requests, Places, NoRequest
<1>2. Request(c, r)
  BY DEF Disconnect
<1> HIDE DEF r
<1>3. req' \in [Processes -> Requests] /\ OthersWait(c) /\ req'[c] = r
  BY <1>1, <1>2, RequestOf DEF Types, RequestTypes
<1> QED
  BY <1>1, <1>2, <1>3 DEF Request

LEMMA TunnelFound ==
  ASSUME Types, NEW c \in Clients, FindOrCreateTunnel(c)
  PROVE  /\ req[c].at = "find"
         /\ req' \in [Processes -> Requests] /\ OthersWait(c)
         /\ Ended(c) \/ Moved(c, "route")
         /\ CloudTypes'
         /\ faults' \in {faults, faults + 1}
         /\ UNCHANGED <<secrets, connVars, certVars, limits>>
<1>1. c \in Processes /\ req \in [Processes -> Requests]
  BY DEF Processes, Types, RequestTypes
<1>2. ASSUME NEW t \in Nat, req' = [req EXCEPT ![c].tunnel = t, ![c].at = "route"]
      PROVE  req' \in [Processes -> Requests] /\ OthersWait(c) /\ Moved(c, "route")
  BY ONLY ZenonT(100), <1>1, <1>2 DEF OthersWait, Moved, Requests, Places
<1>3. CASE \E t \in tunnels : req' = [req EXCEPT ![c].tunnel = t, ![c].at = "route"]
                              /\ UNCHANGED <<tunnels, ids, faults>>
  BY <1>2, <1>3 DEF FindOrCreateTunnel, Types, CloudTypes
<1>4. CASE /\ ids' = ids + 1 /\ tunnels' = {ids + 1} /\ UNCHANGED faults
           /\ req' = [req EXCEPT ![c].tunnel = ids + 1, ![c].at = "route"]
  <2>1. ids + 1 \in Nat
    BY DEF Types, CloudTypes
  <2> QED
    BY <1>2, <1>4, <2>1 DEF FindOrCreateTunnel, Types, CloudTypes
<1>5. CASE Fault /\ Ends(c) /\ UNCHANGED <<tunnels, ids>>
  BY <1>1, <1>5, EndOfRequest DEF FindOrCreateTunnel, Fault, Types, CloudTypes
<1> QED
  BY <1>3, <1>4, <1>5 DEF FindOrCreateTunnel

LEMMA Routed ==
  ASSUME Types, NEW c \in Clients, Route(c)
  PROVE  /\ req[c].at = "route"
         /\ req' \in [Processes -> Requests] /\ OthersWait(c)
         /\ \/ Ended(c)
            \/ /\ req'[c].at = "write" /\ req'[c].what = req[c].what
               /\ req'[c].mine = req[c].mine /\ req'[c].todo = ConnectKeys
         /\ CloudTypes'
         /\ faults' \in {faults, faults + 1}
         /\ UNCHANGED <<secrets, connVars, certVars, limits>>
<1>1. c \in Processes /\ req \in [Processes -> Requests]
  BY DEF Processes, Types, RequestTypes
<1>2. ASSUME NEW rec \in Nat, ReadyToWrite(c, rec)
      PROVE  /\ req' \in [Processes -> Requests] /\ OthersWait(c)
             /\ req'[c].at = "write" /\ req'[c].what = req[c].what
             /\ req'[c].mine = req[c].mine /\ req'[c].todo = ConnectKeys
  <2> DEFINE new == [Blank EXCEPT !.api = TRUE, !.tunnel = req[c].tunnel,
                                  !.token = req[c].tunnel, !.host = req[c].host,
                                  !.record = rec, !.url = req[c].host]
  <2>1. new \in Secrets
    BY ONLY <1>1, rec \in Nat, Beginnings DEF Secrets, Requests
  <2>2. req' = [req EXCEPT ![c].at = "write", ![c].todo = ConnectKeys, ![c].new = new]
    BY <1>2 DEF ReadyToWrite
  <2>3. ConnectKeys \in Seq(SecretKeys \cup {"memory"})
    BY ONLY DEF ConnectKeys, SecretKeys
  <2> DEFINE old == req[c]
             next == [old EXCEPT !.at = "write", !.todo = ConnectKeys, !.new = new]
  <2>4. old \in Requests
    BY <1>1
  <2>5. req' = [req EXCEPT ![c] = next]
    BY <1>1, <2>2
  <2> HIDE DEF new, old
  <2>6. /\ next \in Requests /\ next.at = "write" /\ next.what = old.what
        /\ next.mine = old.mine /\ next.todo = ConnectKeys
    BY ONLY <2>1, <2>3, <2>4 DEF Requests, Places
  <2> HIDE DEF next
  <2> QED
    BY <1>1, <2>5, <2>6 DEF OthersWait, old
<1>3. CASE /\ \E r \in records : r.host = req[c].host /\ ReadyToWrite(c, r.id)
           /\ UNCHANGED <<records, ids, faults>>
  BY <1>2, <1>3 DEF Route, Types, CloudTypes
<1>4. CASE /\ ids' = ids + 1 /\ ReadyToWrite(c, ids + 1) /\ UNCHANGED faults
           /\ records' = records \cup {[id |-> ids + 1, host |-> req[c].host]}
  <2>1. ids + 1 \in Nat
    BY DEF Types, CloudTypes
  <2>2. CloudTypes'
    BY <1>4, <2>1 DEF Route, Types, CloudTypes
  <2> QED
    BY <1>2, <1>4, <2>1, <2>2 DEF Route
<1>5. CASE Ends(c) /\ UNCHANGED <<records, ids>> /\ (Fault \/ UNCHANGED faults)
  BY <1>1, <1>5, EndOfRequest DEF Route, Fault, Types, CloudTypes
<1> QED
  BY <1>3, <1>4, <1>5 DEF Route

LEMMA SecretsRead ==
  ASSUME Types, NEW c \in Clients, ReadSecrets(c)
  PROVE  /\ req[c].at = "read"
         /\ req' \in [Processes -> Requests] /\ OthersWait(c)
         /\ Ended(c) \/ Moved(c, "stop")
         /\ faults' \in {faults, faults + 1}
         /\ UNCHANGED <<secrets, cloudVars, connVars, certVars, limits>>
<1> DEFINE tunnel == IF secrets.api THEN secrets.tunnel ELSE 0
           record == IF secrets.api THEN secrets.record ELSE 0
<1>1. c \in Processes /\ req \in [Processes -> Requests]
  BY DEF Processes, Types, RequestTypes
<1>2. tunnel \in Nat /\ record \in Nat
  BY DEF Types, Secrets
<1> HIDE DEF tunnel, record
<1>3. ASSUME req' = [req EXCEPT ![c].at = "stop", ![c].tunnel = tunnel, ![c].record = record]
      PROVE  req' \in [Processes -> Requests] /\ OthersWait(c) /\ Moved(c, "stop")
  <2> DEFINE old == req[c]
             next == [old EXCEPT !.at = "stop", !.tunnel = tunnel, !.record = record]
  <2>1. old \in Requests
    BY <1>1
  <2>2. req' = [req EXCEPT ![c] = next]
    BY <1>1, <1>3
  <2> HIDE DEF old
  <2>3. /\ next \in Requests /\ next.at = "stop" /\ next.what = old.what
        /\ next.mine = old.mine /\ next.new = old.new /\ next.todo = old.todo
    BY ONLY <1>2, <2>1 DEF Requests, Places
  <2> HIDE DEF next
  <2> QED
    BY <1>1, <2>2, <2>3 DEF OthersWait, Moved, old
<1> QED
  BY <1>1, <1>3, EndOfRequest DEF ReadSecrets, Fault, tunnel, record

LEMMA CloudCleaned ==
  ASSUME Types, NEW c \in Clients, CleanCloud(c)
  PROVE  /\ req[c].at = "clean"
         /\ req' \in [Processes -> Requests] /\ OthersWait(c)
         /\ req'[c].at = "write" /\ req'[c].what = req[c].what
         /\ req'[c].mine = req[c].mine /\ req'[c].new = req[c].new
         /\ req'[c].todo = DisconnectKeys
         /\ CloudTypes'
         /\ faults' \in {faults, faults + 1}
         /\ UNCHANGED <<secrets, connVars, certVars, limits>>
<1>1. c \in Processes /\ req \in [Processes -> Requests]
  BY DEF Processes, Types, RequestTypes
<1>2. DisconnectKeys \in Seq(SecretKeys \cup {"memory"})
  BY ONLY DEF DisconnectKeys, SecretKeys
<1>3. req' = [req EXCEPT ![c].at = "write", ![c].todo = DisconnectKeys]
  BY DEF CleanCloud
<1>4. /\ req' \in [Processes -> Requests] /\ OthersWait(c)
      /\ req'[c].at = "write" /\ req'[c].what = req[c].what
      /\ req'[c].mine = req[c].mine /\ req'[c].new = req[c].new
      /\ req'[c].todo = DisconnectKeys
  BY ONLY ZenonT(100), <1>1, <1>2, <1>3 DEF OthersWait, Requests, Places
<1>5. CloudTypes' /\ faults' \in {faults, faults + 1}
  BY DEF CleanCloud, Fault, Types, CloudTypes
<1> QED
  BY <1>4, <1>5 DEF CleanCloud
(* The key written is the first of what is left.                           *)
LEMMA KeyWritten ==
  ASSUME Types, NEW c \in Clients, WriteNext(c)
  PROVE  /\ req[c].at = "write" /\ req[c].todo # <<>>
         /\ req' \in [Processes -> Requests] /\ OthersWait(c)
         /\ secrets' \in Secrets
         /\ \/ /\ Ended(c) /\ faults' = faults + 1 /\ UNCHANGED <<secrets, memory>>
            \/ /\ req'[c].at = "write" /\ req'[c].what = req[c].what
               /\ req'[c].mine = req[c].mine /\ req'[c].new = req[c].new
               /\ req'[c].todo = Tail(req[c].todo)
               /\ secrets'.token = IF Head(req[c].todo) = "token" THEN req[c].new.token
                                   ELSE secrets.token
               /\ memory' \in Nat /\ UNCHANGED faults
         /\ UNCHANGED <<cloudVars, connVars, issue, issued, limits>>
<1> DEFINE key == Head(req[c].todo)
<1>1. /\ c \in Processes /\ req \in [Processes -> Requests]
      /\ secrets \in Secrets /\ memory \in Nat
  BY DEF Processes, Types, RequestTypes, CertTypes
<1>2. req[c].todo \in Seq(SecretKeys \cup {"memory"}) /\ req[c].todo # <<>>
      /\ req[c].new \in Secrets
  BY <1>1 DEF Requests, WriteNext
<1>3. key \in SecretKeys \cup {"memory"} /\ Tail(req[c].todo) \in Seq(SecretKeys \cup {"memory"})
  BY <1>2
<1>4. ASSUME req' = [req EXCEPT ![c].todo = Tail(@)]
      PROVE  /\ req' \in [Processes -> Requests] /\ OthersWait(c)
             /\ req'[c].at = req[c].at /\ req'[c].what = req[c].what
             /\ req'[c].mine = req[c].mine /\ req'[c].new = req[c].new
             /\ req'[c].todo = Tail(req[c].todo)
  BY ONLY <1>1, <1>3, <1>4 DEF OthersWait, Requests
<1>5. ASSUME key \in SecretKeys, secrets' = [secrets EXCEPT ![key] = req[c].new[key]]
      PROVE  /\ secrets' \in Secrets
             /\ secrets'.token = IF key = "token" THEN req[c].new.token ELSE secrets.token
  <2> DEFINE new == req[c].new
  <2>1. new \in Secrets /\ secrets' = [secrets EXCEPT ![key] = new[key]]
    BY <1>2, <1>5
  <2> HIDE DEF new, key
  <2>2. /\ secrets' \in Secrets
        /\ secrets'.token = IF key = "token" THEN new.token ELSE secrets.token
    BY ONLY <1>1, <1>5, <2>1 DEF Secrets, SecretKeys
  <2> QED
    BY <2>2 DEF new
<1>6. CASE key = "memory" /\ memory' = 0 /\ UNCHANGED <<secrets, faults>>
           /\ req' = [req EXCEPT ![c].todo = Tail(@)]
  BY <1>1, <1>4, <1>6 DEF WriteNext
<1>7. CASE key # "memory" /\ UNCHANGED <<memory, faults>>
           /\ secrets' = [secrets EXCEPT ![key] = req[c].new[key]]
           /\ req' = [req EXCEPT ![c].todo = Tail(@)]
  <2>1. key \in SecretKeys
    BY <1>3, <1>7
  <2> QED
    BY <1>1, <1>4, <1>5, <1>7, <2>1 DEF WriteNext
<1>8. CASE Fault /\ Ends(c) /\ UNCHANGED <<secrets, memory>>
  BY <1>1, <1>8, EndOfRequest DEF WriteNext, Fault
<1> QED
  BY <1>6, <1>7, <1>8 DEF WriteNext

LEMMA AllWritten ==
  ASSUME Types, NEW c \in Clients, Written(c)
  PROVE  /\ req[c].at = "write" /\ req[c].todo = <<>>
         /\ req' \in [Processes -> Requests] /\ OthersWait(c)
         /\ IF req[c].what = "connect" THEN Moved(c, "stop") ELSE Ended(c)
         /\ UNCHANGED <<secrets, cloudVars, connVars, certVars, limits, faults>>
BY StepOfRequest, EndOfRequest DEF Written, countVars, Places, Processes, Types, RequestTypes

-----------------------------------------------------------------------------
(* One step of the connectors.                                             *)

\* Each connector keeps its token.
SameTokens ==
  /\ conns' \in Seq(Supervisors) /\ Len(conns') = Len(conns)
  /\ \A n \in DOMAIN conns : conns'[n].token = conns[n].token

LEMMA ConnectorOf ==
  ASSUME ConnTypes, NEW n \in DOMAIN conns
  PROVE  conns[n] \in Supervisors
BY DEF ConnTypes

LEMMA CancelOne ==
  ASSUME NEW c \in Supervisors, NEW cancelled \in BOOLEAN
  PROVE  LET d == [c EXCEPT !.cancelled = cancelled] IN
           /\ d \in Supervisors /\ d.token = c.token /\ d.state = c.state
           /\ d.cancelled = cancelled
BY DEF Supervisors

LEMMA MoveOne ==
  ASSUME NEW c \in Supervisors, NEW state \in {"up", "down", "done"}
  PROVE  LET d == [c EXCEPT !.state = state] IN
           /\ d \in Supervisors /\ d.token = c.token /\ d.state = state
           /\ d.cancelled = c.cancelled
BY DEF Supervisors

\* Connectors stay a sequence when each is replaced by another.
LEMMA AsManyConnectors ==
  ASSUME ConnTypes, DOMAIN conns' = DOMAIN conns,
         conns' = [n \in DOMAIN conns |-> conns'[n]],
         \A n \in DOMAIN conns : conns'[n] \in Supervisors
  PROVE  conns' \in Seq(Supervisors) /\ Len(conns') = Len(conns)
<1>1. DOMAIN conns = 1..Len(conns) /\ Len(conns) \in Nat
  BY DEF ConnTypes
<1> QED
  BY <1>1

LEMMA ConnectorMoves ==
  ASSUME ConnTypes, NEW n \in DOMAIN conns, NEW state \in {"up", "down", "done"},
         conns' = [conns EXCEPT ![n].state = state]
  PROVE  /\ SameTokens
         /\ conns'[n].state = state
         /\ \A k \in DOMAIN conns : conns'[k].cancelled = conns[k].cancelled
         /\ \A k \in DOMAIN conns \ {n} : conns'[k].state = conns[k].state
<1> DEFINE next == [conns[n] EXCEPT !.state = state]
<1>1. \A k \in DOMAIN conns : conns[k] \in Supervisors
  BY ConnectorOf
<1>2. /\ next \in Supervisors /\ next.token = conns[n].token /\ next.state = state
      /\ next.cancelled = conns[n].cancelled
  BY <1>1, MoveOne
<1>3. conns' = [conns EXCEPT ![n] = next] /\ DOMAIN conns' = DOMAIN conns
      /\ conns' = [k \in DOMAIN conns |-> conns'[k]]
  BY DEF ConnTypes
<1> HIDE DEF next
<1>4. \A k \in DOMAIN conns : conns'[k] = IF k = n THEN next ELSE conns[k]
  BY <1>3 DEF ConnTypes
<1>5. \A k \in DOMAIN conns : conns'[k] \in Supervisors
  BY <1>1, <1>2, <1>4
<1> QED
  BY <1>2, <1>3, <1>4, <1>5, AsManyConnectors DEF SameTokens

LEMMA StopTold ==
  ASSUME Types, NEW p \in Processes, StopTakes(p)
  PROVE  /\ req[p].at = "stop"
         /\ req' \in [Processes -> Requests] /\ OthersWait(p)
         /\ req'[p].at = "wait" /\ req'[p].what = req[p].what
         /\ req'[p].mine = sup /\ req'[p].new = req[p].new
         /\ SameTokens
         /\ \A n \in DOMAIN conns : conns'[n].state = conns[n].state
         /\ \A n \in DOMAIN conns :
              conns'[n].cancelled = IF n = sup THEN TRUE ELSE conns[n].cancelled
         /\ sup' = 0
         /\ UNCHANGED <<secrets, cloudVars, running, certVars, limits, faults>>
<1>1. req \in [Processes -> Requests] /\ sup \in Nat
  BY DEF Types, RequestTypes, ConnTypes
<1>2. req' = [req EXCEPT ![p].mine = sup, ![p].at = "wait"]
  BY DEF StopTakes
<1>3. /\ req' \in [Processes -> Requests] /\ OthersWait(p)
      /\ req'[p].at = "wait" /\ req'[p].what = req[p].what
      /\ req'[p].mine = sup /\ req'[p].new = req[p].new
  BY ONLY ZenonT(100), <1>1, <1>2 DEF OthersWait, Requests, Places
<1>4. conns' = [n \in DOMAIN conns |->
                  IF n = sup THEN [conns[n] EXCEPT !.cancelled = TRUE] ELSE conns[n]]
  BY DEF StopTakes
<1>5. ConnTypes
  BY DEF Types
<1>6. \A n \in DOMAIN conns :
        /\ conns'[n] \in Supervisors
        /\ conns'[n].token = conns[n].token /\ conns'[n].state = conns[n].state
        /\ conns'[n].cancelled = IF n = sup THEN TRUE ELSE conns[n].cancelled
  <2> TAKE n \in DOMAIN conns
  <2> DEFINE next == [conns[n] EXCEPT !.cancelled = TRUE]
  <2>1. conns[n] \in Supervisors
    BY <1>5, ConnectorOf
  <2>2. /\ next \in Supervisors /\ next.token = conns[n].token
        /\ next.state = conns[n].state /\ next.cancelled = TRUE
    BY <2>1, CancelOne
  <2>3. conns'[n] = IF n = sup THEN next ELSE conns[n]
    BY <1>4
  <2> HIDE DEF next
  <2> QED
    BY <2>1, <2>2, <2>3
<1>7. DOMAIN conns' = DOMAIN conns /\ conns' = [n \in DOMAIN conns |-> conns'[n]]
  BY <1>4
<1>8. conns' \in Seq(Supervisors) /\ Len(conns') = Len(conns)
  BY <1>5, <1>6, <1>7, AsManyConnectors
<1> QED
  BY <1>3, <1>6, <1>8 DEF StopTakes, SameTokens, countVars

LEMMA StopAwaited ==
  ASSUME Types, NEW p \in Processes, StopWaits(p)
  PROVE  /\ req[p].at = "wait"
         /\ req' \in [Processes -> Requests] /\ OthersWait(p)
         /\ Moved(p, AfterStop(req[p].what))
         /\ \/ req[p].mine = 0 /\ UNCHANGED running
            \/ req[p].mine # 0 /\ conns[req[p].mine].state = "done" /\ running' = FALSE
         /\ UNCHANGED <<secrets, cloudVars, conns, sup, certVars, limits, faults>>
<1>1. AfterStop(req[p].what) \in Places
  BY DEF StopWaits, AfterStop, Places, InOrder, MainInOrder, Processes, Types, RequestTypes
<1> QED
  BY <1>1, StepOfRequest DEF StopWaits, countVars, Types, RequestTypes

LEMMA NewConnector ==
  ASSUME NEW token \in Nat, NEW fromStart \in BOOLEAN
  PROVE  /\ NewSupervisor(token, fromStart) \in Supervisors
         /\ NewSupervisor(token, fromStart).token = token
         /\ NewSupervisor(token, fromStart).state = "up"
         /\ NewSupervisor(token, fromStart).cancelled = FALSE
BY DEF NewSupervisor, Supervisors

LEMMA Supervised ==
  ASSUME Types, NEW c \in Clients, Supervise(c)
  PROVE  /\ req[c].at = "supervise"
         /\ req' \in [Processes -> Requests] /\ OthersWait(c) /\ Ended(c)
         /\ \/ /\ sup = 0 /\ sup' = Len(conns) + 1 /\ running' = TRUE
               /\ conns' \in Seq(Supervisors) /\ Len(conns') = Len(conns) + 1
               /\ \A n \in DOMAIN conns : conns'[n] = conns[n]
               /\ conns'[sup'].token = req[c].new.token
               /\ conns'[sup'].state = "up" /\ conns'[sup'].cancelled = FALSE
            \/ sup # 0 /\ UNCHANGED connVars
         /\ UNCHANGED <<secrets, cloudVars, memory, issued, issue, limits, faults>>
<1>1. c \in Processes /\ req \in [Processes -> Requests] /\ conns \in Seq(Supervisors)
  BY DEF Processes, Types, RequestTypes, ConnTypes
<1>2. req[c].new.token \in Nat
  BY <1>1 DEF Requests, Secrets
<1>3. req' \in [Processes -> Requests] /\ OthersWait(c) /\ Ended(c)
  BY <1>1, EndOfRequest DEF Supervise
<1>4. CASE sup = 0 /\ sup' = Len(conns) + 1 /\ running' = TRUE
           /\ conns' = Append(conns, NewSupervisor(req[c].new.token, FALSE))
  <2> DEFINE new == NewSupervisor(req[c].new.token, FALSE)
  <2>1. /\ new \in Supervisors /\ new.token = req[c].new.token
        /\ new.state = "up" /\ new.cancelled = FALSE
    BY <1>2, NewConnector
  <2>2. conns' = Append(conns, new)
    BY <1>4
  <2> HIDE DEF new
  <2>3. /\ conns' \in Seq(Supervisors) /\ Len(conns') = Len(conns) + 1
        /\ \A n \in DOMAIN conns : conns'[n] = conns[n]
        /\ conns'[Len(conns) + 1] = new
    BY ONLY <1>1, <2>1, <2>2
  <2> QED
    BY <1>3, <1>4, <2>1, <2>3 DEF Supervise, countVars
<1>5. CASE sup # 0 /\ UNCHANGED connVars
  BY <1>3, <1>5 DEF Supervise, countVars
<1> QED
  BY <1>4, <1>5 DEF Supervise

LEMMA ShutdownTold ==
  ASSUME Types, Shutdown
  PROVE  /\ req' \in [Processes -> Requests] /\ OthersWait(Main)
         /\ req'[Main].at = "stop" /\ req'[Main].what = "close"
         /\ SameTokens
         /\ \A n \in DOMAIN conns : conns'[n].state = conns[n].state
         /\ \A n \in DOMAIN conns : conns[n].cancelled => conns'[n].cancelled
         /\ UNCHANGED <<secrets, cloudVars, sup, running, certVars, limits, faults>>
<1>1. Main \in Processes /\ req \in [Processes -> Requests]
  BY DEF Processes, Types, RequestTypes
<1>2. req' = [req EXCEPT ![Main].at = "stop", ![Main].what = "close"]
  BY DEF Shutdown
<1>3. /\ req' \in [Processes -> Requests] /\ OthersWait(Main)
      /\ req'[Main].at = "stop" /\ req'[Main].what = "close"
  BY ONLY ZenonT(100), <1>1, <1>2 DEF OthersWait, Requests, Places
<1>4. ConnTypes
  BY DEF Types
<1>5. conns' = [n \in DOMAIN conns |->
                  [conns[n] EXCEPT !.cancelled = @ \/ conns[n].fromStart]]
  BY DEF Shutdown
<1>6. \A n \in DOMAIN conns :
        /\ conns'[n] \in Supervisors
        /\ conns'[n].token = conns[n].token /\ conns'[n].state = conns[n].state
        /\ conns[n].cancelled => conns'[n].cancelled
  <2> TAKE n \in DOMAIN conns
  <2> DEFINE told == conns[n].cancelled \/ conns[n].fromStart
             next == [conns[n] EXCEPT !.cancelled = told]
  <2>1. conns[n] \in Supervisors /\ told \in BOOLEAN /\ (conns[n].cancelled => told)
    BY <1>4, ConnectorOf
  <2>2. conns'[n] = next
    BY <1>5
  <2> HIDE DEF told
  <2>3. /\ next \in Supervisors /\ next.token = conns[n].token
        /\ next.state = conns[n].state /\ next.cancelled = told
    BY <2>1, CancelOne
  <2> HIDE DEF next
  <2> QED
    BY <2>1, <2>2, <2>3
<1>7. DOMAIN conns' = DOMAIN conns /\ conns' = [n \in DOMAIN conns |-> conns'[n]]
  BY <1>5
<1>8. conns' \in Seq(Supervisors) /\ Len(conns') = Len(conns)
  BY <1>4, <1>6, <1>7, AsManyConnectors
<1> QED
  BY <1>3, <1>6, <1>8 DEF Shutdown, SameTokens, countVars

(* After a restart nobody is at work, and the connector is the one of the  *)
(* stored token.                                                           *)
LEMMA Restarted ==
  ASSUME Types, Restart
  PROVE  /\ req' \in [Processes -> Requests] /\ \A p \in Processes : Ended(p)
         /\ \/ /\ conns' \in Seq(Supervisors) /\ Len(conns') = 1
               /\ sup' = 1 /\ running' = TRUE /\ secrets.token # 0
               /\ conns'[1].token = secrets.token
               /\ conns'[1].state = "up" /\ conns'[1].cancelled = FALSE
            \/ /\ conns' = <<>> /\ sup' = 0 /\ running' = FALSE
               /\ secrets.token = 0 \/ faults' = faults + 1
         /\ faults' \in {faults, faults + 1}
         /\ memory' \in Nat /\ issue' = NoIssue
         /\ UNCHANGED <<secrets, cloudVars, issued, limits>>
<1>1. secrets.token \in Nat /\ secrets.pem \in Nat
  BY DEF Types, Secrets
<1>2. req' \in [Processes -> Requests] /\ \A p \in Processes : Ended(p)
  BY Beginnings DEF Restart, Ended, Types, RequestTypes
<1>3. PICK certRead \in BOOLEAN, tokenRead \in BOOLEAN :
        /\ IF certRead /\ tokenRead THEN UNCHANGED faults ELSE Fault
        /\ memory' = IF certRead THEN StoredCert(0) ELSE 0
        /\ LET resumes == tokenRead /\ secrets.token # 0 IN
             /\ conns' = IF resumes THEN <<NewSupervisor(secrets.token, TRUE)>> ELSE <<>>
             /\ sup' = IF resumes THEN 1 ELSE 0
             /\ running' = resumes
  BY DEF Restart
<1>4. /\ memory' \in Nat /\ faults' \in {faults, faults + 1}
      /\ ~tokenRead => faults' = faults + 1
  BY <1>1, <1>3 DEF StoredCert, Fault
<1>5. CASE tokenRead /\ secrets.token # 0
  <2> DEFINE new == NewSupervisor(secrets.token, TRUE)
  <2>1. /\ new \in Supervisors /\ new.token = secrets.token
        /\ new.state = "up" /\ new.cancelled = FALSE
    BY <1>1, NewConnector
  <2>2. conns' = <<new>>
    BY <1>3, <1>5
  <2> HIDE DEF new
  <2>3. conns' \in Seq(Supervisors) /\ Len(conns') = 1 /\ conns'[1] = new
    BY ONLY <2>1, <2>2
  <2> QED
    BY <1>2, <1>3, <1>4, <1>5, <2>1, <2>3 DEF Restart
<1>6. CASE ~(tokenRead /\ secrets.token # 0)
  BY <1>2, <1>3, <1>4, <1>6 DEF Restart
<1> QED
  BY <1>5, <1>6

-----------------------------------------------------------------------------
(* The certificate moves on its own.                                       *)

CertStep ==
  \/ EnsureAfterConnect \/ RenewLoop \/ RequestCert
  \/ IssueReads \/ IssueChallenge
  \/ SaveCert("pem", "key") \/ SaveCert("key", "load")
  \/ LoadCert \/ CertAges

LEMMA CertMoves ==
  ASSUME Types, CertStep
  PROVE  /\ secrets' \in Secrets /\ secrets'.token = secrets.token
         /\ CertTypes'
         /\ faults' \in {faults, faults + 1}
         /\ UNCHANGED <<cloudVars, connVars, req, limits>>
<1>1. issue \in Issuances /\ issued \in Seq(Names) /\ memory \in Nat /\ secrets \in Secrets
  BY DEF Types, CertTypes
<1>2. NoIssue \in Issuances /\ [NoIssue EXCEPT !.at = "read"] \in Issuances
  BY Beginnings
<1>3. \A place \in {"read", "challenge", "pem", "key", "load"} :
        [issue EXCEPT !.at = place] \in Issuances
  BY <1>1 DEF Issuances
<1>4. \A force \in BOOLEAN : EnsureCert(force) => issue' \in Issuances
  BY <1>1, <1>2 DEF EnsureCert
<1>5. CASE EnsureAfterConnect
  BY <1>1, <1>4, <1>5 DEF EnsureAfterConnect, CertTypes, countVars
<1>6. CASE RenewLoop
  BY <1>1, <1>4, <1>6 DEF RenewLoop, CertTypes, countVars
<1>7. CASE RequestCert
  BY <1>1, <1>4, <1>7 DEF RequestCert, CertTypes
<1>8. CASE IssueReads
  <2>1. [at |-> "challenge", host |-> secrets.host] \in Issuances
    BY <1>1 DEF Issuances, Secrets
  <2> QED
    BY <1>1, <1>2, <1>8, <2>1 DEF IssueReads, IssueFails, Fault, CertTypes
<1>9. CASE IssueChallenge
  <2>1. Append(issued, issue.host) \in Seq(Names)
    <3>1. issue.host \in Names
      BY <1>1 DEF Issuances
    <3> QED
      BY ONLY <1>1, <3>1
  <2> QED
    BY <1>1, <1>2, <1>3, <1>9, <2>1 DEF IssueChallenge, IssueFails, Fault, CertTypes
<1>10. ASSUME NEW key \in {"pem", "key"}, NEW next \in {"key", "load"}, SaveCert(key, next)
       PROVE  /\ secrets' \in Secrets /\ secrets'.token = secrets.token
              /\ CertTypes'
              /\ faults' \in {faults, faults + 1}
              /\ UNCHANGED <<cloudVars, connVars, req, limits>>
  <2> DEFINE n == Len(issued)
             stored == [secrets EXCEPT ![key] = n]
  <2>1. n \in Nat
    BY <1>1
  <2> HIDE DEF n
  <2>2. stored \in Secrets /\ stored.token = secrets.token
    BY <1>1, <2>1 DEF Secrets
  <2>3. secrets' = stored \/ UNCHANGED secrets
    BY <1>10 DEF SaveCert, n
  <2> HIDE DEF stored
  <2>4. issue' \in Issuances
    BY <1>2, <1>3, <1>10 DEF SaveCert, IssueFails
  <2> QED
    BY <1>1, <1>10, <2>2, <2>3, <2>4 DEF SaveCert, IssueFails, Fault, CertTypes
<1>11. CASE LoadCert
  <2>1. StoredCert(memory) \in Nat
    BY <1>1 DEF StoredCert, Secrets
  <2> QED
    BY <1>1, <1>2, <1>11, <2>1 DEF LoadCert, CertTypes, countVars
<1>12. CASE CertAges
  BY <1>1, <1>12 DEF CertAges, CertTypes
<1> QED
  BY <1>5, <1>6, <1>7, <1>8, <1>9, <1>10, <1>11, <1>12 DEF CertStep

-----------------------------------------------------------------------------
(* Type correctness.                                                       *)

\* What is left after the first of the keys is written.
LEMMA LeftOfTail ==
  ASSUME NEW todo, todo \in Seq(SecretKeys \cup {"memory"}), todo # <<>>,
         NEW keys \in Seq(SecretKeys \cup {"memory"}), LeftOf(todo, keys)
  PROVE  /\ LeftOf(Tail(todo), keys) /\ Len(Tail(todo)) = Len(todo) - 1
         /\ Len(todo) \in 1..Len(keys)
         /\ Head(todo) = keys[Len(keys) - Len(todo) + 1]
<1>1. /\ Len(todo) \in Nat \ {0} /\ Len(keys) \in Nat /\ Len(todo) <= Len(keys)
      /\ \A i \in 1..Len(todo) : todo[i] = keys[Len(keys) - Len(todo) + i]
  BY DEF LeftOf
<1>2. Len(Tail(todo)) = Len(todo) - 1 /\ Head(todo) = todo[1]
  OBVIOUS
<1>3. \A i \in 1..Len(todo) - 1 : Tail(todo)[i] = todo[i + 1]
  OBVIOUS
<1>4. \A i \in 1..Len(todo) - 1 :
        Tail(todo)[i] = keys[Len(keys) - (Len(todo) - 1) + i]
  BY <1>1, <1>3
<1> QED
  BY <1>1, <1>2, <1>4 DEF LeftOf

LEMMA KeyLists ==
  /\ ConnectKeys \in Seq(SecretKeys \cup {"memory"}) /\ Len(ConnectKeys) = 6
  /\ \A i \in 1..6 : ConnectKeys[i] = "token" <=> i = 3
  /\ DisconnectKeys \in Seq(SecretKeys \cup {"memory"}) /\ Len(DisconnectKeys) = 9
  /\ \A i \in 1..9 : DisconnectKeys[i] = "token" <=> i = 3
  /\ LeftOf(ConnectKeys, ConnectKeys) /\ LeftOf(DisconnectKeys, DisconnectKeys)
BY DEF ConnectKeys, DisconnectKeys, SecretKeys, LeftOf

LEMMA RequestsInOrder ==
  ASSUME Types, NEW c \in Clients,
         Connect(c) \/ Disconnect(c) \/ Handle(c) \/ Stop(c)
  PROVE  RequestTypes'
<1>1. c \in Processes /\ c # Main /\ req[c] \in Requests /\ InOrder(req[c])
  BY TunnelNames DEF Processes, Types, RequestTypes
<1>2. ASSUME req' \in [Processes -> Requests], OthersWait(c), InOrder(req'[c])
      PROVE  RequestTypes'
  BY <1>1, <1>2 DEF OthersWait, Processes, Types, RequestTypes
<1>3. CASE Connect(c)
  BY <1>2, <1>3, ConnectBegins DEF InOrder
<1>4. CASE Disconnect(c)
  BY <1>2, <1>4, DisconnectBegins DEF InOrder
<1>5. CASE FindOrCreateTunnel(c)
  BY <1>1, <1>2, <1>5, TunnelFound, Beginnings DEF Ended, Moved, InOrder
<1>6. CASE Route(c)
  BY <1>1, <1>2, <1>6, Routed, Beginnings, KeyLists DEF Ended, InOrder
<1>7. CASE Supervise(c)
  BY <1>2, <1>7, Supervised, Beginnings DEF Ended
<1>8. CASE ReadSecrets(c)
  BY <1>1, <1>2, <1>8, SecretsRead, Beginnings DEF Ended, Moved, InOrder
<1>9. CASE CleanCloud(c)
  BY <1>1, <1>2, <1>9, CloudCleaned, KeyLists DEF InOrder
<1>10. CASE WriteNext(c)
  <2> DEFINE keys == IF req[c].what = "connect" THEN ConnectKeys ELSE DisconnectKeys
  <2>1. /\ req[c].at = "write" /\ req[c].todo # <<>> /\ LeftOf(req[c].todo, keys)
        /\ req[c].todo \in Seq(SecretKeys \cup {"memory"})
        /\ keys \in Seq(SecretKeys \cup {"memory"})
    BY <1>1, <1>10, KeyWritten, KeyLists DEF Requests, InOrder
  <2>2. LeftOf(Tail(req[c].todo), keys)
    BY <2>1, LeftOfTail
  <2> QED
    BY <1>1, <1>2, <1>10, <2>2, KeyWritten, Beginnings DEF Ended, InOrder
<1>11. CASE Written(c)
  BY <1>1, <1>2, <1>11, AllWritten, Beginnings DEF Ended, Moved, InOrder
<1>12. CASE StopTakes(c)
  BY <1>1, <1>2, <1>12, StopTold DEF InOrder
<1>13. CASE StopWaits(c)
  BY <1>1, <1>2, <1>13, StopAwaited DEF Moved, AfterStop, InOrder
<1> QED
  BY <1>3, <1>4, <1>5, <1>6, <1>7, <1>8, <1>9, <1>10, <1>11, <1>12, <1>13 DEF Handle, Stop

LEMMA TypesStep ==
  ASSUME Types, [Next]_vars
  PROVE  Types'
<1>1. /\ faults + 1 \in Nat /\ Main \in Processes /\ req[Main] \in Requests
      /\ MainInOrder(req[Main])
  BY DEF Processes, Types, RequestTypes
<1>2. ASSUME NEW c \in Clients, Connect(c) \/ Disconnect(c) \/ Handle(c)
      PROVE  Types'
  <2>1. RequestTypes'
    BY <1>2, RequestsInOrder
  <2>2. CASE Connect(c)
    BY <2>1, <2>2, ConnectBegins
       DEF Types, CloudTypes, ConnTypes, CertTypes, cloudVars, connVars, certVars
  <2>3. CASE Disconnect(c)
    BY <2>1, <2>3, DisconnectBegins
       DEF Types, CloudTypes, ConnTypes, CertTypes, cloudVars, connVars, certVars
  <2>4. CASE FindOrCreateTunnel(c)
    BY <1>1, <2>1, <2>4, TunnelFound DEF Types, ConnTypes, CertTypes, connVars, certVars
  <2>5. CASE Route(c)
    BY <1>1, <2>1, <2>5, Routed DEF Types, ConnTypes, CertTypes, connVars, certVars
  <2>6. CASE Supervise(c)
    <3>1. ConnTypes'
      <4>1. Len(conns) + 1 \in 0..(Len(conns) + 1) /\ ConnTypes
        BY DEF Types, ConnTypes
      <4> QED
        BY <2>6, <4>1, Supervised DEF ConnTypes, connVars
    <3> QED
      BY <2>1, <2>6, <3>1, Supervised DEF Types, CloudTypes, CertTypes, cloudVars
  <2>7. CASE ReadSecrets(c)
    BY <1>1, <2>1, <2>7, SecretsRead
       DEF Types, CloudTypes, ConnTypes, CertTypes, cloudVars, connVars, certVars
  <2>8. CASE CleanCloud(c)
    BY <1>1, <2>1, <2>8, CloudCleaned DEF Types, ConnTypes, CertTypes, connVars, certVars
  <2>9. CASE WriteNext(c)
    BY <1>1, <2>1, <2>9, KeyWritten
       DEF Types, CloudTypes, ConnTypes, CertTypes, cloudVars, connVars
  <2>10. CASE Written(c)
    BY <2>1, <2>10, AllWritten
       DEF Types, CloudTypes, ConnTypes, CertTypes, cloudVars, connVars, certVars
  <2> QED
    BY <1>2, <2>2, <2>3, <2>4, <2>5, <2>6, <2>7, <2>8, <2>9, <2>10 DEF Handle
<1>3. ASSUME NEW p \in Processes, Stop(p)
      PROVE  Types'
  <2>1. RequestTypes'
    <3>1. CASE p \in Clients
      BY <1>3, <3>1, RequestsInOrder
    <3>2. CASE p = Main
      <4>1. /\ req' \in [Processes -> Requests] /\ OthersWait(Main)
            /\ req'[Main].at \in {"wait", "closed"} /\ req'[Main].what = "close"
        BY <1>1, <1>3, <3>2, StopTold, StopAwaited DEF Stop, Moved, AfterStop, MainInOrder
      <4> QED
        BY <4>1, TunnelNames DEF OthersWait, Processes, MainInOrder, Types, RequestTypes
    <3> QED
      BY <1>3, <3>1, <3>2 DEF Processes
  <2>2. CASE StopTakes(p)
    <3>1. ConnTypes'
      <4>1. Len(conns) \in Nat /\ running \in BOOLEAN
        BY DEF Types, ConnTypes
      <4>2. sup' = 0 /\ running' = running /\ SameTokens
        BY <1>3, <2>2, StopTold
      <4> QED
        BY <4>1, <4>2 DEF SameTokens, ConnTypes
    <3> QED
      BY <1>3, <2>1, <2>2, <3>1, StopTold DEF Types, CloudTypes, CertTypes, cloudVars, certVars
  <2>3. CASE StopWaits(p)
    BY <1>3, <2>1, <2>3, StopAwaited
       DEF Types, CloudTypes, ConnTypes, CertTypes, cloudVars, certVars
  <2> QED
    BY <1>3, <2>2, <2>3 DEF Stop
<1>4. ASSUME NEW n \in DOMAIN conns, Watch(n) \/ ConnectorFalls(n)
      PROVE  Types'
  <2>1. SameTokens /\ running' \in BOOLEAN
    BY <1>4, ConnectorMoves
       DEF Watch, ConnectorFalls, ConnectorRestarts, ConnectorStops, Types, ConnTypes
  <2>2. UNCHANGED <<limits, faults, secrets, cloudVars, sup, req, certVars>>
    BY <1>4 DEF Watch, ConnectorFalls, ConnectorRestarts, ConnectorStops, countVars
  <2> QED
    BY <2>1, <2>2 DEF SameTokens, Types, CloudTypes, ConnTypes, RequestTypes, CertTypes,
                      cloudVars, certVars
<1>5. CASE CertStep
  BY <1>1, <1>5, CertMoves
     DEF Types, CloudTypes, ConnTypes, RequestTypes, cloudVars, connVars
<1>6. CASE Shutdown
  <2>1. RequestTypes'
    BY <1>6, ShutdownTold, TunnelNames DEF OthersWait, Processes, MainInOrder, Types, RequestTypes
  <2> QED
    BY <1>6, <2>1, ShutdownTold
       DEF SameTokens, Types, CloudTypes, ConnTypes, CertTypes, cloudVars, certVars
<1>7. CASE Restart
  <2>1. RequestTypes'
    BY <1>7, Restarted, Beginnings DEF Ended, Processes, MainInOrder, RequestTypes
  <2>2. CertTypes'
    BY <1>7, Restarted, Beginnings DEF Types, CertTypes
  <2>3. ConnTypes'
    <3>1. CASE conns' \in Seq(Supervisors) /\ Len(conns') = 1 /\ sup' = 1 /\ running' = TRUE
      BY <3>1 DEF ConnTypes
    <3>2. CASE conns' = <<>> /\ sup' = 0 /\ running' = FALSE
      <4>1. conns' \in Seq(Supervisors) /\ Len(conns') = 0
        BY <3>2
      <4>2. sup' = 0 /\ running' \in BOOLEAN
        BY <3>2
      <4> QED
        BY ONLY <4>1, <4>2 DEF ConnTypes
    <3> QED
      BY <1>7, <3>1, <3>2, Restarted
  <2> QED
    BY <1>1, <1>7, <2>1, <2>2, <2>3, Restarted DEF Types, CloudTypes, cloudVars
<1>8. CASE UNCHANGED vars
  BY <1>8 DEF vars, Types, CloudTypes, ConnTypes, RequestTypes, CertTypes, cloudVars,
              connVars, certVars, countVars
<1> QED
  BY <1>2, <1>3, <1>4, <1>5, <1>6, <1>7, <1>8 DEF Next, Issue, CertStep, Processes

LEMMA TypesHold == Spec => []Types
<1>1. Init => Types
  <2> SUFFICES ASSUME Init
               PROVE  Types
    OBVIOUS
  <2>1. RequestTypes
    BY Beginnings DEF Init, Processes, MainInOrder, RequestTypes
  <2>2. CertTypes
    BY Beginnings, NoConnector DEF Init, CertTypes
  <2> QED
    <3>1. ConnTypes
      <4>1. conns \in Seq(Supervisors) /\ Len(conns) = 0
        BY DEF Init
      <4>2. sup = 0 /\ running \in BOOLEAN
        BY DEF Init
      <4> QED
        BY ONLY <4>1, <4>2 DEF ConnTypes
    <3> QED
      BY <2>1, <2>2, <3>1, Beginnings DEF Init, Types, CloudTypes
<1> QED
  BY <1>1, TypesStep, PTL DEF Spec

-----------------------------------------------------------------------------
(* However requests, the supervisors and a shutdown interleave, stop()     *)
(* reaches every connector nobody has told to stop yet.                    *)
THEOREM EveryConnectorCanBeStopped == Spec => []StopReachesAll
<1>1. Init => StopReachesAll
  BY DEF Init, StopReachesAll
<1>2. Types /\ StopReachesAll /\ [Next]_vars => StopReachesAll'
  <2> SUFFICES ASSUME Types, StopReachesAll, [Next]_vars
               PROVE  StopReachesAll'
    OBVIOUS
  <2>1. conns \in Seq(Supervisors) /\ DOMAIN conns = 1..Len(conns) /\ Len(conns) \in Nat
        /\ ConnTypes
    BY DEF Types, ConnTypes
  <2>2. ASSUME UNCHANGED connVars
        PROVE  StopReachesAll'
    BY <2>2 DEF connVars, StopReachesAll
  <2>3. ASSUME SameTokens
        PROVE  DOMAIN conns' = DOMAIN conns
    BY <2>1, <2>3 DEF SameTokens
  <2>4. ASSUME NEW c \in Clients, Connect(c) \/ Disconnect(c) \/ Handle(c)
        PROVE  StopReachesAll'
    <3>1. CASE Supervise(c)
      <4>1. ASSUME sup # 0, UNCHANGED connVars
            PROVE  StopReachesAll'
        BY <2>2, <4>1
      <4>2. ASSUME sup = 0, sup' = Len(conns) + 1,
                   conns' \in Seq(Supervisors), Len(conns') = Len(conns) + 1,
                   \A n \in DOMAIN conns : conns'[n] = conns[n]
            PROVE  StopReachesAll'
        <5>1. DOMAIN conns' = 1..(Len(conns) + 1)
          BY <4>2
        <5> QED
          BY <2>1, <4>2, <5>1 DEF StopReachesAll
      <4> QED
        BY <3>1, <4>1, <4>2, Supervised
    <3>2. CASE ~Supervise(c)
      <4>1. UNCHANGED connVars
        BY <2>4, <3>2, ConnectBegins, DisconnectBegins, TunnelFound, Routed, SecretsRead,
           CloudCleaned, KeyWritten, AllWritten DEF Handle
      <4> QED
        BY <2>2, <4>1
    <3> QED
      BY <3>1, <3>2
  <2>5. ASSUME NEW p \in Processes, Stop(p)
        PROVE  StopReachesAll'
    <3>1. CASE StopTakes(p)
      BY <2>3, <2>5, <3>1, StopTold DEF StopReachesAll
    <3>2. CASE StopWaits(p)
      BY <2>5, <3>2, StopAwaited DEF StopReachesAll
    <3> QED
      BY <2>5, <3>1, <3>2 DEF Stop
  <2>6. ASSUME NEW n \in DOMAIN conns, Watch(n) \/ ConnectorFalls(n)
        PROVE  StopReachesAll'
    <3>1. PICK state \in {"up", "down", "done"} :
            /\ conns' = [conns EXCEPT ![n].state = state]
            /\ state # "done" => conns[n].state # "done"
      BY <2>6 DEF Watch, ConnectorFalls, ConnectorRestarts, ConnectorStops
    <3>2. UNCHANGED sup
      BY <2>6 DEF Watch, ConnectorFalls, ConnectorRestarts, ConnectorStops
    <3> QED
      BY <2>1, <2>3, <3>1, <3>2, ConnectorMoves DEF StopReachesAll
  <2>7. CASE CertStep
    BY <2>2, <2>7, CertMoves
  <2>8. CASE Shutdown
    BY <2>3, <2>8, ShutdownTold DEF StopReachesAll
  <2>9. CASE Restart
    <3>1. DOMAIN conns' = {} \/ (DOMAIN conns' = {1} /\ sup' = 1)
      <4>1. ASSUME conns' \in Seq(Supervisors), Len(conns') = 1
            PROVE  DOMAIN conns' = {1}
        BY <4>1
      <4>2. ASSUME conns' = <<>>
            PROVE  DOMAIN conns' = {}
        BY <4>2
      <4> QED
        BY <2>9, <4>1, <4>2, Restarted
    <3> QED
      BY <3>1 DEF StopReachesAll
  <2>10. CASE UNCHANGED vars
    BY <2>2, <2>10 DEF vars
  <2> QED
    BY <2>4, <2>5, <2>6, <2>7, <2>8, <2>9, <2>10 DEF Next, Issue, CertStep, Processes
<1> QED
  BY <1>1, <1>2, TypesHold, PTL DEF Spec

-----------------------------------------------------------------------------
(* With one user, before the service shuts down.  The invariant says where *)
(* the connectors are while his request is under way, and how far the      *)
(* token on disk is behind.                                                *)

OthersIdle(u) == \A c \in Clients \ {u} : req[c] = NoRequest

(* A connector at work is the one stop() would reach or the one the        *)
(* request waits for, and running tells whether there is one.              *)
OneConnector(u) ==
  /\ req[u].mine \in 0..Len(conns)
  /\ \A n \in DOMAIN conns :
       conns[n].state # "done" => n = sup \/ (req[u].at = "wait" /\ n = req[u].mine)
  /\ sup # 0 => conns[sup].state # "done" /\ ~conns[sup].cancelled
  /\ req[u].at \in {"wait", "supervise", "clean"} => sup = 0
  /\ req[u].at = "write" /\ req[u].what = "disconnect" => sup = 0
  /\ req[u].at = "wait" /\ req[u].mine # 0 => conns[req[u].mine].cancelled
  /\ (req[u].at = "wait" => req[u].mine = 0) => running = (sup # 0)

\* The token on disk is the one of the connector at work.
TokenRuns == secrets.token = IF sup = 0 THEN 0 ELSE conns[sup].token

(* The token is the third of the six keys Connect writes, and of the nine  *)
(* Disconnect clears.                                                      *)
TokenFollows(u) ==
  faults = 0 =>
    /\ req[u].at \in {"idle", "find", "route", "read"} => TokenRuns
    /\ req[u].what = "disconnect" /\ req[u].at = "stop" => TokenRuns
    /\ req[u].what = "connect" =>
         /\ req[u].at = "write" =>
              IF Len(req[u].todo) >= 4 THEN TokenRuns ELSE secrets.token = req[u].new.token
         /\ req[u].at \in {"stop", "wait", "supervise"} => secrets.token = req[u].new.token
    /\ req[u].what = "disconnect" /\ req[u].at = "write" /\ Len(req[u].todo) < 7
         => secrets.token = 0

AloneInv ==
  \A u \in Clients :
    limits.users = {u} /\ req[Main].at = "idle"
      => OthersIdle(u) /\ OneConnector(u) /\ TokenFollows(u)

LEMMA SameToken ==
  ASSUME UNCHANGED connVars, secrets'.token = secrets.token
  PROVE  TokenRuns' = TokenRuns
BY DEF connVars, TokenRuns

\* A step of the request that leaves the connectors alone.
LEMMA QuietMove ==
  ASSUME NEW u, OneConnector(u), UNCHANGED connVars,
         req[u].at # "wait", req'[u].at # "wait",
         req'[u].mine \in {0, req[u].mine}, Len(conns) \in Nat,
         req'[u].at \notin {"supervise", "clean"},
         req'[u].at = "write" /\ req'[u].what = "disconnect" => sup = 0
  PROVE  OneConnector(u)'
<1>1. conns' = conns /\ sup' = sup /\ running' = running
  BY DEF connVars
<1> QED
  BY <1>1 DEF OneConnector

LEMMA UserMoves ==
  ASSUME Types, Types', NEW u \in Clients,
         Connect(u) \/ Disconnect(u) \/ Handle(u) \/ Stop(u),
         OneConnector(u), TokenFollows(u)
  PROVE  OneConnector(u)' /\ TokenFollows(u)'
<1>1. /\ u \in Processes /\ req[u] \in Requests /\ InOrder(req[u]) /\ faults \in Nat
      /\ ConnTypes /\ sup \in Nat /\ Len(conns) \in Nat
  BY DEF Processes, Types, RequestTypes, ConnTypes
<1>2. CASE Connect(u)
  <2>1. /\ req[u].at = "idle" /\ req'[u].at = "find" /\ req'[u].what = "connect"
        /\ req'[u].mine = 0 /\ UNCHANGED connVars /\ UNCHANGED <<secrets, faults>>
    BY <1>2, ConnectBegins
  <2> QED
    BY <1>1, <2>1, QuietMove, SameToken DEF TokenFollows
<1>3. CASE Disconnect(u)
  <2>1. /\ req[u].at = "idle" /\ req'[u].at = "read" /\ req'[u].what = "disconnect"
        /\ req'[u].mine = 0 /\ UNCHANGED connVars /\ UNCHANGED <<secrets, faults>>
    BY <1>3, DisconnectBegins
  <2> QED
    BY <1>1, <2>1, QuietMove, SameToken DEF TokenFollows
<1>4. CASE FindOrCreateTunnel(u)
  <2>1. /\ req[u].at = "find" /\ req[u].what = "connect"
        /\ (Ended(u) \/ Moved(u, "route")) /\ faults' \in {faults, faults + 1}
        /\ UNCHANGED connVars /\ UNCHANGED secrets
    BY <1>1, <1>4, TunnelFound DEF InOrder
  <2>2. faults' = 0 => faults = 0
    BY <1>1, <2>1
  <2>3. CASE Ended(u)
    BY <1>1, <2>1, <2>2, <2>3, QuietMove, SameToken, Beginnings DEF Ended, TokenFollows
  <2>4. CASE ~Ended(u)
    BY <1>1, <2>1, <2>2, <2>4, QuietMove, SameToken DEF Moved, TokenFollows
  <2> QED
    BY <2>3, <2>4
<1>5. CASE Route(u)
  <2>1. /\ req[u].at = "route" /\ req[u].what = "connect"
        /\ faults' \in {faults, faults + 1}
        /\ UNCHANGED connVars /\ UNCHANGED secrets
        /\ \/ Ended(u)
           \/ /\ req'[u].at = "write" /\ req'[u].what = "connect"
              /\ req'[u].mine = req[u].mine /\ req'[u].todo = ConnectKeys
    BY <1>1, <1>5, Routed DEF InOrder
  <2>2. faults' = 0 => faults = 0
    BY <1>1, <2>1
  <2>3. CASE Ended(u)
    BY <1>1, <2>1, <2>2, <2>3, QuietMove, SameToken, Beginnings DEF Ended, TokenFollows
  <2>4. CASE ~Ended(u)
    <3>1. /\ req'[u].at = "write" /\ req'[u].what = "connect"
          /\ req'[u].mine = req[u].mine /\ Len(req'[u].todo) = 6
      BY <2>1, <2>4, KeyLists
    <3>2. OneConnector(u)'
      BY <1>1, <2>1, <3>1, QuietMove
    <3>3. faults = 0 => TokenRuns'
      BY <2>1, SameToken DEF TokenFollows
    <3> QED
      BY ONLY <2>2, <3>1, <3>2, <3>3 DEF TokenFollows
  <2> QED
    BY <2>3, <2>4
<1>6. CASE ReadSecrets(u)
  <2>1. /\ req[u].at = "read" /\ req[u].what = "disconnect"
        /\ (Ended(u) \/ Moved(u, "stop")) /\ faults' \in {faults, faults + 1}
        /\ UNCHANGED connVars /\ UNCHANGED secrets
    BY <1>1, <1>6, SecretsRead DEF InOrder
  <2>2. faults' = 0 => faults = 0
    BY <1>1, <2>1
  <2>3. CASE Ended(u)
    BY <1>1, <2>1, <2>2, <2>3, QuietMove, SameToken, Beginnings DEF Ended, TokenFollows
  <2>4. CASE ~Ended(u)
    BY <1>1, <2>1, <2>2, <2>4, QuietMove, SameToken DEF Moved, TokenFollows
  <2> QED
    BY <2>3, <2>4
<1>7. CASE CleanCloud(u)
  <2>1. /\ req[u].at = "clean" /\ req'[u].at = "write" /\ req'[u].what = "disconnect"
        /\ req'[u].mine = req[u].mine /\ req'[u].todo = DisconnectKeys
        /\ faults' \in {faults, faults + 1}
        /\ UNCHANGED connVars /\ UNCHANGED secrets
    BY <1>1, <1>7, CloudCleaned DEF InOrder
  <2>2. sup = 0
    BY <2>1 DEF OneConnector
  <2> QED
    BY <1>1, <2>1, <2>2, QuietMove, KeyLists DEF TokenFollows
<1>8. CASE WriteNext(u)
  <2> DEFINE todo == req[u].todo
             keys == IF req[u].what = "connect" THEN ConnectKeys ELSE DisconnectKeys
             n == IF req[u].what = "connect" THEN 6 ELSE 9
  <2>1. /\ req[u].at = "write" /\ todo # <<>> /\ LeftOf(todo, keys)
        /\ req[u].what \in {"connect", "disconnect"}
        /\ todo \in Seq(SecretKeys \cup {"memory"})
        /\ keys \in Seq(SecretKeys \cup {"memory"}) /\ Len(keys) = n
        /\ \A i \in 1..n : keys[i] = "token" <=> i = 3
    BY <1>1, <1>8, KeyWritten, KeyLists DEF Requests, InOrder
  <2>2. /\ Len(Tail(todo)) = Len(todo) - 1 /\ Len(todo) \in 1..n
        /\ Head(todo) = "token" <=> Len(todo) = n - 2
    <3> HIDE DEF todo, keys
    <3>1. /\ Len(Tail(todo)) = Len(todo) - 1 /\ Len(todo) \in 1..Len(keys)
          /\ Head(todo) = keys[Len(keys) - Len(todo) + 1]
      BY <2>1, LeftOfTail
    <3> QED
      BY <2>1, <3>1
  <2>3. OneConnector(u)'
    <3>1. /\ req'[u].at \in {"write", "idle"} /\ req'[u].mine \in {0, req[u].mine}
          /\ req'[u].at = "write" => req'[u].what = req[u].what
          /\ UNCHANGED connVars
      BY <1>8, KeyWritten, Beginnings DEF Ended
    <3>2. req'[u].at = "write" /\ req'[u].what = "disconnect" => sup = 0
      BY <2>1, <3>1 DEF OneConnector
    <3> QED
      BY <1>1, <2>1, <3>1, <3>2, QuietMove
  <2>4. CASE Ended(u) /\ faults' = faults + 1
    BY <1>1, <2>3, <2>4 DEF TokenFollows
  <2>5. CASE /\ req'[u].at = "write" /\ req'[u].what = req[u].what
             /\ req'[u].new = req[u].new /\ req'[u].todo = Tail(todo)
             /\ secrets'.token = IF Head(todo) = "token" THEN req[u].new.token
                                 ELSE secrets.token
             /\ UNCHANGED faults
    <3>1. UNCHANGED connVars
      BY <1>8, KeyWritten
    <3>2. req[u].what = "disconnect" => req[u].new.token = 0
      BY <1>1, Beginnings DEF InOrder
    <3> DEFINE len == Len(todo)
               left == Len(req'[u].todo)
               new == req[u].new.token
    <3>3. /\ req'[u].at = "write" /\ req'[u].what = req[u].what
          /\ req'[u].new.token = new /\ left = Len(Tail(todo))
          /\ secrets'.token = secrets.token => TokenRuns' = TokenRuns
          /\ req[u].at = "write" /\ faults' = faults
      BY <2>1, <2>5, <3>1, SameToken
    <3>4. /\ left = len - 1 /\ len \in Nat
          /\ secrets'.token = IF len = n - 2 THEN new ELSE secrets.token
      BY <2>2, <2>5, <3>3
    <3>5. CASE req[u].what = "connect"
      <4>1. n = 6 /\ (faults = 0 => IF len >= 4 THEN TokenRuns ELSE secrets.token = new)
        BY <2>1, <3>5 DEF TokenFollows
      <4> HIDE DEF todo, n, len, left, new
      <4>2. faults' = 0 => IF left >= 4 THEN TokenRuns' ELSE secrets'.token = new
        BY ONLY <3>3, <3>4, <4>1
      <4> QED
        BY ONLY <2>3, <3>3, <3>5, <4>2 DEF TokenFollows, left
    <3>6. CASE req[u].what = "disconnect"
      <4>1. n = 9 /\ new = 0 /\ (faults = 0 /\ len < 7 => secrets.token = 0)
        BY <2>1, <3>2, <3>6 DEF TokenFollows
      <4> HIDE DEF todo, n, len, left, new
      <4>2. faults' = 0 /\ left < 7 => secrets'.token = 0
        BY ONLY <3>3, <3>4, <4>1
      <4> QED
        BY ONLY <2>3, <3>3, <3>6, <4>2 DEF TokenFollows, left
    <3> QED
      BY <2>1, <3>5, <3>6
  <2> QED
    BY <1>8, <2>3, <2>4, <2>5, KeyWritten
<1>9. CASE Written(u)
  <2>1. /\ req[u].at = "write" /\ Len(req[u].todo) = 0
        /\ UNCHANGED connVars /\ UNCHANGED <<secrets, faults>>
    BY <1>9, AllWritten
  <2>2. CASE req[u].what = "connect" /\ Moved(u, "stop")
    BY <1>1, <2>1, <2>2, QuietMove DEF Moved, TokenFollows
  <2>3. CASE req[u].what = "disconnect" /\ Ended(u)
    <3>1. sup = 0 /\ (faults = 0 => secrets.token = 0)
      BY <2>1, <2>3 DEF OneConnector, TokenFollows
    <3>2. faults = 0 => TokenRuns
      BY <3>1 DEF TokenRuns
    <3> QED
      BY <1>1, <2>1, <2>3, <3>2, QuietMove, SameToken, Beginnings DEF Ended, TokenFollows
  <2> QED
    BY <1>1, <1>9, <2>2, <2>3, AllWritten DEF InOrder
<1>10. CASE Supervise(u)
  <2>0. req[u].at = "supervise" /\ req[u].what = "connect"
    BY <1>1, <1>10, Supervised DEF InOrder
  <2>1. /\ req[u].at = "supervise" /\ sup = 0 /\ req[u].what = "connect"
        /\ \A n \in DOMAIN conns : conns[n].state = "done"
    <3>1. DOMAIN conns = 1..Len(conns)
      BY <1>1 DEF ConnTypes
    <3> QED
      BY <2>0, <3>1 DEF OneConnector
  <2>2. req'[u].at = "idle" /\ req'[u].what = "" /\ req'[u].mine = 0
    BY <1>10, Supervised, Beginnings DEF Ended
  <2>3. /\ sup' = Len(conns) + 1 /\ running' = TRUE /\ UNCHANGED <<secrets, faults>>
        /\ Len(conns') = Len(conns) + 1 /\ conns' \in Seq(Supervisors)
    BY <1>10, <2>1, Supervised
  <2>4. \A n \in DOMAIN conns : conns'[n] = conns[n]
    BY <1>10, <2>1, Supervised
  <2>5. /\ conns'[sup'].token = req[u].new.token
        /\ conns'[sup'].state = "up" /\ conns'[sup'].cancelled = FALSE
    BY <1>10, <2>1, Supervised
  <2>6. /\ DOMAIN conns = 1..Len(conns) /\ DOMAIN conns' = 1..(Len(conns) + 1)
        /\ Len(conns) \in Nat
    <3>1. conns \in Seq(Supervisors)
      BY <1>1 DEF ConnTypes
    <3> QED
      BY ONLY <2>3, <3>1
  <2>7. \A n \in DOMAIN conns' : conns'[n].state # "done" => n = sup'
    <3> TAKE n \in DOMAIN conns'
    <3>1. n \in DOMAIN conns \/ n = sup'
      BY ONLY <2>3, <2>6, n \in DOMAIN conns'
    <3> QED
      BY ONLY <2>1, <2>4, <3>1
  <2>8. sup' # 0 /\ 0 \in 0..Len(conns')
    BY ONLY <2>3, <2>6
  <2>9. OneConnector(u)'
    BY ONLY <2>2, <2>3, <2>5, <2>7, <2>8 DEF OneConnector
  <2>10. faults = 0 => secrets.token = req[u].new.token
    BY <2>1 DEF TokenFollows
  <2>11. faults = 0 => TokenRuns'
    BY ONLY <2>3, <2>5, <2>8, <2>10 DEF TokenRuns
  <2> QED
    BY ONLY <2>2, <2>3, <2>9, <2>11 DEF TokenFollows
<1>11. CASE StopTakes(u)
  <2>1. /\ req[u].at = "stop" /\ req'[u].at = "wait" /\ req'[u].what = req[u].what
        /\ req'[u].mine = sup /\ req'[u].new = req[u].new
        /\ SameTokens /\ sup' = 0 /\ UNCHANGED running /\ UNCHANGED <<secrets, faults>>
        /\ \A n \in DOMAIN conns : conns'[n].state = conns[n].state
        /\ \A n \in DOMAIN conns :
             conns'[n].cancelled = IF n = sup THEN TRUE ELSE conns[n].cancelled
    BY <1>1, <1>11, StopTold
  <2>2. /\ DOMAIN conns = 1..Len(conns) /\ DOMAIN conns' = DOMAIN conns
        /\ Len(conns') = Len(conns) /\ sup \in 0..Len(conns)
    BY <1>1, <2>1 DEF SameTokens, ConnTypes
  <2>3. /\ \A n \in DOMAIN conns : conns[n].state # "done" => n = sup
        /\ running = (sup # 0)
    BY <2>1 DEF OneConnector
  <2>4. sup # 0 => conns'[sup].cancelled
    <3>1. sup # 0 => sup \in DOMAIN conns
      BY ONLY <2>2
    <3> QED
      BY <2>1, <3>1
  <2>5. OneConnector(u)'
    <3>1. /\ \A n \in DOMAIN conns' : conns'[n].state # "done" => n = req'[u].mine
          /\ req'[u].mine \in 0..Len(conns')
          /\ req'[u].mine # 0 => conns'[req'[u].mine].cancelled
          /\ req'[u].mine = 0 => running' = FALSE
      BY <2>1, <2>2, <2>3, <2>4
    <3>2. req'[u].at = "wait" /\ sup' = 0
      BY <2>1
    <3> QED
      BY ONLY <3>1, <3>2 DEF OneConnector
  <2>6. /\ req[u].at = "stop" /\ req'[u].at = "wait" /\ req'[u].what = req[u].what
        /\ req'[u].new = req[u].new /\ UNCHANGED <<secrets, faults>>
    BY <2>1
  <2>7. TokenFollows(u)'
    BY ONLY <2>6, TokenFollows(u) DEF TokenFollows
  <2> QED
    BY <2>5, <2>7
<1>12. CASE StopWaits(u)
  <2>1. /\ req[u].at = "wait" /\ req'[u].at \in {"supervise", "clean"}
        /\ req'[u].at = "supervise" <=> req[u].what = "connect"
        /\ req'[u].what = req[u].what /\ req'[u].mine = req[u].mine
        /\ req'[u].new = req[u].new
    BY <1>1, <1>12, StopAwaited DEF Moved, AfterStop, InOrder
  <2>2. /\ conns' = conns /\ sup' = sup /\ UNCHANGED <<secrets, faults>>
        /\ \/ req[u].mine = 0 /\ UNCHANGED running
           \/ req[u].mine # 0 /\ conns[req[u].mine].state = "done" /\ running' = FALSE
    BY <1>1, <1>12, StopAwaited
  <2>3. /\ sup = 0 /\ req[u].mine \in 0..Len(conns)
        /\ \A n \in DOMAIN conns :
             conns[n].state # "done" => n = sup \/ n = req[u].mine
        /\ req[u].mine = 0 => running = FALSE
    BY <2>1 DEF OneConnector
  <2>4. \A n \in DOMAIN conns : conns[n].state # "done" => n = sup
    BY <1>1, <2>2, <2>3
  <2>5. OneConnector(u)'
    BY <2>1, <2>2, <2>3, <2>4 DEF OneConnector
  <2> QED
    BY <2>1, <2>2, <2>5 DEF TokenFollows
<1> QED
  BY <1>2, <1>3, <1>4, <1>5, <1>6, <1>7, <1>8, <1>9, <1>10, <1>11, <1>12 DEF Handle, Stop

LEMMA AloneStep ==
  ASSUME Types, Types', AloneInv, [Next]_vars
  PROVE  AloneInv'
<1> SUFFICES ASSUME NEW u \in Clients, limits'.users = {u}, req'[Main].at = "idle"
             PROVE  OthersIdle(u)' /\ OneConnector(u)' /\ TokenFollows(u)'
  BY DEF AloneInv
<1>1. /\ u \in Processes /\ Main \in Processes /\ u # Main
      /\ ConnTypes /\ MainInOrder(req[Main]) /\ faults \in Nat
  BY TunnelNames DEF Processes, Types, RequestTypes
<1>2. ASSUME req[Main].at = "idle", limits.users = {u}
      PROVE  OthersIdle(u) /\ OneConnector(u) /\ TokenFollows(u)
  BY <1>2 DEF AloneInv
<1>3. ASSUME NEW c \in Clients, Connect(c) \/ Disconnect(c) \/ Handle(c) \/ Stop(c)
      PROVE  OthersIdle(u)' /\ OneConnector(u)' /\ TokenFollows(u)'
  <2>1. OthersWait(c) /\ UNCHANGED limits
    BY ZenonT(60), <1>3, ConnectBegins, DisconnectBegins, TunnelFound, Routed, SecretsRead,
       CloudCleaned, KeyWritten, AllWritten, Supervised, StopTold, StopAwaited
       DEF Handle, Stop, Processes
  <2>2. req[Main].at = "idle"
    BY <1>1, <2>1, TunnelNames DEF OthersWait
  <2>3. OthersIdle(u) /\ OneConnector(u) /\ TokenFollows(u)
    BY <1>2, <2>1, <2>2
  <2>4. c \in limits.users \/ req[c].at # "idle"
    BY ZenonT(60), <1>3, ConnectBegins, DisconnectBegins, TunnelFound, Routed, SecretsRead,
       CloudCleaned, KeyWritten, AllWritten, Supervised, StopTold, StopAwaited
       DEF Handle, Stop, Processes
  <2>5. c = u
    <3>1. c \in limits.users => c = u
      BY <2>1
    <3>2. c # u => req[c].at = "idle"
      BY <2>3, Beginnings DEF OthersIdle
    <3> QED
      BY <2>4, <3>1, <3>2
  <2>6. OthersIdle(u)'
    BY <2>1, <2>3, <2>5 DEF OthersWait, OthersIdle, Processes
  <2> QED
    BY <1>3, <2>3, <2>5, <2>6, UserMoves
<1>4. CASE Stop(Main)
  BY <1>1, <1>4, StopTold, StopAwaited DEF Stop, Moved, AfterStop, MainInOrder
<1>5. ASSUME NEW n \in DOMAIN conns, Watch(n) \/ ConnectorFalls(n)
      PROVE  OthersIdle(u)' /\ OneConnector(u)' /\ TokenFollows(u)'
  <2>1. UNCHANGED <<limits, req, faults, secrets, sup>>
    BY <1>5 DEF Watch, ConnectorFalls, ConnectorRestarts, ConnectorStops, countVars
  <2>2. OthersIdle(u) /\ OneConnector(u) /\ TokenFollows(u)
    BY <1>2, <2>1
  <2>3. OthersIdle(u)'
    BY <2>1, <2>2 DEF OthersIdle
  <2>4. DOMAIN conns = 1..Len(conns) /\ Len(conns) \in Nat /\ sup \in 0..Len(conns)
    BY <1>1 DEF ConnTypes
  <2>5. ASSUME SameTokens
        PROVE  TokenFollows(u)' /\ DOMAIN conns' = DOMAIN conns
    BY <2>1, <2>2, <2>4, <2>5 DEF SameTokens, TokenFollows, TokenRuns
  <2>6. CASE ConnectorStops(n)
    <3>1. /\ conns[n].state # "done" /\ conns[n].cancelled /\ running' = FALSE
          /\ conns' = [conns EXCEPT ![n].state = "done"]
      BY <2>6 DEF ConnectorStops
    <3>2. n # sup /\ req[u].at = "wait" /\ n = req[u].mine
      BY <2>2, <3>1 DEF OneConnector
    <3>3. /\ SameTokens /\ conns'[n].state = "done"
          /\ \A k \in DOMAIN conns : conns'[k].cancelled = conns[k].cancelled
          /\ \A k \in DOMAIN conns \ {n} : conns'[k].state = conns[k].state
      BY <1>1, <3>1, ConnectorMoves
    <3>4. DOMAIN conns' = DOMAIN conns /\ Len(conns') = Len(conns)
      BY <2>5, <3>3 DEF SameTokens
    <3>5. OneConnector(u)'
      BY <2>1, <2>2, <2>4, <3>1, <3>2, <3>3, <3>4 DEF OneConnector
    <3> QED
      BY <2>3, <2>5, <3>3, <3>5
  <2>7. CASE ConnectorRestarts(n) \/ ConnectorFalls(n)
    <3>1. PICK state \in {"up", "down"} :
            /\ conns[n].state # "done" /\ UNCHANGED running
            /\ conns' = [conns EXCEPT ![n].state = state]
      BY <2>7 DEF ConnectorRestarts, ConnectorFalls
    <3>2. /\ SameTokens /\ conns'[n].state # "done"
          /\ \A k \in DOMAIN conns : conns'[k].cancelled = conns[k].cancelled
          /\ \A k \in DOMAIN conns \ {n} : conns'[k].state = conns[k].state
      BY <1>1, <3>1, ConnectorMoves
    <3>3. DOMAIN conns' = DOMAIN conns /\ Len(conns') = Len(conns)
      BY <2>5, <3>2 DEF SameTokens
    <3>4. OneConnector(u)'
      BY <2>1, <2>2, <2>4, <3>1, <3>2, <3>3 DEF OneConnector
    <3> QED
      BY <2>3, <2>5, <3>2, <3>4
  <2> QED
    BY <1>5, <2>6, <2>7 DEF Watch
<1>6. CASE CertStep
  <2>1. /\ secrets'.token = secrets.token /\ faults' \in {faults, faults + 1}
        /\ UNCHANGED <<connVars, req, limits>>
    BY <1>6, CertMoves
  <2>2. OthersIdle(u) /\ OneConnector(u) /\ TokenFollows(u)
    BY <1>2, <2>1
  <2> QED
    BY <1>1, <2>1, <2>2 DEF connVars, OthersIdle, OneConnector, TokenFollows, TokenRuns
<1>7. CASE Shutdown
  BY <1>7, ShutdownTold
<1>8. CASE Restart
  <2>1. \A p \in Processes : req'[p] = NoRequest
    BY <1>8, Restarted DEF Ended
  <2>2. OthersIdle(u)'
    BY <2>1 DEF Processes, OthersIdle
  <2>3. req'[u].at = "idle" /\ req'[u].what = "" /\ req'[u].mine = 0
    BY <1>1, <2>1, Beginnings
  <2>4. CASE /\ conns' \in Seq(Supervisors) /\ Len(conns') = 1
             /\ sup' = 1 /\ running' = TRUE /\ secrets'.token = conns'[1].token
             /\ conns'[1].state = "up" /\ conns'[1].cancelled = FALSE
    <3>1. DOMAIN conns' = {1}
      BY <2>4
    <3>2. OneConnector(u)'
      <4>1. sup' = 1 /\ running' = TRUE /\ 0 \in 0..Len(conns')
            /\ conns'[1].state = "up" /\ conns'[1].cancelled = FALSE
        BY <2>4
      <4>2. sup' # 0 /\ \A n \in DOMAIN conns' : n = sup'
        BY ONLY <3>1, <4>1
      <4>3. conns'[sup'].state # "done" /\ ~conns'[sup'].cancelled
        BY ONLY <4>1
      <4>4. req'[u].mine \in 0..Len(conns')
        BY ONLY <2>3, <4>1
      <4>5. running' = (sup' # 0)
        <5>1. running' = TRUE
          BY <4>1
        <5> QED
          BY ONLY <4>2, <5>1
      <4> QED
        BY ONLY <2>3, <4>2, <4>3, <4>4, <4>5 DEF OneConnector
    <3>3. TokenRuns'
      BY <2>4 DEF TokenRuns
    <3> QED
      BY <2>2, <2>3, <3>2, <3>3 DEF TokenFollows
  <2>5. CASE /\ conns' = <<>> /\ sup' = 0 /\ running' = FALSE
             /\ secrets'.token = 0 \/ faults' = faults + 1
    <3>1. DOMAIN conns' = {} /\ Len(conns') = 0
      BY <2>5
    <3>2. sup' = 0 /\ running' = FALSE /\ (secrets'.token = 0 \/ faults' = faults + 1)
      BY <2>5
    <3>3. OneConnector(u)'
      <4>1. sup' = 0 /\ running' = FALSE /\ 0 \in 0..Len(conns')
        BY <3>1, <3>2
      <4> QED
        BY ONLY <2>3, <3>1, <4>1 DEF OneConnector
    <3>4. faults' = 0 => TokenRuns'
      BY <1>1, <3>2 DEF TokenRuns
    <3> QED
      BY ONLY <2>2, <2>3, <3>3, <3>4 DEF TokenFollows
  <2> QED
    BY <1>8, <2>4, <2>5, Restarted
<1>9. CASE UNCHANGED vars
  BY <1>2, <1>9
     DEF vars, connVars, countVars, OthersIdle, OneConnector, TokenFollows, TokenRuns
<1> QED
  BY <1>3, <1>4, <1>5, <1>6, <1>7, <1>8, <1>9 DEF Next, Issue, CertStep, Processes

(* With one user: between his requests there is no second connector, the   *)
(* page says whether there is one, and without failed calls the connector  *)
(* is the one of the stored token.                                         *)
THEOREM ConnectorIsTheStoredOne == Spec => []ConnectorFollowsSecrets
<1>1. Init => AloneInv
  <2> SUFFICES ASSUME Init, NEW u \in Clients
               PROVE  OthersIdle(u) /\ OneConnector(u) /\ TokenFollows(u)
    BY DEF AloneInv
  <2>1. \A p \in Processes : req[p] = NoRequest
    BY DEF Init, Processes
  <2>2. DOMAIN conns = {} /\ Len(conns) = 0
    <3>1. conns = <<>>
      BY DEF Init
    <3> QED
      BY ONLY <3>1
  <2>3. sup = 0 /\ running = FALSE /\ secrets.token = 0
    BY Beginnings DEF Init
  <2>4. req[u].at = "idle" /\ req[u].what = "" /\ req[u].mine = 0
    BY <2>1, Beginnings DEF Processes
  <2>5. OthersIdle(u)
    BY <2>1 DEF Processes, OthersIdle
  <2>6. OneConnector(u)
    <3>1. 0 \in 0..Len(conns)
      BY <2>2
    <3> QED
      BY ONLY <2>2, <2>3, <2>4, <3>1 DEF OneConnector
  <2>7. TokenRuns
    BY <2>3 DEF TokenRuns
  <2> QED
    BY ONLY <2>4, <2>5, <2>6, <2>7 DEF TokenFollows
<1>2. Types /\ Types' /\ AloneInv /\ [Next]_vars => AloneInv'
  BY AloneStep
<1>3. Types /\ AloneInv => ConnectorFollowsSecrets
  <2> SUFFICES ASSUME Types, AloneInv, Cardinality(limits.users) = 1, Idle
               PROVE  /\ \A n \in DOMAIN conns : conns[n].state # "done" => n = sup
                      /\ running = (sup # 0)
                      /\ faults = 0 => TokenRuns
    BY DEF ConnectorFollowsSecrets, TokenRuns
  <2>1. limits.users \subseteq Clients /\ IsFiniteSet(limits.users)
    BY TunnelBounds, TunnelNames, FS_Subset DEF Types
  <2>2. PICK u \in Clients : limits.users = {u}
    BY <2>1, FS_Singleton
  <2>3. req[Main].at = "idle" /\ req[u].at = "idle"
    BY DEF Idle, Processes, Types, RequestTypes
  <2>4. OneConnector(u) /\ TokenFollows(u)
    BY <2>2, <2>3 DEF AloneInv
  <2> QED
    BY <2>3, <2>4 DEF OneConnector, TokenFollows
<1> QED
  BY <1>1, <1>2, <1>3, TypesHold, PTL DEF Spec
=============================================================================
