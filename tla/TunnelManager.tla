---------------------------- MODULE TunnelManager ----------------------------
(***************************************************************************)
(* The way in from outside: internal/tunnel/manager.go and cert.go.        *)
(*                                                                         *)
(* Connect makes (or finds) a tunnel and a CNAME record at Cloudflare,     *)
(* writes what it got into the table of secrets, one key after the other,  *)
(* and starts a supervised connector.  Disconnect undoes that.  Start      *)
(* resumes from the secrets after a restart, Close stops the connector     *)
(* when the service ends.  A certificate for the same name is issued in    *)
(* the background and renewed before it expires.                           *)
(*                                                                         *)
(* The manager's mutex guards single assignments only, so requests, the    *)
(* supervisor, an issuance and the shutdown interleave between their       *)
(* steps.  Zone and account travel with the API token; the TXT record of   *)
(* an issuance lives within one step.                                      *)
(***************************************************************************)
EXTENDS Naturals, Sequences, FiniteSets

CONSTANTS
  Hosts,         \* names a tunnel can be given
  NoHost,
  Clients,       \* HTTP requests that can be under way at once
  Main,          \* the goroutine of main that shuts the service down
  MaxRequests,   \* bound on the requests of the users
  Limits         \* bounds on the rest of a behaviour: the users; calls
                 \* to Cloudflare, Let's Encrypt or the database that fail;
                 \* times a connector exits by itself, times a certificate
                 \* comes within thirty days of its end; restarts

ASSUME TunnelBounds ==
  /\ MaxRequests \in Nat
  /\ Limits \subseteq [users : SUBSET Clients, faults : Nat, falls : Nat, ageings : Nat,
                       restarts : Nat]
ASSUME TunnelNames ==
  NoHost \notin Hosts /\ Main \notin Clients /\ IsFiniteSet(Clients)

VARIABLES
  limits,        \* the bounds of this behaviour
  secrets,       \* table secrets, and the setting public_url
  tunnels,       \* tunnels at Cloudflare
  records,       \* CNAME records at Cloudflare
  ids,           \* ids Cloudflare has given so far
  conns,         \* supervisors started in this life of the process
  sup,           \* m.cancel and m.done: index of one of them, 0 for nil
  running,       \* m.running
  req,           \* where each request, and Main, is
  issue,         \* the issuance under way (m.issuing)
  ensures,       \* goroutines of Connect that have yet to call EnsureCert
  memory,        \* m.cert: index in issued, 0 for none
  issued,        \* the host of each certificate ever issued
  due,           \* certificates to be renewed
  requests, faults, falls, ageings, restarts

cloudVars == <<tunnels, records, ids>>
connVars  == <<conns, sup, running>>
certVars  == <<issue, ensures, memory, issued, due>>
countVars == <<limits, requests, faults, falls, ageings, restarts>>
vars == <<secrets, cloudVars, connVars, req, certVars, countVars>>

Blank == [api |-> FALSE, tunnel |-> 0, token |-> 0, host |-> NoHost,
          record |-> 0, pem |-> 0, key |-> 0, url |-> NoHost]

NoRequest == [at |-> "idle", what |-> "", host |-> NoHost, tunnel |-> 0,
              record |-> 0, mine |-> 0, todo |-> <<>>, new |-> Blank]

NoIssue == [at |-> "idle", host |-> NoHost]

Init ==
  /\ limits \in Limits
  /\ secrets = Blank
  /\ tunnels = {} /\ records = {} /\ ids = 0
  /\ conns = <<>> /\ sup = 0 /\ running = FALSE
  /\ req = [p \in Clients \cup {Main} |-> NoRequest]
  /\ issue = NoIssue /\ ensures = 0 /\ memory = 0 /\ issued = <<>> /\ due = {}
  /\ requests = 0 /\ faults = 0 /\ falls = 0 /\ ageings = 0 /\ restarts = 0

Fault == faults < limits.faults /\ faults' = faults + 1

Goes(p, place) == req' = [req EXCEPT ![p].at = place]
Ends(p) == req' = [req EXCEPT ![p] = NoRequest]

Request(c, r) ==
  /\ req[c].at = "idle" /\ req[Main].at # "closed"
  /\ c \in limits.users
  /\ requests < MaxRequests
  /\ requests' = requests + 1
  /\ req' = [req EXCEPT ![c] = r]
  /\ UNCHANGED <<secrets, cloudVars, connVars, certVars, limits, faults, falls, ageings,
                 restarts>>

-----------------------------------------------------------------------------
(* stop(), for Connect, Disconnect and Close.                              *)

StopTakes(p) ==
  /\ req[p].at = "stop"
  /\ sup' = 0
  /\ conns' = [n \in DOMAIN conns |->
                 IF n = sup THEN [conns[n] EXCEPT !.cancelled = TRUE] ELSE conns[n]]
  /\ req' = [req EXCEPT ![p].mine = sup, ![p].at = "wait"]
  /\ UNCHANGED <<secrets, cloudVars, running, certVars, countVars>>

AfterStop(what) ==
  CASE what = "connect" -> "supervise"
    [] what = "disconnect" -> "clean"
    [] what = "close" -> "closed"

\* [mutant] The connector is told to stop and not waited for.
StopGoesOn(p) ==
  /\ req[p].at = "wait"
  /\ running' = IF req[p].mine = 0 THEN running ELSE FALSE
  /\ Goes(p, AfterStop(req[p].what))
  /\ UNCHANGED <<secrets, cloudVars, conns, sup, certVars, countVars>>

\* Waits for the connector, then says it does not run.
StopWaits(p) ==
  /\ req[p].at = "wait"
  /\ \/ req[p].mine = 0 /\ UNCHANGED running
     \/ /\ req[p].mine # 0 /\ conns[req[p].mine].state = "done"
        /\ running' = FALSE
  /\ Goes(p, AfterStop(req[p].what))
  /\ UNCHANGED <<secrets, cloudVars, conns, sup, certVars, countVars>>

-----------------------------------------------------------------------------
(* The table of secrets, one key at a time.                                *)

ConnectKeys == <<"api", "tunnel", "token", "host", "record", "url">>

\* "memory" stands for m.cert, forgotten before the setting is cleared.
DisconnectKeys == <<"api", "tunnel", "token", "host", "record", "pem", "key",
                    "memory", "url">>

\* The next key, or an error that leaves the rest as it is.
WriteNext(c) ==
  /\ req[c].at = "write" /\ req[c].todo # <<>>
  /\ LET key == Head(req[c].todo) IN
       \/ /\ key = "memory"
          /\ memory' = 0
          /\ req' = [req EXCEPT ![c].todo = Tail(@)]
          /\ UNCHANGED <<secrets, faults>>
       \/ /\ key # "memory"
          /\ secrets' = [secrets EXCEPT ![key] = req[c].new[key]]
          /\ req' = [req EXCEPT ![c].todo = Tail(@)]
          /\ UNCHANGED <<memory, faults>>
       \/ key # "memory" /\ Fault /\ Ends(c) /\ UNCHANGED <<secrets, memory>>
  /\ UNCHANGED <<cloudVars, connVars, issue, ensures, issued, due, limits, requests,
                 falls, ageings, restarts>>

Written(c) ==
  /\ req[c].at = "write" /\ req[c].todo = <<>>
  /\ IF req[c].what = "connect" THEN Goes(c, "stop") ELSE Ends(c)
  /\ UNCHANGED <<secrets, cloudVars, connVars, certVars, countVars>>

-----------------------------------------------------------------------------
(* Connect.                                                                *)

Connect(c) == \E h \in Hosts :
  Request(c, [NoRequest EXCEPT !.at = "find", !.what = "connect", !.host = h])

\* ZoneFor, FindTunnel and, if there is none of the name, CreateTunnel.
FindOrCreateTunnel(c) ==
  /\ req[c].at = "find"
  /\ \/ \E t \in tunnels :
          /\ req' = [req EXCEPT ![c].tunnel = t, ![c].at = "route"]
          /\ UNCHANGED <<tunnels, ids, faults>>
     \/ /\ tunnels = {}
        /\ ids' = ids + 1
        /\ tunnels' = {ids + 1}
        /\ req' = [req EXCEPT ![c].tunnel = ids + 1, ![c].at = "route"]
        /\ UNCHANGED faults
     \/ Fault /\ Ends(c) /\ UNCHANGED <<tunnels, ids>>
  /\ UNCHANGED <<secrets, records, connVars, certVars, limits, requests, falls, ageings,
                 restarts>>

ReadyToWrite(c, rec) ==
  req' = [req EXCEPT ![c].at = "write", ![c].todo = ConnectKeys,
            ![c].new = [Blank EXCEPT !.api = TRUE, !.tunnel = req[c].tunnel,
                                     !.token = req[c].tunnel,
                                     !.host = req[c].host, !.record = rec,
                                     !.url = req[c].host]]

\* PutIngress, UpsertCNAME and TunnelToken.
Route(c) ==
  /\ req[c].at = "route"
  /\ \/ /\ req[c].tunnel \in tunnels
        /\ \E r \in records : r.host = req[c].host /\ ReadyToWrite(c, r.id)
        /\ UNCHANGED <<records, ids, faults>>
     \/ /\ req[c].tunnel \in tunnels
        /\ \A r \in records : r.host # req[c].host
        /\ ids' = ids + 1
        /\ records' = records \cup {[id |-> ids + 1, host |-> req[c].host]}
        /\ ReadyToWrite(c, ids + 1)
        /\ UNCHANGED faults
     \/ /\ req[c].tunnel \notin tunnels
        /\ Ends(c) /\ UNCHANGED <<records, ids, faults>>
     \/ Fault /\ Ends(c) /\ UNCHANGED <<records, ids>>
  /\ UNCHANGED <<secrets, tunnels, connVars, certVars, limits, requests, falls, ageings,
                 restarts>>

NewSupervisor(token, fromStart) ==
  [token |-> token, state |-> "up", cancelled |-> FALSE, fromStart |-> fromStart]

\* [mutant] Whether somebody supervises already is not asked.
SuperviseAnyway(c) ==
  /\ req[c].at = "supervise"
  /\ conns' = Append(conns, NewSupervisor(req[c].new.token, FALSE))
  /\ sup' = Len(conns) + 1
  /\ running' = TRUE
  /\ ensures' = ensures + 1
  /\ Ends(c)
  /\ UNCHANGED <<secrets, cloudVars, issue, memory, issued, due, countVars>>

\* The new connector, and a goroutine for the certificate.
Supervise(c) ==
  /\ req[c].at = "supervise"
  /\ \/ /\ sup = 0
        /\ conns' = Append(conns, NewSupervisor(req[c].new.token, FALSE))
        /\ sup' = Len(conns) + 1
        /\ running' = TRUE
     \/ sup # 0 /\ UNCHANGED connVars
  /\ ensures' = ensures + 1
  /\ Ends(c)
  /\ UNCHANGED <<secrets, cloudVars, issue, memory, issued, due, countVars>>

-----------------------------------------------------------------------------
(* Disconnect.                                                             *)

Disconnect(c) == Request(c, [NoRequest EXCEPT !.at = "read", !.what = "disconnect"])

ReadSecrets(c) ==
  /\ req[c].at = "read"
  /\ \/ /\ req' = [req EXCEPT ![c].at = "stop",
                     ![c].tunnel = IF secrets.api THEN secrets.tunnel ELSE 0,
                     ![c].record = IF secrets.api THEN secrets.record ELSE 0]
        /\ UNCHANGED faults
     \/ Fault /\ Ends(c)
  /\ UNCHANGED <<secrets, cloudVars, connVars, certVars, limits, requests, falls, ageings,
                 restarts>>

\* What Cloudflare refuses to delete is logged and left there.
CleanCloud(c) ==
  /\ req[c].at = "clean"
  /\ \/ /\ records' = {r \in records : r.id # req[c].record}
        /\ tunnels' = tunnels \ {req[c].tunnel}
        /\ UNCHANGED faults
     \/ /\ Fault
        /\ records' \in {records, {r \in records : r.id # req[c].record}}
        /\ tunnels' \in {tunnels, tunnels \ {req[c].tunnel}}
  /\ req' = [req EXCEPT ![c].at = "write", ![c].todo = DisconnectKeys]
  /\ UNCHANGED <<secrets, ids, connVars, certVars, limits, requests, falls, ageings,
                 restarts>>

-----------------------------------------------------------------------------
(* The supervisor of a connector.                                          *)

\* cloudflared exits by itself.
ConnectorFalls(n) ==
  /\ conns[n].state = "up" /\ ~conns[n].cancelled
  /\ falls < limits.falls
  /\ falls' = falls + 1
  /\ conns' = [conns EXCEPT ![n].state = "down"]
  /\ UNCHANGED <<secrets, cloudVars, sup, running, req, certVars, limits, requests,
                 faults, ageings, restarts>>

\* [mutant] A connector that exited by itself is given up.
ConnectorStaysDown(n) ==
  /\ conns[n].state = "down" /\ ~conns[n].cancelled
  /\ conns' = [conns EXCEPT ![n].state = "done"]
  /\ UNCHANGED <<secrets, cloudVars, sup, running, req, certVars, countVars>>

\* After the backoff it is started again.
ConnectorRestarts(n) ==
  /\ conns[n].state = "down" /\ ~conns[n].cancelled
  /\ conns' = [conns EXCEPT ![n].state = "up"]
  /\ UNCHANGED <<secrets, cloudVars, sup, running, req, certVars, countVars>>

\* Cancelled: the child is killed, or the backoff broken off.
ConnectorStops(n) ==
  /\ conns[n].state # "done" /\ conns[n].cancelled
  /\ conns' = [conns EXCEPT ![n].state = "done"]
  /\ running' = FALSE
  /\ UNCHANGED <<secrets, cloudVars, sup, req, certVars, countVars>>

-----------------------------------------------------------------------------
(* The certificate.                                                        *)

NeedsRenewal == memory = 0 \/ memory \in due

\* EnsureCert: one issuance at a time, and only when there is a need.
EnsureCert(force) ==
  IF issue.at = "idle" /\ (force \/ NeedsRenewal)
  THEN issue' = [NoIssue EXCEPT !.at = "read"]
  ELSE UNCHANGED issue

\* The goroutine Connect left behind.
EnsureAfterConnect ==
  /\ ensures > 0
  /\ ensures' = ensures - 1
  /\ EnsureCert(FALSE)
  /\ UNCHANGED <<secrets, cloudVars, connVars, req, memory, issued, due, countVars>>

\* [mutant] The loop looks for an expiry date and finds none.
RenewLoopWantsExpiry ==
  /\ req[Main].at = "idle"
  /\ secrets.host # NoHost /\ memory \in due /\ issue.at = "idle"
  /\ EnsureCert(FALSE)
  /\ UNCHANGED <<secrets, cloudVars, connVars, req, ensures, memory, issued, due,
                 countVars>>

\* renewLoop, twice a day.
RenewLoop ==
  /\ req[Main].at = "idle"
  /\ secrets.host # NoHost /\ NeedsRenewal /\ issue.at = "idle"
  /\ EnsureCert(FALSE)
  /\ UNCHANGED <<secrets, cloudVars, connVars, req, ensures, memory, issued, due,
                 countVars>>

\* POST /api/remote/cert.
RequestCert ==
  /\ requests < MaxRequests /\ req[Main].at # "closed"
  /\ requests' = requests + 1
  /\ EnsureCert(TRUE)
  /\ UNCHANGED <<secrets, cloudVars, connVars, req, ensures, memory, issued, due,
                 limits, faults, falls, ageings, restarts>>

IssueFails == Fault /\ issue' = NoIssue

IssueReads ==
  /\ issue.at = "read"
  /\ \/ /\ secrets.api /\ secrets.host # NoHost
        /\ issue' = [at |-> "challenge", host |-> secrets.host]
        /\ UNCHANGED faults
     \/ /\ ~secrets.api \/ secrets.host = NoHost
        /\ issue' = NoIssue /\ UNCHANGED faults
     \/ IssueFails
  /\ UNCHANGED <<secrets, cloudVars, connVars, req, ensures, memory, issued, due,
                 limits, requests, falls, ageings, restarts>>

\* solveDNS01 and the order: minutes of waiting.
IssueChallenge ==
  /\ issue.at = "challenge"
  /\ \/ /\ issued' = Append(issued, issue.host)
        /\ issue' = [issue EXCEPT !.at = "pem"]
        /\ UNCHANGED faults
     \/ IssueFails /\ UNCHANGED issued
  /\ UNCHANGED <<secrets, cloudVars, connVars, req, ensures, memory, due, limits, requests,
                 falls, ageings, restarts>>

\* saveCert: the chain, then its key.
SaveCert(key, next) ==
  /\ issue.at = key
  /\ \/ /\ secrets' = [secrets EXCEPT ![key] = Len(issued)]
        /\ issue' = [issue EXCEPT !.at = next]
        /\ UNCHANGED faults
     \/ IssueFails /\ UNCHANGED secrets
  /\ UNCHANGED <<cloudVars, connVars, req, ensures, memory, issued, due, limits, requests,
                 falls, ageings, restarts>>

\* The stored pair, when it is a pair; the memory keeps what it has otherwise.
StoredCert(otherwise) ==
  IF secrets.pem = secrets.key /\ secrets.pem # 0 THEN secrets.pem ELSE otherwise

LoadCert ==
  /\ issue.at = "load"
  /\ memory' = StoredCert(memory)
  /\ issue' = NoIssue
  /\ UNCHANGED <<secrets, cloudVars, connVars, req, ensures, issued, due, countVars>>

\* Thirty days are left.
CertAges ==
  /\ memory # 0 /\ memory \notin due
  /\ ageings < limits.ageings
  /\ ageings' = ageings + 1
  /\ due' = due \cup {memory}
  /\ UNCHANGED <<secrets, cloudVars, connVars, req, issue, ensures, memory, issued,
                 limits, requests, faults, falls, restarts>>

-----------------------------------------------------------------------------
(* The process ends, and starts again.                                     *)

\* SIGTERM: the context of Start's connector ends, Close follows, and then the
\* HTTP server waits for the requests under way.
Shutdown ==
  /\ req[Main].at = "idle"
  /\ restarts < limits.restarts
  /\ conns' = [n \in DOMAIN conns |->
                 [conns[n] EXCEPT !.cancelled = @ \/ conns[n].fromStart]]
  /\ req' = [req EXCEPT ![Main].at = "stop", ![Main].what = "close"]
  /\ UNCHANGED <<secrets, cloudVars, sup, running, certVars, countVars>>

\* The process is gone, after a shutdown or in a crash; Start resumes what the
\* secrets say, as far as it can read them.
Restart ==
  /\ restarts < limits.restarts
  /\ restarts' = restarts + 1
  /\ req' = [p \in DOMAIN req |-> NoRequest]
  /\ issue' = NoIssue /\ ensures' = 0
  /\ \E certRead, tokenRead \in BOOLEAN :
       /\ IF certRead /\ tokenRead THEN UNCHANGED faults ELSE Fault
       /\ memory' = IF certRead THEN StoredCert(0) ELSE 0
       /\ LET resumes == tokenRead /\ secrets.token # 0 IN
            /\ conns' = IF resumes THEN <<NewSupervisor(secrets.token, TRUE)>>
                                   ELSE <<>>
            /\ sup' = IF resumes THEN 1 ELSE 0
            /\ running' = resumes
  /\ UNCHANGED <<secrets, cloudVars, issued, due, limits, requests, falls, ageings>>

-----------------------------------------------------------------------------
Handle(c) ==
  \/ FindOrCreateTunnel(c) \/ Route(c) \/ Supervise(c)
  \/ ReadSecrets(c) \/ CleanCloud(c)
  \/ WriteNext(c) \/ Written(c)

Stop(p) == StopTakes(p) \/ StopWaits(p)

Watch(n) == ConnectorRestarts(n) \/ ConnectorStops(n)

Issue ==
  \/ IssueReads \/ IssueChallenge
  \/ SaveCert("pem", "key") \/ SaveCert("key", "load") \/ LoadCert

Next ==
  \/ \E c \in Clients : Connect(c) \/ Disconnect(c) \/ Handle(c)
  \/ \E p \in Clients \cup {Main} : Stop(p)
  \/ \E n \in DOMAIN conns : Watch(n) \/ ConnectorFalls(n)
  \/ EnsureAfterConnect \/ RenewLoop \/ RequestCert
  \/ Issue
  \/ CertAges
  \/ Shutdown \/ Restart

\* Requests, the supervisor and an issuance go on; nothing makes a user act, a
\* call fail, a connector fall or the process end.
MaxConns == MaxRequests + 1

Fairness ==
  /\ \A c \in Clients : WF_vars(Handle(c))
  /\ \A p \in Clients \cup {Main} : WF_vars(Stop(p))
  /\ \A n \in 1..MaxConns : WF_vars(n \in DOMAIN conns /\ Watch(n))
  /\ WF_vars(EnsureAfterConnect) /\ WF_vars(RenewLoop) /\ WF_vars(Issue)

Spec == Init /\ [][Next]_vars
FairSpec == Spec /\ Fairness

-----------------------------------------------------------------------------
(* Properties.                                                             *)

Places == {"idle", "find", "route", "write", "stop", "wait", "supervise", "read",
           "clean", "closed"}

(* The type invariant; in particular whoever waits for a connector has     *)
(* told it to stop (stop()).                                               *)
TypeOK ==
  /\ secrets.tunnel \in 0..ids /\ secrets.token \in 0..ids
  /\ secrets.record \in 0..ids
  /\ {secrets.host, secrets.url} \subseteq Hosts \cup {NoHost}
  /\ {secrets.pem, secrets.key, memory} \subseteq 0..Len(issued)
  /\ tunnels \subseteq 1..ids
  /\ \A r \in records : r.id \in 1..ids /\ r.host \in Hosts
  /\ sup \in 0..Len(conns) /\ running \in BOOLEAN
  /\ \A n \in DOMAIN conns : conns[n].state \in {"up", "down", "done"}
  /\ \A p \in DOMAIN req : req[p].at \in Places /\ req[p].mine \in 0..Len(conns)
  /\ \A p \in DOMAIN req :
       req[p].at = "wait" /\ req[p].mine # 0 => conns[req[p].mine].cancelled
  /\ issue.at \in {"idle", "read", "challenge", "pem", "key", "load"}
  /\ ensures \in Nat

Idle == \A p \in DOMAIN req : req[p].at = "idle"

(* Every supervisor at work is the one stop() would reach: however Connect, *)
(* Disconnect and Close interleave, no connector is left that nobody can   *)
(* stop any more.                                                          *)
StopReachesAll ==
  \A n \in DOMAIN conns :
    conns[n].state # "done" /\ ~conns[n].cancelled => n = sup

(* With one request at a time: when it is answered no second connector is  *)
(* at work, the flag on the page tells whether there is one, and, unless a *)
(* call failed, there is one exactly when a token is stored, and it runs   *)
(* with that token.                                                        *)
ConnectorFollowsSecrets ==
  Cardinality(limits.users) = 1 /\ Idle =>
    /\ \A n \in DOMAIN conns : conns[n].state # "done" => n = sup
    /\ running = (sup # 0)
    /\ faults = 0 =>
         secrets.token = IF sup = 0 THEN 0 ELSE conns[sup].token

(* A connector that falls comes back: once users, failures and restarts    *)
(* leave the tunnel alone, a stored token means a connector at work.       *)
DoorsStayOpen ==
  Cardinality(limits.users) = 1 /\ <>[](Idle /\ secrets.token # 0 /\ faults = 0)
    => <>[](sup # 0 /\ conns[sup].state = "up")

(* A connected tunnel has a certificate in the end, and one far enough     *)
(* from its expiry: failed issuances, a restart, or a chain stored without *)
(* its key are made good by renewLoop.                                     *)
CertificateArrives ==
  Cardinality(limits.users) = 1 /\ <>[](Idle /\ secrets.api /\ secrets.host # NoHost) => <>[]~NeedsRenewal

(* The comment in Connect: the secrets are written only after everything   *)
(* succeeded, because "half the credentials in the database after a failed *)
(* attempt would look like a configured tunnel".                           *)
ConfiguredMeansComplete ==
  Idle /\ secrets.host # NoHost =>
    secrets.api /\ secrets.tunnel # 0 /\ secrets.token # 0 /\ secrets.record # 0

(* The comment in Disconnect: the certificate goes with the tunnel, "and   *)
(* must not outlive" it.                                                   *)
CertificateGoesWithTunnel ==
  Idle /\ issue.at = "idle" /\ secrets = [Blank EXCEPT !.pem = secrets.pem,
                                                      !.key = secrets.key]
    => memory = 0 /\ secrets.pem = 0

(* The first line of cert.go: the certificate is "for the same name as the *)
(* tunnel".                                                                *)
CertificateForTunnelName ==
  Idle /\ issue.at = "idle" /\ ensures = 0 /\ secrets.host # NoHost /\ ~NeedsRenewal
    => issued[memory] = secrets.host

(* The comment of Manager: it creates the tunnel, keeps the connector      *)
(* alive, "and can clear all of it away".                                  *)
NothingLeftBehind ==
  Idle /\ secrets.host = NoHost /\ ids > 0 => tunnels = {} /\ records = {}

(* The comment at main's shutdown: the connector is waited for, "otherwise *)
(* systemd kills it together with the service".                            *)
NoConnectorOutlives ==
  req[Main].at = "closed" /\ (\A c \in Clients : req[c].at = "idle")
    => \A n \in DOMAIN conns : conns[n].state = "done"
=============================================================================
