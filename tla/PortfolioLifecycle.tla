------------------------- MODULE PortfolioLifecycle -------------------------
(***************************************************************************)
(* Portfolios come and go while the service runs.                          *)
(*                                                                         *)
(*   internal/api/hub.go           Hub: attach, dispatch, add, delete      *)
(*   internal/store/portfolios.go  the rows                                *)
(*   internal/jobs/fleet.go        Fleet and the daily run                 *)
(*   internal/mqtt/publisher.go    Retire                                  *)
(*   cmd/oddinvestd/main.go        spawn and stop, which tie them together *)
(*                                                                         *)
(* A portfolio is a row, a satellite in the hub's map, a Runner in the     *)
(* fleet and a publisher with a retained topic.  None of the handlers      *)
(* holds a lock across its steps, so two requests, the daily run and the   *)
(* publications under way interleave between them.  The main portfolio,    *)
(* which cannot be added or deleted, is left out; what a publisher does    *)
(* while it lives is StatePublication's subject.                           *)
(***************************************************************************)
EXTENDS Naturals, Sequences, FiniteSets, SequencesExt

CONSTANTS
  Slugs,        \* names portfolios can be given
  Clients,      \* HTTP requests that can be under way at once
  Limits        \* bounds on what users and the environment do in a behaviour:
                \* requests at once and in all, mutations, daily runs, faults
                \* (failed queries: no connection, timeout, client gone),
                \* drops of a connection, restarts

ASSUME LifecycleBounds ==
  /\ IsFiniteSet(Clients)
  /\ Limits \subseteq [atOnce : Nat, requests : Nat, mutations : Nat,
                       dailyRuns : Nat, faults : Nat, drops : Nat, restarts : Nat]

VARIABLES
  limits,       \* the bounds of this behaviour
  rows,         \* table portfolios: records [id, slug]
  lastId,       \* AUTOINCREMENT: the highest id ever given
  spawned,      \* every satellite ever attached, as [id, slug]
  sats,         \* Hub.sats: slug -> index in spawned, 0 for none
  others,       \* Fleet.others: slug -> index in spawned, 0 for none
  runnerPub,    \* satellites whose Runner has its publisher (SetPublisher)
  remembers,    \* satellites whose publisher holds a document (last)
  link,         \* connection of each publisher: "down", "open", "closed"
  call,         \* publication under way for each satellite, daily run apart
  daily,        \* the daily run: where it is, for whom, who is left
  req,          \* the requests
  topic,        \* retained state per slug: id of the portfolio, 0 for none
  halfAdded,    \* ids whose POST answered 500 after the row was written
  late,         \* ids whose document reached a publisher already retired
  unerased,     \* ids whose topic was to be cleared while the link was down
  strays,       \* ids the daily run wrote a snapshot for with the row gone
  requests, mutations, dailyRuns, faults, drops, restarts

storeVars   == <<rows, lastId>>
hubVars     == <<sats, others>>
satVars     == <<runnerPub, remembers, link>>
historyVars == <<halfAdded, late, unerased, strays>>
countVars   == <<limits, requests, mutations, dailyRuns, faults, drops, restarts>>
vars == <<storeVars, spawned, hubVars, satVars, call, daily, req, topic,
          historyVars, countVars>>

NoRequest == [at |-> "idle", slug |-> "", id |-> 0, sat |-> 0]
NoDaily == [at |-> "idle", left |-> {}, sat |-> 0]

Nobody == [s \in Slugs |-> 0]

Init ==
  /\ limits \in Limits
  /\ rows = {} /\ lastId = 1          \* id 1 is the main portfolio
  /\ spawned = <<>>
  /\ sats = Nobody /\ others = Nobody
  /\ runnerPub = {} /\ remembers = {} /\ link = <<>> /\ call = <<>>
  /\ daily = NoDaily
  /\ req = [c \in Clients |-> NoRequest]
  /\ topic = Nobody
  /\ halfAdded = {} /\ late = {} /\ unerased = {} /\ strays = {}
  /\ requests = 0 /\ mutations = 0 /\ dailyRuns = 0 /\ faults = 0
  /\ drops = 0 /\ restarts = 0

HasRow(id) == \E r \in rows : r.id = id
RowOf(slug) == CHOOSE r \in rows : r.slug = slug
SlugTaken(slug) == \E r \in rows : r.slug = slug

\* A query can fail for reasons of its own.
Fault == faults < limits.faults /\ faults' = faults + 1

Goes(c, place) == req' = [req EXCEPT ![c].at = place]
Ends(c) == req' = [req EXCEPT ![c] = NoRequest]

-----------------------------------------------------------------------------
(* POST /api/portfolios.                                                   *)

Request(c, place, slug) ==
  /\ req[c].at = "idle"
  /\ Cardinality({d \in Clients : req[d].at # "idle"}) < limits.atOnce
  /\ requests < limits.requests
  /\ requests' = requests + 1
  /\ req' = [req EXCEPT ![c] = [NoRequest EXCEPT !.at = place, !.slug = slug]]
  /\ UNCHANGED <<storeVars, spawned, hubVars, satVars, call, daily, topic,
                 historyVars, limits, mutations, dailyRuns, faults, drops, restarts>>

\* [mutant] Without AUTOINCREMENT SQLite gives the highest id there is, plus 1.
AddPortfolioReusingIds(c) ==
  /\ req[c].at = "insert"
  /\ \/ SlugTaken(req[c].slug) /\ Ends(c) /\ UNCHANGED storeVars
     \/ /\ ~SlugTaken(req[c].slug)
        /\ \E id \in 2..lastId + 1 :
             /\ ~HasRow(id) /\ \A r \in rows : r.id < id
             /\ id = 2 \/ HasRow(id - 1)
             /\ rows' = rows \cup {[id |-> id, slug |-> req[c].slug]}
             /\ lastId' = id
        /\ Goes(c, "readback")
  /\ UNCHANGED <<spawned, hubVars, satVars, call, daily, topic, historyVars,
                 countVars>>

\* The row, or ErrConflict.
AddPortfolio(c) ==
  /\ req[c].at = "insert"
  /\ \/ SlugTaken(req[c].slug) /\ Ends(c) /\ UNCHANGED storeVars
     \/ /\ ~SlugTaken(req[c].slug)
        /\ lastId' = lastId + 1
        /\ rows' = rows \cup {[id |-> lastId + 1, slug |-> req[c].slug]}
        /\ Goes(c, "readback")
  /\ UNCHANGED <<spawned, hubVars, satVars, call, daily, topic, historyVars,
                 countVars>>

\* PortfolioBySlug after the insert: "created, but not read" is a 500 that
\* leaves the row without a satellite.
ReadBack(c) ==
  /\ req[c].at = "readback"
  /\ \/ /\ SlugTaken(req[c].slug)
        /\ req' = [req EXCEPT ![c].at = "spawn", ![c].id = RowOf(req[c].slug).id]
        /\ UNCHANGED <<halfAdded, faults>>
     \/ /\ ~SlugTaken(req[c].slug)
        /\ Ends(c) /\ UNCHANGED <<halfAdded, faults>>
     \/ /\ SlugTaken(req[c].slug) /\ Fault
        /\ halfAdded' = halfAdded \cup {RowOf(req[c].slug).id}
        /\ Ends(c)
  /\ UNCHANGED <<storeVars, spawned, hubVars, satVars, call, daily, topic, late,
                 unerased, strays, limits, requests, mutations, dailyRuns, drops,
                 restarts>>

-----------------------------------------------------------------------------
(* attach: spawn, then the hub's map.                                      *)

\* fleet.Add, a publisher that connects in the background, SetPublisher, and
\* the start-up publication in a goroutine.
Spawn(c) ==
  /\ req[c].at = "spawn"
  /\ LET n == Len(spawned) + 1 IN
       /\ spawned' = Append(spawned, [id |-> req[c].id, slug |-> req[c].slug])
       /\ others' = [others EXCEPT ![req[c].slug] = n]
       /\ runnerPub' = runnerPub \cup {n}
       /\ link' = Append(link, "down")
       /\ call' = Append(call, "due")
       /\ req' = [req EXCEPT ![c].at = "hook", ![c].sat = n]
  /\ UNCHANGED <<storeVars, sats, remembers, daily, topic, historyVars,
                 countVars>>

Hook(c) ==
  /\ req[c].at = "hook"
  /\ sats' = [sats EXCEPT ![req[c].slug] = req[c].sat]
  /\ Ends(c)
  /\ UNCHANGED <<storeVars, spawned, others, satVars, call, daily, topic,
                 historyVars, countVars>>

-----------------------------------------------------------------------------
(* DELETE /api/portfolios/{slug}.                                          *)

Find(c) ==
  /\ req[c].at = "find"
  /\ \/ /\ SlugTaken(req[c].slug)
        /\ req' = [req EXCEPT ![c].at = "unhook", ![c].id = RowOf(req[c].slug).id]
     \/ ~SlugTaken(req[c].slug) /\ Ends(c)
  /\ UNCHANGED <<storeVars, spawned, hubVars, satVars, call, daily, topic,
                 historyVars, countVars>>

Unhook(c) ==
  /\ req[c].at = "unhook"
  /\ sats' = [sats EXCEPT ![req[c].slug] = 0]
  /\ req' = [req EXCEPT ![c].sat = sats[req[c].slug],
                        ![c].at = IF sats[req[c].slug] = 0 THEN "erase"
                                                           ELSE "remove"]
  /\ UNCHANGED <<storeVars, spawned, others, satVars, call, daily, topic,
                 historyVars, countVars>>

\* stop(): fleet.Remove, SetPublisher(nil), Retire.
FleetRemove(c) ==
  /\ req[c].at = "remove"
  /\ others' = [others EXCEPT ![req[c].slug] = 0]
  /\ Goes(c, "detach")
  /\ UNCHANGED <<storeVars, spawned, sats, satVars, call, daily, topic,
                 historyVars, countVars>>

Detach(c) ==
  /\ req[c].at = "detach"
  /\ runnerPub' = runnerPub \ {req[c].sat}
  /\ Goes(c, "forget")
  /\ UNCHANGED <<storeVars, spawned, hubVars, remembers, link, call, daily,
                 topic, historyVars, countVars>>

\* [mutant] Retire clears the topic and keeps the document.
RetireKeepsDocument(c) ==
  /\ req[c].at = "forget"
  /\ UNCHANGED remembers
  /\ Goes(c, "clear")
  /\ UNCHANGED <<storeVars, spawned, hubVars, runnerPub, link, call, daily,
                 topic, historyVars, countVars>>

RetireForgets(c) ==
  /\ req[c].at = "forget"
  /\ remembers' = remembers \ {req[c].sat}
  /\ Goes(c, "clear")
  /\ UNCHANGED <<storeVars, spawned, hubVars, runnerPub, link, call, daily,
                 topic, historyVars, countVars>>

\* The empty retained payload reaches the broker, or there is no connection.
RetireClears(c) ==
  /\ req[c].at = "clear"
  /\ \/ /\ link[req[c].sat] = "open"
        /\ topic' = [topic EXCEPT ![req[c].slug] = 0]
        /\ UNCHANGED unerased
     \/ /\ link[req[c].sat] = "down"
        /\ unerased' = unerased \cup {spawned[req[c].sat].id}
        /\ UNCHANGED topic
  /\ Goes(c, "close")
  /\ UNCHANGED <<storeVars, spawned, hubVars, satVars, call, daily, halfAdded,
                 late, strays, countVars>>

RetireCloses(c) ==
  /\ req[c].at = "close"
  /\ link' = [link EXCEPT ![req[c].sat] = "closed"]
  /\ Goes(c, "erase")
  /\ UNCHANGED <<storeVars, spawned, hubVars, runnerPub, remembers, call, daily,
                 topic, historyVars, countVars>>

\* [mutant] A failed deletion is answered and nothing is attached again.
DeletePortfolioGivesUp(c) ==
  /\ req[c].at = "erase"
  /\ \/ /\ HasRow(req[c].id)
        /\ rows' = {r \in rows : r.id # req[c].id}
        /\ Ends(c) /\ UNCHANGED faults
     \/ HasRow(req[c].id) /\ Fault /\ Ends(c) /\ UNCHANGED rows
     \/ ~HasRow(req[c].id) /\ Ends(c) /\ UNCHANGED <<rows, faults>>
  /\ UNCHANGED <<lastId, spawned, hubVars, satVars, call, daily, topic,
                 historyVars, limits, requests, mutations, dailyRuns, drops, restarts>>

\* The row goes, with all it owns (CASCADE).  On any error, "not found"
\* among them, the handler attaches a satellite again.
DeletePortfolio(c) ==
  /\ req[c].at = "erase"
  /\ \/ /\ HasRow(req[c].id)
        /\ rows' = {r \in rows : r.id # req[c].id}
        /\ Ends(c) /\ UNCHANGED faults
     \/ HasRow(req[c].id) /\ Fault /\ Goes(c, "spawn") /\ UNCHANGED rows
     \/ ~HasRow(req[c].id) /\ Goes(c, "spawn") /\ UNCHANGED <<rows, faults>>
  /\ UNCHANGED <<lastId, spawned, hubVars, satVars, call, daily, topic,
                 historyVars, limits, requests, mutations, dailyRuns, drops, restarts>>

-----------------------------------------------------------------------------
(* Publications of a satellite: at start-up and after each change.         *)

\* The dispatcher hands a request to the satellite, which changes something
\* and publishes.
Mutate(slug) ==
  /\ sats[slug] # 0
  /\ call[sats[slug]] = "idle"
  /\ mutations < limits.mutations
  /\ mutations' = mutations + 1
  /\ call' = [call EXCEPT ![sats[slug]] = "due"]
  /\ UNCHANGED <<storeVars, spawned, hubVars, satVars, daily, req, topic,
                 historyVars, limits, requests, dailyRuns, faults, drops, restarts>>

\* Runner.PublishState takes the publisher before it builds the document.
TakePublisher(n) ==
  /\ call[n] = "due"
  /\ call' = [call EXCEPT ![n] = IF n \in runnerPub THEN "taken" ELSE "idle"]
  /\ UNCHANGED <<storeVars, spawned, hubVars, satVars, daily, req, topic,
                 historyVars, countVars>>

Retired(n) == \E c \in Clients : req[c].sat = n /\ req[c].at \in {"clear", "close"}

\* Publisher.PublishState: remembered in any case, sent if the link is open.
HandOver(n) ==
  /\ remembers' = remembers \cup {n}
  /\ topic' = IF link[n] = "open"
              THEN [topic EXCEPT ![spawned[n].slug] = spawned[n].id]
              ELSE topic
  /\ late' = IF Retired(n) THEN late \cup {spawned[n].id} ELSE late

Publish(n) ==
  /\ call[n] = "taken"
  /\ HandOver(n)
  /\ call' = [call EXCEPT ![n] = "idle"]
  /\ UNCHANGED <<storeVars, spawned, hubVars, runnerPub, link, daily, req,
                 halfAdded, unerased, strays, countVars>>

\* OnConnect pushes what is remembered.
Connect(n) ==
  /\ link[n] = "down"
  /\ link' = [link EXCEPT ![n] = "open"]
  /\ topic' = IF n \in remembers
              THEN [topic EXCEPT ![spawned[n].slug] = spawned[n].id]
              ELSE topic
  /\ UNCHANGED <<storeVars, spawned, hubVars, runnerPub, remembers, call, daily,
                 req, historyVars, countVars>>

Drop(n) ==
  /\ link[n] = "open"
  /\ drops < limits.drops
  /\ drops' = drops + 1
  /\ link' = [link EXCEPT ![n] = "down"]
  /\ UNCHANGED <<storeVars, spawned, hubVars, runnerPub, remembers, call, daily,
                 req, topic, historyVars, limits, requests, mutations, dailyRuns,
                 faults, restarts>>

-----------------------------------------------------------------------------
(* Fleet.dailyRun over the runners copied at its start.                    *)

DailyStart ==
  /\ daily.at = "idle"
  /\ dailyRuns < limits.dailyRuns
  /\ dailyRuns' = dailyRuns + 1
  /\ daily' = [at |-> "next", left |-> {others[s] : s \in Slugs} \ {0}, sat |-> 0]
  /\ UNCHANGED <<storeVars, spawned, hubVars, satVars, call, req, topic,
                 historyVars, limits, requests, mutations, faults, drops, restarts>>

\* persistDaily: the snapshot of a portfolio without a row fails on its
\* foreign key.
DailySnapshot ==
  /\ daily.at = "next"
  /\ \E n \in daily.left :
       /\ daily' = [at |-> "publish", left |-> daily.left \ {n}, sat |-> n]
       /\ strays' = IF HasRow(spawned[n].id) THEN strays
                                             ELSE strays \cup {spawned[n].id}
  /\ UNCHANGED <<storeVars, spawned, hubVars, satVars, call, req, topic,
                 halfAdded, late, unerased, countVars>>

DailyTakesPublisher ==
  /\ daily.at = "publish"
  /\ daily' = [daily EXCEPT !.at = IF daily.sat \in runnerPub THEN "taken"
                                                             ELSE "next"]
  /\ UNCHANGED <<storeVars, spawned, hubVars, satVars, call, req, topic,
                 historyVars, countVars>>

DailyPublishes ==
  /\ daily.at = "taken"
  /\ HandOver(daily.sat)
  /\ daily' = [daily EXCEPT !.at = "next"]
  /\ UNCHANGED <<storeVars, spawned, hubVars, runnerPub, link, call, req,
                 halfAdded, unerased, strays, countVars>>

DailyEnds ==
  /\ daily.at = "next" /\ daily.left = {}
  /\ daily' = NoDaily
  /\ UNCHANGED <<storeVars, spawned, hubVars, satVars, call, req, topic,
                 historyVars, countVars>>

-----------------------------------------------------------------------------
(* The process ends and starts again: Hub.Start attaches what the table    *)
(* lists.                                                                  *)
Restart ==
  /\ restarts < limits.restarts
  /\ restarts' = restarts + 1
  /\ spawned' = SetToSeq(rows)
  /\ LET place(s) == IF SlugTaken(s)
                     THEN CHOOSE n \in DOMAIN spawned' : spawned'[n].slug = s
                     ELSE 0
     IN /\ sats' = [s \in Slugs |-> place(s)]
        /\ others' = [s \in Slugs |-> place(s)]
  /\ runnerPub' = DOMAIN spawned'
  /\ remembers' = {}
  /\ link' = [n \in DOMAIN spawned' |-> "down"]
  /\ call' = [n \in DOMAIN spawned' |-> "due"]
  /\ daily' = NoDaily
  /\ req' = [c \in Clients |-> NoRequest]
  /\ UNCHANGED <<storeVars, topic, historyVars, limits, requests, mutations, dailyRuns,
                 faults, drops>>

Handle(c) ==
  \/ AddPortfolio(c) \/ ReadBack(c) \/ Spawn(c) \/ Hook(c)
  \/ Find(c) \/ Unhook(c)
  \/ FleetRemove(c) \/ Detach(c)
  \/ RetireForgets(c) \/ RetireClears(c) \/ RetireCloses(c)
  \/ DeletePortfolio(c)

DailyRun ==
  \/ DailySnapshot \/ DailyTakesPublisher \/ DailyPublishes \/ DailyEnds

Publication(n) == TakePublisher(n) \/ Publish(n)

Next ==
  \/ \E c \in Clients, s \in Slugs : Request(c, "insert", s) \/ Request(c, "find", s)
  \/ \E c \in Clients : Handle(c)
  \/ \E s \in Slugs : Mutate(s)
  \/ \E n \in DOMAIN spawned : Publication(n) \/ Connect(n) \/ Drop(n)
  \/ DailyStart \/ DailyRun
  \/ Restart

Spec == Init /\ [][Next]_vars

-----------------------------------------------------------------------------
(* Properties.                                                             *)

Places == {"idle", "insert", "readback", "spawn", "hook", "find", "unhook",
           "remove", "detach", "forget", "clear", "close", "erase"}

(* The type invariant; in particular nothing is attached under an id the   *)
(* table never gave (handleAdd attaches what PortfolioBySlug read back).   *)
TypeOK ==
  /\ \A r \in rows : r.id \in 2..lastId /\ r.slug \in Slugs
  /\ \A n \in DOMAIN spawned : spawned[n].id \in 2..lastId
  /\ sats \in [Slugs -> 0..Len(spawned)]
  /\ others \in [Slugs -> 0..Len(spawned)]
  /\ runnerPub \subseteq DOMAIN spawned
  /\ remembers \subseteq DOMAIN spawned
  /\ link \in [DOMAIN spawned -> {"down", "open", "closed"}]
  /\ call \in [DOMAIN spawned -> {"idle", "due", "taken"}]
  /\ daily.at \in {"idle", "next", "publish", "taken"}
  /\ \A c \in Clients : req[c].at \in Places
  /\ topic \in [Slugs -> 0..lastId]

AllIdle ==
  /\ \A c \in Clients : req[c].at = "idle"
  /\ \A n \in DOMAIN call : call[n] = "idle"
  /\ daily.at = "idle"

(* A satellite, a ghost included, never answers for, or writes snapshots   *)
(* into, a portfolio of another name: ids are never given twice, so a      *)
(* satellite that outlived its row finds nothing.                          *)
OwnPortfolioOnly ==
  \A n \in DOMAIN spawned, r \in rows :
    spawned[n].id = r.id => spawned[n].slug = r.slug

(* With one request at a time: what the hub serves and what the fleet runs *)
(* every day are the portfolios of the table, also after a deletion that   *)
(* failed half-way.  The exception is a row whose POST answered 500.       *)
HubMatchesStore ==
  (limits.atOnce = 1 /\ AllIdle) =>
    /\ \A s \in Slugs : sats[s] = others[s]
    /\ \A s \in Slugs : sats[s] # 0 => spawned[sats[s]] \in rows
    /\ \A r \in rows : sats[r.slug] = 0 => r.id \in halfAdded

(* Both: each portfolio is served as itself, and no other.                 *)
PortfoliosInPlace == HubMatchesStore /\ OwnPortfolioOnly

(* With one request at a time: the retained document of a deleted          *)
(* portfolio is gone from the broker, reconnects included, unless a        *)
(* publication was already under way when the publisher was retired or the *)
(* broker was away at that moment.                                         *)
GhostsOnlyByAccident ==
  limits.atOnce = 1 /\ AllIdle => \A s \in Slugs :
    topic[s] = 0 \/ HasRow(topic[s]) \/ topic[s] \in late \cup unerased

(* The comment of handleDelete: the background part goes first, "otherwise *)
(* the daily run could write a snapshot into a portfolio that is gone".    *)
NoSnapshotOfDeleted == strays = {}

(* The comments of Retire and of spawn: the retained state of a deleted    *)
(* portfolio is a ghost, hence it is erased (here with the broker up).     *)
NoGhostInTopic ==
  AllIdle => \A s \in Slugs :
    topic[s] = 0 \/ HasRow(topic[s]) \/ topic[s] \in unerased

(* The comment in handleDelete's error path: "when the deletion failed,    *)
(* the portfolio stayed in the database", hence it is attached again.      *)
AttachedAgainOnlyIfStored ==
  [][\A c \in Clients :
       req[c].at = "erase" /\ req'[c].at = "spawn" => HasRow(req[c].id)]_req
=============================================================================
