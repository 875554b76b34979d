-------------------------- MODULE StatePublication --------------------------
(***************************************************************************)
(* How a change of a portfolio reaches Home Assistant.                     *)
(*                                                                         *)
(*   internal/api/server.go       publishAsync, publishLoop                *)
(*   internal/jobs/jobs.go        Runner.PublishState                      *)
(*   internal/mqtt/publisher.go   NextGen, PublishState, OnConnect         *)
(*                                                                         *)
(* A handler commits its change and calls publishAsync, which starts the   *)
(* publishing loop or, when the loop is already running, asks it for one   *)
(* more round.  The start-up goroutine and the daily run call              *)
(* Runner.PublishState next to that loop.  Each call takes a generation,   *)
(* reads the database in many separate queries, and hands its document to  *)
(* the publisher, which remembers the youngest document and pushes it      *)
(* again after every reconnect.  The MQTT client (QoS 1) keeps what the    *)
(* broker has not acknowledged and sends it again, in the same order, when *)
(* the connection is back.                                                 *)
(*                                                                         *)
(* The contents of a document are abstracted to the versions of the        *)
(* database its first and its last query saw.                              *)
(***************************************************************************)
EXTENDS Naturals, Sequences

CONSTANTS
  Loop,          \* the goroutine of publishLoop
  Startup,       \* the start-up goroutine of main
  Background,    \* other callers of PublishState: the daily run
  NoDoc,         \* "no document"
  MaxMoves,      \* bounds what the environment does altogether: the changes of
  MaxCommits,    \* the database among it, and the daily runs, the failures, the
  MaxEach        \* drops of the link and the restarts, each kind by itself

ASSUME BoundsAssumption == {MaxMoves, MaxCommits, MaxEach} \subseteq Nat
ASSUME CallersAssumption ==
  Loop # Startup /\ Loop \notin Background

Callers == {Loop, Startup} \cup Background

\* A document: the lifetime of the service and the generation it belongs to,
\* and the versions of the database its first and last query saw.
Documents == [run : Nat, gen : Nat, from : Nat, upTo : Nat]

VARIABLES
  db,            \* version of the database: commits so far
  unannounced,   \* handlers that committed and have yet to call publishAsync
  pubRunning,    \* Server.pubRunning
  pubPending,    \* Server.pubPending
  pc,            \* where each caller is inside PublishState
  draft,         \* the document each caller is assembling
  asOf,          \* Publisher.gen is Len(asOf); asOf[g] is db when g was taken
  failed,        \* generations whose build returned an error
  last,          \* Publisher.last
  lastGen,       \* Publisher.lastGen
  linkUp,        \* IsConnectionOpen
  connectDue,    \* OnConnect goroutines started and not yet run
  outbox,        \* what the MQTT client has yet to send, oldest first
  unacked,       \* what it sent and the broker has not acknowledged
  topic,         \* the retained document at the broker
  renewed,       \* nothing has arrived over this connection yet
  shown,         \* history: what the topic has held in this lifetime
  run, rounds, fails, drops  \* counters of the environment's moves

webVars    == <<unannounced, pubRunning, pubPending>>
callVars   == <<pc, draft, asOf, failed>>
pubVars    == <<last, lastGen>>
linkVars   == <<linkUp, connectDue, outbox, unacked>>
topicVars == <<topic, renewed, shown>>
countVars  == <<run, rounds, fails, drops>>
vars == <<db, webVars, callVars, pubVars, linkVars, topicVars, countVars>>

ASSUME NoDocAssumption == NoDoc \notin Documents

\* The environment may make another move.
MovesLeft == db + rounds + fails + drops + run < MaxMoves

NewDraft(g) == [run |-> run, gen |-> g, from |-> 0, upTo |-> 0]

Idle == [run |-> 0, gen |-> 0, from |-> 0, upTo |-> 0]

\* At start main publishes once, "if there is a state already".
AtStart == [c \in Callers |-> IF c = Startup THEN "begin" ELSE "idle"]

Init ==
  /\ db = 0
  /\ unannounced = 0 /\ pubRunning = FALSE /\ pubPending = FALSE
  /\ pc = AtStart
  /\ draft = [c \in Callers |-> Idle]
  /\ asOf = <<>> /\ failed = {}
  /\ last = NoDoc /\ lastGen = 0
  /\ linkUp = FALSE /\ connectDue = 0 /\ outbox = <<>> /\ unacked = <<>>
  /\ topic = NoDoc /\ renewed = FALSE /\ shown = {}
  /\ run = 0 /\ rounds = 0 /\ fails = 0 /\ drops = 0

-----------------------------------------------------------------------------
(* The web server.                                                         *)

\* A handler commits a change of the portfolio.
Commit ==
  /\ MovesLeft /\ db < MaxCommits
  /\ db' = db + 1
  /\ unannounced' = unannounced + 1
  /\ UNCHANGED <<pubRunning, pubPending, callVars, pubVars, linkVars, topicVars,
                 countVars>>

\* [mutant] The request for one more round is forgotten.
ForgetTheRequest ==
  /\ pubRunning
  /\ UNCHANGED <<pubRunning, pubPending, pc>>

\* The loop runs: one more round will do for this change too.
AskForAnotherRound ==
  /\ pubRunning
  /\ pubPending' = TRUE
  /\ UNCHANGED <<pubRunning, pc>>

StartLoop ==
  /\ ~pubRunning
  /\ pubRunning' = TRUE
  /\ pc' = [pc EXCEPT ![Loop] = "begin"]
  /\ UNCHANGED pubPending

publishAsync ==
  /\ unannounced > 0
  /\ unannounced' = unannounced - 1
  /\ AskForAnotherRound \/ StartLoop
  /\ UNCHANGED <<db, draft, asOf, failed, pubVars, linkVars, topicVars,
                 countVars>>

\* The end of a round of publishLoop, whatever PublishState returned.
NextRound ==
  /\ pubPending
  /\ pubPending' = FALSE
  /\ pc' = [pc EXCEPT ![Loop] = "begin"]
  /\ UNCHANGED pubRunning

LastRound ==
  /\ ~pubPending
  /\ pubRunning' = FALSE
  /\ pc' = [pc EXCEPT ![Loop] = "idle"]
  /\ UNCHANGED pubPending

publishLoop ==
  /\ pc[Loop] = "check"
  /\ NextRound \/ LastRound
  /\ UNCHANGED <<db, unannounced, draft, asOf, failed, pubVars, linkVars,
                 topicVars, countVars>>

\* The daily run comes round.
BackgroundCall(c) ==
  /\ pc[c] = "idle"
  /\ MovesLeft /\ rounds < MaxEach
  /\ rounds' = rounds + 1
  /\ pc' = [pc EXCEPT ![c] = "begin"]
  /\ UNCHANGED <<db, webVars, draft, asOf, failed, pubVars, linkVars, topicVars,
                 run, fails, drops>>

-----------------------------------------------------------------------------
(* Runner.PublishState, step by step.                                      *)

\* PublishState returns to its caller.  The wait for the acknowledgement (at
\* most ten seconds, after the lock is released) is part of the time the caller
\* takes before its next step.
Return(c) ==
  /\ pc' = [pc EXCEPT ![c] = IF c = Loop THEN "check" ELSE "idle"]
  /\ draft' = [draft EXCEPT ![c] = Idle]

\* The generation is taken before the first query.
NextGen(c) ==
  /\ pc[c] = "begin"
  /\ asOf' = Append(asOf, db)
  /\ draft' = [draft EXCEPT ![c] = NewDraft(Len(asOf) + 1)]
  /\ pc' = [pc EXCEPT ![c] = "read"]
  /\ UNCHANGED <<db, webVars, failed, pubVars, linkVars, topicVars, countVars>>

\* The first of the queries, and the last: other commits may fall between.
BuildFirstQuery(c) ==
  /\ pc[c] = "read"
  /\ draft' = [draft EXCEPT ![c].from = db]
  /\ pc' = [pc EXCEPT ![c] = "assemble"]
  /\ UNCHANGED <<db, webVars, asOf, failed, pubVars, linkVars, topicVars,
                 countVars>>

BuildLastQuery(c) ==
  /\ pc[c] = "assemble"
  /\ draft' = [draft EXCEPT ![c].upTo = db]
  /\ pc' = [pc EXCEPT ![c] = "hand"]
  /\ UNCHANGED <<db, webVars, asOf, failed, pubVars, linkVars, topicVars,
                 countVars>>

\* build, present or Marshal fails, or the timeout strikes: PublishState
\* returns the error, its caller logs it, nobody tries again.
BuildFails(c) ==
  /\ pc[c] \in {"read", "assemble"}
  /\ MovesLeft /\ fails < MaxEach
  /\ fails' = fails + 1
  /\ failed' = failed \cup {draft[c].gen}
  /\ Return(c)
  /\ UNCHANGED <<db, webVars, asOf, pubVars, linkVars, topicVars, run,
                 rounds, drops>>

-----------------------------------------------------------------------------
(* Publisher.PublishState: one critical section.                           *)

\* A younger generation is already known: the document is dropped.
TooOld(c) ==
  /\ draft[c].gen < lastGen
  /\ UNCHANGED <<pubVars, outbox>>

\* [mutant] The document is remembered, its generation is not.
RememberDocumentOnly(c) ==
  /\ draft[c].gen >= lastGen
  /\ last' = draft[c]
  /\ UNCHANGED lastGen

\* [mutant] Whoever arrives later wins.
RememberWhateverArrives(c) ==
  /\ last' = draft[c]
  /\ lastGen' = draft[c].gen

Remember(c) ==
  /\ draft[c].gen >= lastGen
  /\ last' = draft[c]
  /\ lastGen' = draft[c].gen

\* ErrNotConnected: OnConnect will push the document.
LeaveForOnConnect(c) ==
  /\ ~linkUp
  /\ UNCHANGED outbox

Enqueue(c) ==
  /\ linkUp
  /\ outbox' = Append(outbox, draft[c])

PublishState(c) ==
  /\ pc[c] = "hand"
  /\ TooOld(c) \/ (Remember(c) /\ (LeaveForOnConnect(c) \/ Enqueue(c)))
  /\ Return(c)
  /\ UNCHANGED <<db, webVars, asOf, failed, linkUp, connectDue, unacked,
                 topicVars,
                 countVars>>

-----------------------------------------------------------------------------
(* The MQTT client and the broker.                                         *)

\* [mutant] OnConnect pushes without asking whether there is a document.
OnConnectPushesAnything ==
  /\ connectDue > 0
  /\ connectDue' = connectDue - 1
  /\ outbox' = Append(outbox, last)
  /\ UNCHANGED <<db, webVars, callVars, pubVars, linkUp, unacked, topicVars,
                 countVars>>

\* [mutant] A new connection announces itself and pushes nothing.
OnConnectPushesNothing ==
  /\ connectDue > 0
  /\ connectDue' = connectDue - 1
  /\ UNCHANGED <<db, webVars, callVars, pubVars, linkUp, outbox, unacked,
                 topicVars,
                 countVars>>

\* OnConnect runs in a goroutine of its own, perhaps after PublishState has
\* already used the new connection.
OnConnect ==
  /\ connectDue > 0
  /\ connectDue' = connectDue - 1
  /\ outbox' = IF last = NoDoc THEN outbox ELSE Append(outbox, last)
  /\ UNCHANGED <<db, webVars, callVars, pubVars, linkUp, unacked, topicVars,
                 countVars>>

\* A new connection: the client goes on with what it holds, or starts afresh.
LinkComesUp ==
  /\ ~linkUp
  /\ linkUp' = TRUE
  /\ connectDue' = connectDue + 1
  /\ outbox' \in {unacked \o outbox, <<>>}
  /\ unacked' = <<>>
  /\ renewed' = TRUE
  /\ UNCHANGED <<db, webVars, callVars, pubVars, topic, shown, countVars>>

LinkDrops ==
  /\ linkUp
  /\ MovesLeft /\ drops < MaxEach
  /\ drops' = drops + 1
  /\ linkUp' = FALSE
  /\ UNCHANGED <<db, webVars, callVars, pubVars, connectDue, outbox, unacked,
                 topicVars, run, rounds, fails>>

\* The client sends in the order of its Publish calls, and keeps what it sent
\* until the broker acknowledges it.
Deliver ==
  /\ linkUp
  /\ outbox # <<>>
  /\ topic' = Head(outbox)
  /\ outbox' = Tail(outbox)
  /\ unacked' = Append(unacked, Head(outbox))
  /\ renewed' = FALSE
  /\ shown' = shown \cup {Head(outbox)}
  /\ UNCHANGED <<db, webVars, callVars, pubVars, linkUp, connectDue, countVars>>

Acknowledge ==
  /\ linkUp
  /\ unacked # <<>>
  /\ unacked' = Tail(unacked)
  /\ UNCHANGED <<db, webVars, callVars, pubVars, linkUp, connectDue, outbox,
                 topicVars, countVars>>

\* The service stops, cleanly (Close) or not, and starts again.  The database
\* and the retained topic stay; every other thing is gone.
Restart ==
  /\ MovesLeft /\ run < MaxEach
  /\ run' = run + 1
  /\ unannounced' = 0 /\ pubRunning' = FALSE /\ pubPending' = FALSE
  /\ pc' = AtStart
  /\ draft' = [c \in Callers |-> Idle]
  /\ asOf' = <<>> /\ failed' = {}
  /\ last' = NoDoc /\ lastGen' = 0
  /\ linkUp' = FALSE /\ connectDue' = 0 /\ outbox' = <<>> /\ unacked' = <<>>
  /\ renewed' = FALSE /\ shown' = {}
  /\ UNCHANGED <<db, topic, rounds, fails, drops>>

-----------------------------------------------------------------------------
Call(c) ==
  \/ NextGen(c)
  \/ BuildFirstQuery(c)
  \/ BuildLastQuery(c)
  \/ PublishState(c)

Next ==
  \/ Commit
  \/ publishAsync
  \/ publishLoop
  \/ \E c \in Background : BackgroundCall(c)
  \/ \E c \in Callers : Call(c) \/ BuildFails(c)
  \/ OnConnect
  \/ LinkComesUp
  \/ LinkDrops
  \/ Deliver
  \/ Acknowledge
  \/ Restart

\* A goroutine that can run does run; the client keeps trying to connect
\* (SetAutoReconnect, SetConnectRetry) and to send.  Nothing makes a change,
\* the daily run, a failure, a drop or a restart happen.
Fairness ==
  /\ WF_vars(publishAsync)
  /\ WF_vars(publishLoop)
  /\ \A c \in Callers : WF_vars(Call(c))
  /\ WF_vars(OnConnect)
  /\ WF_vars(LinkComesUp)
  /\ WF_vars(Deliver)
  /\ WF_vars(Acknowledge)

Spec == Init /\ [][Next]_vars
FairSpec == Spec /\ Fairness

-----------------------------------------------------------------------------
(* Properties.                                                             *)

PcValues == {"idle", "begin", "read", "assemble", "hand", "check"}

Counters ==
  /\ db \in Nat /\ unannounced \in Nat /\ lastGen \in Nat /\ connectDue \in Nat
  /\ run \in Nat /\ rounds \in Nat /\ fails \in Nat /\ drops \in Nat

Flags ==
  /\ pubRunning \in BOOLEAN /\ pubPending \in BOOLEAN
  /\ linkUp \in BOOLEAN /\ renewed \in BOOLEAN

CallTypes ==
  /\ pc \in [Callers -> PcValues]
  /\ draft \in [Callers -> Documents]
  /\ failed \subseteq Nat

Backlogs ==
  /\ asOf \in Seq(Nat)
  /\ outbox \in Seq(Documents)
  /\ unacked \in Seq(Documents)

SingleDocuments ==
  {last, topic} \subseteq Documents \cup {NoDoc} /\ shown \subseteq Documents

(* The type invariant: documents, generations and queues are what the      *)
(* actions of the server, the publisher and the client take them for; in   *)
(* particular "no document" is never queued for the broker.                *)
TypeOK == Counters /\ Flags /\ CallTypes /\ Backlogs /\ SingleDocuments

(* The topic describes the database as it is.                              *)
Current == topic # NoDoc /\ topic.from = db /\ topic.upTo = db

Active(c) == pc[c] \in {"read", "assemble", "hand"}

Fresh == {g \in DOMAIN asOf : asOf[g] = db}

(* Somebody set out to describe the latest commit, and each attempt failed. *)
LostToFailures == Fresh # {} /\ Fresh \subseteq failed

Quiescent ==
  /\ unannounced = 0
  /\ \A c \in Callers : pc[c] = "idle"
  /\ linkUp /\ connectDue = 0 /\ outbox = <<>>

(* When every goroutine has finished, the broker is reachable and nothing  *)
(* is under way to it, the topic shows the last committed change: neither  *)
(* the merging of calls in publishAsync, nor the generation check, nor a   *)
(* lost connection has dropped it.  The only excuse is that every attempt  *)
(* to describe that change failed, since nobody repeats a failed one.      *)
QuiescentIsCurrent == Quiescent => Current \/ LostToFailures

(* And it comes to that: once changes, failures and drops cease, the topic *)
(* shows the last change and stays so (publishAsync starts or prolongs the *)
(* loop, OnConnect pushes what was remembered while the broker was away).  *)
Settles == <>[](Current \/ LostToFailures)

(* What makes the order of generations inductive.  Generations in use are  *)
(* distinct and none of them is the one remembered last; documents under   *)
(* way are sound; what is to be sent, or sent again, is in the order of    *)
(* generations (an equal generation means the same document) and ends at   *)
(* the document remembered; what readers have not seen yet is younger than *)
(* all they have seen; and the topic is behind the queue, except while     *)
(* nothing has arrived over a new connection: what comes first may then be *)
(* a document already shown.                                               *)
Precedes(d, e) == d = e \/ d.gen < e.gen

SoundIn(d, lifetime, taken, version) ==
  /\ d.run = lifetime
  /\ d.gen \in DOMAIN taken
  /\ taken[d.gen] <= d.from /\ d.from <= d.upTo /\ d.upTo <= version

Sound(d) == SoundIn(d, run, asOf, db)

\* No generation is from the future.
GenerationsPast == \A g \in DOMAIN asOf : asOf[g] <= db

\* What caller c has so far is sound, and its generation is not out yet.
Claim(c) ==
  /\ draft[c].run = run
  /\ draft[c].gen \in DOMAIN asOf
  /\ draft[c].gen # lastGen
  /\ pc[c] = "assemble" =>
       asOf[draft[c].gen] <= draft[c].from /\ draft[c].from <= db
  /\ pc[c] = "hand" => Sound(draft[c])

GenerationsDistinct ==
  \A c, d \in Callers :
    Active(c) /\ Active(d) /\ c # d => draft[c].gen # draft[d].gen

GenerationsTaken ==
  /\ GenerationsPast
  /\ \A c \in Callers : Active(c) => Claim(c)
  /\ GenerationsDistinct

Remembered ==
  /\ lastGen \in 0..Len(asOf)
  /\ last # NoDoc => Sound(last) /\ last.gen = lastGen

InOrder(docs) == \A i, j \in DOMAIN docs : i < j => Precedes(docs[i], docs[j])

\* What the client holds, oldest first: sent and not acknowledged, then unsent.
Queued ==
  /\ \A i \in DOMAIN outbox : Sound(outbox[i]) /\ Precedes(outbox[i], last)
  /\ outbox # <<>> => last # NoDoc
  /\ InOrder(outbox) /\ InOrder(unacked)
  /\ \A i \in DOMAIN unacked, j \in DOMAIN outbox :
       Precedes(unacked[i], outbox[j])
  /\ \A i \in DOMAIN unacked : unacked[i] \in shown

\* What readers saw, against what is remembered and what is still to come.
Seen ==
  /\ \A d \in shown : Sound(d) /\ Precedes(d, last)
  /\ shown # {} => last # NoDoc /\ topic \in shown
  /\ \A d \in shown, i \in DOMAIN outbox :
       outbox[i] \in shown \/ d.gen < outbox[i].gen

\* The topic, which outlives the service, against the queue.
TopicBehind ==
  topic # NoDoc =>
    /\ topic.run <= run
    /\ topic.run = run => topic \in shown
    /\ topic.run = run /\ ~renewed =>
         \A i \in DOMAIN outbox : Precedes(topic, outbox[i])

Chain == Queued /\ Seen /\ TopicBehind

OrderInv == GenerationsTaken /\ Remembered /\ Chain

RT == INSTANCE RetainedTopic
        WITH NoDoc <- NoDoc, db <- db, run <- run, asOf <- asOf, topic <- topic,
             renewed <- renewed, shown <- shown

(* Within a lifetime of the service a document that readers have not seen  *)
(* is younger than all they have seen, and never older than the moment its *)
(* generation was taken (the comment of Publisher.NextGen).  The topic     *)
(* goes back only where the client must: the first message over a new      *)
(* connection may repeat a document already shown, and the ones after it   *)
(* follow in their order.  The detailed specification implements           *)
(* RetainedTopic.                                                          *)
KeepsItsPromise == RT!Spec

(* The comment claims it without that exception: "the order in the topic   *)
(* is the order of generations".  It does not hold: what the client        *)
(* delivered and the broker did not acknowledge comes again after a drop,  *)
(* older documents first, and the topic steps back until they are through. *)
TopicNeverStepsBack ==
  [][topic # NoDoc /\ topic'.run = topic.run => topic.gen <= topic'.gen]_topic

(* And it says more: "the order of publications is the order in which the  *)
(* state was read, not of who arrived faster".  A generation is taken      *)
(* before the first query, and the queries of two documents may run in the *)
(* other order.                                                            *)
PublishedInOrderOfReading ==
  [][topic # NoDoc /\ topic'.run = topic.run => topic.from <= topic'.from]_topic

=============================================================================
