---------------------------- MODULE RetainedTopic ----------------------------
(***************************************************************************)
(* What one portfolio promises to the readers of its retained MQTT topic   *)
(* (Home Assistant), with nothing of how it is done.                       *)
(*                                                                         *)
(* A document belongs to a generation, handed out when somebody sets out   *)
(* to describe the portfolio.  Within one lifetime of the service a new    *)
(* document is younger than all that were shown, and never describes a     *)
(* database older than the one its generation was handed out in.  A        *)
(* document already shown may be shown again only if that is no step back, *)
(* or if it is the first to arrive over a new connection.                  *)
(* StatePublication implements this module.                                *)
(***************************************************************************)
EXTENDS Naturals, Sequences

CONSTANT NoDoc          \* the topic holds nothing yet

VARIABLES
  db,                   \* version of the database: commits so far
  run,                  \* lifetime of the service: restarts so far
  asOf,                 \* asOf[g]: version of the database generation g began in
  topic,                \* the retained document
  renewed,              \* nothing has arrived over this connection yet
  shown                 \* what the topic has held in this lifetime

vars == <<db, run, asOf, topic, renewed, shown>>

Init ==
  /\ db = 0
  /\ run = 0
  /\ asOf = <<>>
  /\ topic = NoDoc
  /\ renewed = FALSE
  /\ shown = {}

Commit ==
  /\ db' = db + 1
  /\ UNCHANGED <<run, asOf, topic, renewed, shown>>

Begin ==
  /\ asOf' = Append(asOf, db)
  /\ UNCHANGED <<db, run, topic, renewed, shown>>

\* A connection to the broker: what was under way over the last one may have
\* to be sent again.
Connect ==
  /\ renewed' = TRUE
  /\ UNCHANGED <<db, run, asOf, topic, shown>>

\* A document of generation g that readers have not seen.
New(d, g) ==
  /\ \A s \in shown : s.gen < g
  /\ \E from \in asOf[g]..db : \E upTo \in from..db :
       d = [run |-> run, gen |-> g, from |-> from, upTo |-> upTo]

\* A document that readers have seen.
Again(d) == d \in shown /\ (renewed \/ topic.gen <= d.gen)

Publish ==
  /\ (\E g \in DOMAIN asOf : New(topic', g)) \/ Again(topic')
  /\ renewed' = FALSE
  /\ shown' = shown \cup {topic'}
  /\ UNCHANGED <<db, run, asOf>>

Restart ==
  /\ run' = run + 1
  /\ asOf' = <<>>
  /\ renewed' = FALSE
  /\ shown' = {}
  /\ UNCHANGED <<db, topic>>

Next == Commit \/ Begin \/ Connect \/ Publish \/ Restart

Spec == Init /\ [][Next]_vars
=============================================================================
