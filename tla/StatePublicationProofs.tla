----------------------- MODULE StatePublicationProofs -----------------------
(***************************************************************************)
(* Proofs about StatePublication, for any number of callers, commits,      *)
(* drops, failures and restarts.                                           *)
(***************************************************************************)
EXTENDS StatePublication, SequenceTheorems, TLAPS

USE DEF webVars, callVars, pubVars, linkVars, topicVars, countVars

-----------------------------------------------------------------------------
(* The helpers of the actions keep their types.                            *)

LEMMA IdleIsADocument == Idle \in Documents
BY DEF Idle, Documents

(* PublishState returns: only the caller's own place and draft change.     *)
LEMMA AtStartType == AtStart \in [Callers -> PcValues]
BY DEF AtStart, PcValues

LEMMA NobodyDrafts == [c \in Callers |-> Idle] \in [Callers -> Documents]
BY IdleIsADocument

LEMMA NoBacklogs ==
  ASSUME asOf = <<>>, outbox = <<>>, unacked = <<>>
  PROVE  Backlogs
<1>1. asOf \in Seq(Nat)
  OBVIOUS
<1>2. outbox \in Seq(Documents)
  OBVIOUS
<1>3. unacked \in Seq(Documents)
  OBVIOUS
<1> QED
  BY ONLY <1>1, <1>2, <1>3 DEF Backlogs

(* PublishState returns: only the caller's own place and draft change.     *)
LEMMA ReturnType ==
  ASSUME CallTypes, NEW c \in Callers, Return(c)
  PROVE  pc' \in [Callers -> PcValues] /\ draft' \in [Callers -> Documents]
<1>1. pc' \in [Callers -> PcValues]
  BY DEF CallTypes, Return, PcValues
<1>2. draft' \in [Callers -> Documents]
  BY IdleIsADocument DEF CallTypes, Return
<1> QED
  BY <1>1, <1>2

-----------------------------------------------------------------------------
(* Type correctness: every variable keeps its type, whatever the callers   *)
(* of PublishState, the MQTT client and the restarts of the service do.    *)

LEMMA InitTypeOK == Init => TypeOK
<1> SUFFICES ASSUME Init
             PROVE  TypeOK
  OBVIOUS
<1>1. Counters
  BY DEF Init, Counters
<1>1a. Flags
  BY DEF Init, Flags
<1>2. CallTypes
  BY AtStartType, NobodyDrafts DEF Init, CallTypes
<1>3. Backlogs
  <2>1. asOf = <<>> /\ outbox = <<>> /\ unacked = <<>>
    BY DEF Init
  <2> QED
    BY ONLY <2>1, NoBacklogs, Zenon
<1>4. SingleDocuments
  BY DEF Init, SingleDocuments
<1> QED
  BY <1>1, <1>1a, <1>2, <1>3, <1>4 DEF TypeOK

LEMMA NextTypeOK == TypeOK /\ [Next]_vars => TypeOK'
<1> SUFFICES ASSUME TypeOK, [Next]_vars
             PROVE  TypeOK'
  OBVIOUS
<1>0. Counters /\ Flags /\ CallTypes /\ Backlogs /\ SingleDocuments
  BY DEF TypeOK
<1>1. Counters'
  <2> USE DEF Counters
  <2>1. ASSUME NEW c \in Callers, Call(c) \/ BuildFails(c)
        PROVE  Counters'
    BY <1>0, <2>1
    DEF Call, NextGen, BuildFirstQuery, BuildLastQuery, BuildFails,
        PublishState, TooOld, Remember, CallTypes, Documents
  <2>2. CASE Commit \/ publishAsync \/ publishLoop
    BY <1>0, <2>2
    DEF Commit, publishAsync, AskForAnotherRound, StartLoop, publishLoop,
        NextRound, LastRound
  <2>3. CASE \E c \in Background : BackgroundCall(c)
    BY <1>0, <2>3 DEF BackgroundCall
  <2>4. CASE OnConnect \/ LinkComesUp \/ LinkDrops \/ Deliver \/ Acknowledge
    BY SMTT(30), <1>0, <2>4 DEF OnConnect, LinkComesUp, LinkDrops, Deliver, Acknowledge
  <2>5. CASE Restart
    BY <1>0, <2>5 DEF Restart
  <2>6. CASE UNCHANGED vars
    BY <1>0, <2>6 DEF vars
  <2> QED
    BY <2>1, <2>2, <2>3, <2>4, <2>5, <2>6 DEF Next
<1>1a. Flags'
  <2>1. CASE publishAsync \/ publishLoop
    BY <1>0, <2>1
    DEF Flags, publishAsync, AskForAnotherRound, StartLoop, publishLoop,
        NextRound, LastRound
  <2>2. CASE LinkComesUp \/ LinkDrops \/ Deliver
    BY <1>0, <2>2 DEF Flags, LinkComesUp, LinkDrops, Deliver
  <2>3. CASE Restart
    BY <2>3, Zenon DEF Flags, Restart
  <2>4. CASE UNCHANGED <<pubRunning, pubPending, linkUp, renewed>>
    BY <1>0, <2>4 DEF Flags
  <2> QED
    BY <2>1, <2>2, <2>3, <2>4
    DEF Next, vars, Call, Commit, BackgroundCall, NextGen, BuildFirstQuery,
        BuildLastQuery, BuildFails, PublishState, OnConnect, Acknowledge
<1>2. CallTypes'
  <2> USE DEF CallTypes
  <2>1. ASSUME NEW c \in Callers, NextGen(c)
        PROVE  CallTypes'
    <3>1. NewDraft(Len(asOf) + 1) \in Documents
      BY <1>0 DEF NewDraft, Documents, Counters, Backlogs
    <3> QED
      BY <1>0, <2>1, <3>1 DEF NextGen, PcValues
  <2>2. ASSUME NEW c \in Callers, BuildFirstQuery(c) \/ BuildLastQuery(c)
        PROVE  CallTypes'
    <3>1. /\ [draft[c] EXCEPT !.from = db] \in Documents
          /\ [draft[c] EXCEPT !.upTo = db] \in Documents
      BY <1>0 DEF Documents, Counters
    <3> QED
      BY <1>0, <2>2, <3>1 DEF BuildFirstQuery, BuildLastQuery, PcValues
  <2>3. ASSUME NEW c \in Callers, BuildFails(c)
        PROVE  CallTypes'
    <3>1. draft[c].gen \in Nat
      BY <1>0 DEF Documents
    <3> QED
      BY <1>0, <2>3, <3>1, ReturnType DEF BuildFails
  <2>4. ASSUME NEW c \in Callers, PublishState(c)
        PROVE  CallTypes'
    BY <1>0, <2>4, ReturnType DEF PublishState
  <2>5. CASE publishAsync \/ publishLoop
    BY <1>0, <2>5
    DEF publishAsync, AskForAnotherRound, StartLoop, publishLoop, NextRound,
        LastRound, PcValues, Callers
  <2>6. ASSUME NEW c \in Background, BackgroundCall(c)
        PROVE  CallTypes'
    BY <1>0, <2>6 DEF BackgroundCall, PcValues, Callers
  <2>7. CASE Commit \/ OnConnect \/ LinkComesUp \/ LinkDrops \/ Deliver \/ Acknowledge
    BY <1>0, <2>7
    DEF Commit, OnConnect, LinkComesUp, LinkDrops, Deliver, Acknowledge
  <2>8. CASE Restart
    BY <1>0, <2>8, AtStartType, NobodyDrafts DEF Restart
  <2>9. CASE UNCHANGED vars
    BY <1>0, <2>9 DEF vars
  <2> QED
    BY <2>1, <2>2, <2>3, <2>4, <2>5, <2>6, <2>7, <2>8, <2>9 DEF Next, Call
<1>3. Backlogs'
  <2>1. ASSUME NEW c \in Callers, NextGen(c)
        PROVE  Backlogs'
    BY <1>0, <2>1 DEF NextGen, Backlogs, Counters
  <2>2. ASSUME NEW c \in Callers, PublishState(c)
        PROVE  Backlogs'
    <3>1. draft[c] \in Documents
      BY <1>0 DEF CallTypes
    <3>2. outbox' \in {outbox, Append(outbox, draft[c])}
      BY <2>2 DEF PublishState, TooOld, LeaveForOnConnect, Enqueue
    <3>3. outbox' \in Seq(Documents)
      BY <1>0, <3>1, <3>2 DEF Backlogs
    <3> QED
      BY <1>0, <2>2, <3>3 DEF PublishState, Backlogs
  <2>3. CASE OnConnect
    BY <1>0, <2>3 DEF OnConnect, Backlogs, SingleDocuments
  <2>4. CASE LinkComesUp
    <3>1. unacked \o outbox \in Seq(Documents)
      BY <1>0 DEF Backlogs
    <3>2. asOf' \in Seq(Nat)
      BY <1>0, <2>4 DEF LinkComesUp, Backlogs
    <3>3. outbox' \in Seq(Documents)
      <4>1. CASE outbox' = <<>>
        BY <4>1
      <4>2. CASE outbox' = unacked \o outbox
        BY <3>1, <4>2
      <4> QED
        BY <2>4, <4>1, <4>2 DEF LinkComesUp
    <3>4. unacked' \in Seq(Documents)
      BY <2>4 DEF LinkComesUp
    <3> QED
      BY <3>2, <3>3, <3>4 DEF Backlogs
  <2>5. CASE Deliver
    <3>1. Head(outbox) \in Documents /\ Tail(outbox) \in Seq(Documents)
      BY <1>0, <2>5, HeadTailProperties DEF Deliver, Backlogs
    <3>2. Append(unacked, Head(outbox)) \in Seq(Documents)
      BY <1>0, <3>1 DEF Backlogs
    <3> QED
      BY <1>0, <2>5, <3>1, <3>2 DEF Deliver, Backlogs
  <2>5a. CASE Acknowledge
    <3>1. Tail(unacked) \in Seq(Documents)
      BY <1>0, <2>5a, HeadTailProperties DEF Acknowledge, Backlogs
    <3> QED
      BY <1>0, <2>5a, <3>1 DEF Acknowledge, Backlogs
  <2>6. CASE Restart
    <3>1. asOf' = <<>> /\ outbox' = <<>> /\ unacked' = <<>>
      BY <2>6 DEF Restart
    <3>2. asOf' \in Seq(Nat)
      BY <3>1
    <3>3. outbox' \in Seq(Documents)
      BY <3>1
    <3>4. unacked' \in Seq(Documents)
      BY <3>1
    <3> QED
      BY <3>2, <3>3, <3>4 DEF Backlogs
  <2>7. CASE UNCHANGED <<asOf, outbox, unacked>>
    BY <1>0, <2>7 DEF Backlogs
  <2> QED
    BY <2>1, <2>2, <2>3, <2>4, <2>5, <2>5a, <2>6, <2>7
    DEF Next, vars, Call, Commit, publishAsync, publishLoop, BackgroundCall,
        BuildFirstQuery, BuildLastQuery, BuildFails, LinkDrops
<1>4. SingleDocuments'
  <2>1. ASSUME NEW c \in Callers, PublishState(c)
        PROVE  SingleDocuments'
    BY <1>0, <2>1
    DEF PublishState, TooOld, Remember, SingleDocuments, CallTypes
  <2>2. CASE Deliver
    <3>1. Head(outbox) \in Documents
      BY <1>0, <2>2, HeadTailProperties DEF Deliver, Backlogs
    <3> QED
      BY <1>0, <2>2, <3>1 DEF Deliver, SingleDocuments
  <2>3. CASE Restart
    BY <1>0, <2>3 DEF Restart, SingleDocuments
  <2>4. CASE UNCHANGED <<last, topic, shown>>
    BY <1>0, <2>4 DEF SingleDocuments
  <2> QED
    BY <2>1, <2>2, <2>3, <2>4
    DEF Next, vars, Call, Commit, publishAsync, publishLoop, BackgroundCall,
        NextGen, BuildFirstQuery, BuildLastQuery, BuildFails, OnConnect,
        LinkComesUp, LinkDrops, Acknowledge
<1> QED
  BY <1>1, <1>1a, <1>2, <1>3, <1>4 DEF TypeOK

(* Every reachable state of the publication pipeline is well typed.        *)
THEOREM PublicationTypeOK == Spec => []TypeOK
BY InitTypeOK, NextTypeOK, PTL DEF Spec

-----------------------------------------------------------------------------
(* The order of generations.                                               *)

LEMMA LatestGeneration ==
  ASSUME TypeOK, asOf' = Append(asOf, db)
  PROVE  /\ DOMAIN asOf = 1..Len(asOf) /\ Len(asOf) \in Nat
         /\ DOMAIN asOf' = 1..(Len(asOf) + 1)
         /\ Len(asOf') = Len(asOf) + 1
         /\ \A g \in DOMAIN asOf : asOf'[g] = asOf[g] /\ asOf[g] \in Nat
         /\ asOf'[Len(asOf) + 1] = db
BY DEF TypeOK, Backlogs, Counters

(* Commits and new generations leave a sound document sound.               *)
LEMMA SoundStays ==
  ASSUME TypeOK, run' = run, db' \in {db, db + 1},
         asOf' \in {asOf, Append(asOf, db)},
         NEW d \in Documents, SoundIn(d, run, asOf, db)
  PROVE  SoundIn(d, run', asOf', db')
<1>1. db' \in Nat /\ db <= db' /\ d.upTo \in Nat /\ d.upTo <= db'
  BY DEF TypeOK, Counters, SoundIn, Documents
<1>2. CASE asOf' = asOf
  BY <1>1, <1>2 DEF SoundIn
<1>3. CASE asOf' = Append(asOf, db)
  BY <1>1, <1>3, LatestGeneration DEF SoundIn
<1> QED
  BY <1>2, <1>3

LEMMA DraftType ==
  ASSUME TypeOK, NEW c \in Callers
  PROVE  /\ draft[c] \in Documents
         /\ draft[c].run \in Nat /\ draft[c].gen \in Nat
         /\ draft[c].from \in Nat /\ draft[c].upTo \in Nat
BY DEF TypeOK, CallTypes, Documents

(* A caller that goes on with the draft it has keeps its claim.            *)
LEMMA StillClaimed ==
  ASSUME TypeOK, run' = run, db' \in {db, db + 1},
         asOf' \in {asOf, Append(asOf, db)}, lastGen' = lastGen,
         NEW c \in Callers, Claim(c), pc'[c] = pc[c], draft'[c] = draft[c]
  PROVE  Claim(c)'
<1>1. pc[c] = "hand" => SoundIn(draft[c], run', asOf', db')
  BY SoundStays, DraftType DEF Claim, Sound
<1>2. db' \in Nat /\ db \in Nat /\ db <= db'
  BY DEF TypeOK, Counters
<1>3. draft[c].gen \in DOMAIN asOf =>
        draft[c].gen \in DOMAIN asOf' /\ asOf'[draft[c].gen] = asOf[draft[c].gen]
  BY LatestGeneration
<1> QED
  BY <1>1, <1>2, <1>3, DraftType DEF Claim, Sound

LEMMA StillPast ==
  ASSUME TypeOK, GenerationsPast, db' \in {db, db + 1},
         asOf' \in {asOf, Append(asOf, db)}
  PROVE  GenerationsPast'
<1>1. \A g \in DOMAIN asOf : asOf[g] \in Nat
  BY DEF TypeOK, Backlogs
<1>2. db \in Nat /\ db' \in Nat /\ db <= db'
  BY DEF TypeOK, Counters
<1>3. CASE asOf' = asOf
  BY <1>1, <1>2, <1>3 DEF GenerationsPast
<1>4. CASE asOf' = Append(asOf, db)
  BY <1>1, <1>2, <1>4, LatestGeneration DEF GenerationsPast
<1> QED
  BY <1>3, <1>4

(* Steps that leave every active caller at its place.                      *)
LEMMA TakenStays ==
  ASSUME TypeOK, GenerationsTaken, run' = run, db' \in {db, db + 1},
         UNCHANGED <<asOf, lastGen, draft>>,
         \A c \in Callers : Active(c)' => Active(c) /\ pc'[c] = pc[c]
  PROVE  GenerationsTaken'
<1>1. GenerationsPast'
  BY StillPast DEF GenerationsTaken
<1>2. ASSUME NEW c \in Callers, Active(c)'
      PROVE  Claim(c)'
  BY <1>2, StillClaimed DEF GenerationsTaken
<1>3. GenerationsDistinct'
  BY DEF GenerationsTaken, GenerationsDistinct
<1> QED
  BY <1>1, <1>2, <1>3 DEF GenerationsTaken

LEMMA NextGenerationsTaken ==
  ASSUME TypeOK, GenerationsTaken, Remembered, Next
  PROVE  GenerationsTaken'
<1> USE DEF Active
<1>0. GenerationsPast /\ GenerationsDistinct /\ pc \in [Callers -> PcValues]
  BY DEF GenerationsTaken, TypeOK, CallTypes
<1>1. CASE Commit \/ OnConnect \/ LinkComesUp \/ LinkDrops \/ Deliver \/ Acknowledge
  BY <1>1, TakenStays
  DEF Commit, OnConnect, LinkComesUp, LinkDrops, Deliver, Acknowledge
<1>2. CASE publishAsync \/ publishLoop
  BY <1>0, <1>2, TakenStays
  DEF publishAsync, AskForAnotherRound, StartLoop, publishLoop, NextRound,
      LastRound, Callers
<1>3. ASSUME NEW c \in Background, BackgroundCall(c)
      PROVE  GenerationsTaken'
  BY <1>0, <1>3, TakenStays DEF BackgroundCall, Callers
<1>4. ASSUME NEW c \in Callers, NextGen(c)
      PROVE  GenerationsTaken'
  <2>1. /\ asOf' = Append(asOf, db) /\ run' = run /\ db' = db
        /\ lastGen' = lastGen
        /\ draft'[c] = NewDraft(Len(asOf) + 1) /\ pc'[c] = "read"
        /\ \A d \in Callers \ {c} : draft'[d] = draft[d] /\ pc'[d] = pc[d]
    BY <1>0, <1>4 DEF NextGen, TypeOK, CallTypes
  <2>2. GenerationsPast'
    BY <1>0, <2>1, StillPast
  <2>3. Claim(c)'
    BY <2>1, LatestGeneration DEF Claim, NewDraft, Remembered, TypeOK, Counters
  <2>4. ASSUME NEW d \in Callers \ {c}, Active(d)'
        PROVE  Claim(d)'
    BY <2>1, <2>4, StillClaimed DEF GenerationsTaken
  <2>5. \A d \in Callers \ {c} : Active(d)' => draft'[d].gen # draft'[c].gen
    BY <2>1, LatestGeneration DEF GenerationsTaken, Claim, NewDraft
  <2>6. GenerationsDistinct'
    BY <1>0, <2>1, <2>5 DEF GenerationsDistinct
  <2> QED
    BY <2>2, <2>3, <2>4, <2>6 DEF GenerationsTaken
<1>5. ASSUME NEW c \in Callers, BuildFirstQuery(c) \/ BuildLastQuery(c)
      PROVE  GenerationsTaken'
  <2>1. /\ asOf' = asOf /\ run' = run /\ db' = db /\ lastGen' = lastGen
        /\ \A d \in Callers \ {c} : draft'[d] = draft[d] /\ pc'[d] = pc[d]
        /\ Active(c) /\ draft'[c].gen = draft[c].gen
    BY <1>0, <1>5 DEF BuildFirstQuery, BuildLastQuery, TypeOK, CallTypes, Documents
  <2>2. Claim(c)
    BY <2>1 DEF GenerationsTaken
  <2>3. asOf[draft[c].gen] <= db
    BY <1>0, <2>2 DEF GenerationsPast, Claim
  <2>4. ASSUME BuildFirstQuery(c)
        PROVE  Claim(c)'
    <3>1. pc'[c] = "assemble" /\ draft'[c].from = db /\ draft'[c].run = draft[c].run
      BY <1>0, <2>4 DEF BuildFirstQuery, TypeOK, CallTypes, Documents
    <3> QED
      BY <2>1, <2>2, <2>3, <3>1 DEF Claim, TypeOK, Counters
  <2>5. ASSUME BuildLastQuery(c)
        PROVE  Claim(c)'
    <3>1. /\ pc[c] = "assemble" /\ pc'[c] = "hand"
          /\ draft'[c].upTo = db /\ draft'[c].from = draft[c].from
          /\ draft'[c].run = draft[c].run
      BY <1>0, <2>5 DEF BuildLastQuery, TypeOK, CallTypes, Documents
    <3> QED
      BY <2>1, <2>2, <3>1 DEF Claim, Sound, SoundIn, TypeOK, Counters
  <2>6. ASSUME NEW d \in Callers \ {c}, Active(d)'
        PROVE  Claim(d)'
    BY <2>1, <2>6, StillClaimed DEF GenerationsTaken
  <2>7. GenerationsPast'
    BY <1>0, <2>1 DEF GenerationsPast
  <2>8. GenerationsDistinct'
    BY <1>0, <2>1 DEF GenerationsDistinct
  <2> QED
    BY <1>5, <2>4, <2>5, <2>6, <2>7, <2>8 DEF GenerationsTaken
<1>6. ASSUME NEW c \in Callers, BuildFails(c) \/ PublishState(c)
      PROVE  GenerationsTaken'
  <2>1. /\ asOf' = asOf /\ run' = run /\ db' = db
        /\ ~Active(c)'
        /\ \A d \in Callers \ {c} : draft'[d] = draft[d] /\ pc'[d] = pc[d]
        /\ Active(c)
    BY <1>0, <1>6 DEF BuildFails, PublishState, Return, TypeOK, CallTypes
  <2>2. lastGen' \in {lastGen, draft[c].gen}
    BY <1>6 DEF BuildFails, PublishState, TooOld, Remember
  <2>3. ASSUME NEW d \in Callers \ {c}, Active(d)'
        PROVE  Claim(d)'
    <3>1. Claim(d) /\ draft[d].gen # draft[c].gen
      BY <1>0, <2>1, <2>3 DEF GenerationsTaken, GenerationsDistinct
    <3>2. draft'[d] = draft[d] /\ pc'[d] = pc[d]
      BY <2>1
    <3> QED
      BY <2>1, <2>2, <3>1, <3>2 DEF Claim, Sound, SoundIn
  <2>4. GenerationsPast' /\ GenerationsDistinct'
    BY <1>0, <2>1 DEF GenerationsPast, GenerationsDistinct
  <2> QED
    BY <2>1, <2>3, <2>4 DEF GenerationsTaken
<1>7. CASE Restart
  <2>1. \A c \in Callers : ~Active(c)'
    BY <1>7 DEF Restart, AtStart
  <2>2. DOMAIN asOf' = {}
    BY <1>7 DEF Restart
  <2> QED
    BY <2>1, <2>2 DEF GenerationsTaken, GenerationsPast, GenerationsDistinct
<1> QED
  BY <1>1, <1>2, <1>3, <1>4, <1>5, <1>6, <1>7 DEF Next, Call

(* The document remembered is sound and carries the generation remembered. *)
LEMMA NextRemembered ==
  ASSUME TypeOK, GenerationsTaken, Remembered, Next
  PROVE  Remembered'
<1>1. ASSUME NEW c \in Callers, PublishState(c), Remember(c)
      PROVE  Remembered'
  <2>1. Claim(c) /\ pc[c] = "hand"
    BY <1>1 DEF PublishState, GenerationsTaken, Active
  <2>2. UNCHANGED <<run, asOf, db>> /\ last' = draft[c] /\ lastGen' = draft[c].gen
    BY <1>1 DEF PublishState, Remember
  <2>3. draft[c].gen \in 0..Len(asOf)
    BY <2>1, DraftType DEF Claim, TypeOK, Backlogs
  <2> QED
    BY <2>1, <2>2, <2>3 DEF Remembered, Claim, Sound, SoundIn
<1>2. CASE Restart
  <2>1. last' = NoDoc /\ lastGen' = 0 /\ Len(asOf') = 0
    BY <1>2 DEF Restart
  <2> QED
    BY <2>1 DEF Remembered
<1>3. CASE /\ UNCHANGED <<run, last, lastGen>> /\ db' \in {db, db + 1}
           /\ asOf' \in {asOf, Append(asOf, db)}
  <2>1. lastGen' \in 0..Len(asOf')
    BY <1>3, LatestGeneration DEF Remembered, TypeOK, Counters
  <2>2. last # NoDoc => SoundIn(last, run', asOf', db')
    BY <1>3, SoundStays DEF Remembered, Sound, TypeOK, SingleDocuments
  <2> QED
    BY <1>3, <2>1, <2>2 DEF Remembered, Sound
<1> QED
  BY <1>1, <1>2, <1>3
  DEF Next, Call, Commit, publishAsync, publishLoop, BackgroundCall, NextGen,
      BuildFirstQuery, BuildLastQuery, BuildFails, PublishState, TooOld,
      OnConnect, LinkComesUp, LinkDrops, Deliver, Acknowledge

-----------------------------------------------------------------------------
(* The chain from the topic through the outbox to the document remembered. *)

LEMMA OutboxType ==
  ASSUME TypeOK
  PROVE  /\ Len(outbox) \in Nat /\ DOMAIN outbox = 1..Len(outbox)
         /\ \A i \in DOMAIN outbox : outbox[i] \in Documents
BY DEF TypeOK, Backlogs

LEMMA PrecedesTransitive ==
  ASSUME NEW d \in Documents, NEW e \in Documents, NEW f \in Documents,
         Precedes(d, e), Precedes(e, f)
  PROVE  Precedes(d, f)
BY DEF Precedes, Documents

(* A document that follows all others may join the outbox and be last.     *)
LEMMA ChainGrows ==
  ASSUME TypeOK, Chain, UNCHANGED <<db, run, asOf, unacked, topicVars>>,
         NEW d \in Documents, Sound(d), last' = d,
         outbox' \in {outbox, Append(outbox, d)},
         last # NoDoc => Precedes(last, d)
  PROVE  Chain'
<1>0. d # NoDoc /\ (last # NoDoc => last \in Documents)
  BY NoDocAssumption DEF TypeOK, SingleDocuments
<1>1. \A i \in DOMAIN outbox : Precedes(outbox[i], d)
  BY <1>0, PrecedesTransitive, OutboxType DEF Chain, Queued
<1>2. \A e \in shown : Sound(e) /\ Precedes(e, d)
  <2> SUFFICES ASSUME NEW e \in shown
               PROVE  Sound(e) /\ Precedes(e, d)
    OBVIOUS
  <2>1. e \in Documents /\ Sound(e) /\ Precedes(e, last) /\ last # NoDoc
    BY DEF Chain, Seen, TypeOK, SingleDocuments
  <2> QED
    BY <1>0, <2>1, PrecedesTransitive
<1>3. CASE outbox' = outbox
  <2>1. Queued'
    BY <1>0, <1>1, <1>3 DEF Chain, Queued, Sound, InOrder
  <2>2. Seen'
    BY <1>0, <1>2, <1>3 DEF Chain, Seen, Sound
  <2>3. TopicBehind'
    BY <1>3 DEF Chain, TopicBehind
  <2> QED
    BY <2>1, <2>2, <2>3 DEF Chain
<1>4. CASE outbox' = Append(outbox, d)
  <2>1. /\ DOMAIN outbox' = 1..(Len(outbox) + 1)
        /\ \A i \in DOMAIN outbox : outbox'[i] = outbox[i]
        /\ outbox'[Len(outbox) + 1] = d
    BY <1>4, OutboxType DEF TypeOK, Backlogs
  <2>2. \A i \in DOMAIN outbox' : i \in DOMAIN outbox \/ i = Len(outbox) + 1
    BY <2>1, OutboxType
  <2>3. \A i \in DOMAIN outbox' :
          SoundIn(outbox'[i], run', asOf', db') /\ Precedes(outbox'[i], last')
    BY <1>1, <2>1, <2>2 DEF Chain, Queued, Sound, Precedes
  <2>4. InOrder(outbox)'
    <3>1. \A i, j \in DOMAIN outbox' : i < j => Precedes(outbox'[i], outbox'[j])
      BY <1>1, <2>1, <2>2, OutboxType DEF Chain, Queued, InOrder
    <3> QED
      BY <3>1 DEF InOrder
  <2>5. \A i \in DOMAIN unacked, j \in DOMAIN outbox' :
          Precedes(unacked[i], outbox'[j])
    BY <1>2, <2>1, <2>2 DEF Chain, Queued
  <2>6. Queued'
    BY <1>0, <2>3, <2>4, <2>5 DEF Chain, Queued, Sound, InOrder
  <2>7. \A e \in shown, i \in DOMAIN outbox' :
          outbox'[i] \in shown \/ e.gen < outbox'[i].gen
    BY <1>2, <2>1, <2>2 DEF Chain, Seen, Precedes
  <2>8. Seen'
    BY <1>0, <1>2, <2>7 DEF Chain, Seen, Sound
  <2>9. TopicBehind'
    BY <1>2, <2>1, <2>2 DEF Chain, TopicBehind
  <2> QED
    BY <2>6, <2>8, <2>9 DEF Chain
<1> QED
  BY <1>3, <1>4

(* A chain whose documents stay where they are.                            *)
LEMMA ChainStays ==
  ASSUME TypeOK, Chain, UNCHANGED <<run, unacked, outbox, last, topicVars>>,
         db' \in {db, db + 1}, asOf' \in {asOf, Append(asOf, db)}
  PROVE  Chain'
<1>1. \A i \in DOMAIN outbox : SoundIn(outbox[i], run', asOf', db')
  BY SoundStays, OutboxType DEF Chain, Queued, Sound
<1>2. \A d \in shown : SoundIn(d, run', asOf', db')
  BY SoundStays DEF Chain, Seen, Sound, TypeOK, SingleDocuments
<1> QED
  BY <1>1, <1>2 DEF Chain, Queued, Seen, TopicBehind, Sound, InOrder

(* After a drop the client goes on with what it holds, or starts afresh.   *)
LEMMA ChainAfterADrop ==
  ASSUME TypeOK, Chain, LinkComesUp
  PROVE  Chain'
<1>1. /\ UNCHANGED <<db, run, asOf, last, topic, shown>>
      /\ unacked' = <<>> /\ DOMAIN unacked' = {} /\ renewed' = TRUE
  BY DEF LinkComesUp
<1>2. InOrder(unacked)' /\ TopicBehind'
  BY <1>1 DEF InOrder, Chain, TopicBehind
<1>3. CASE outbox' = <<>>
  <2>1. DOMAIN outbox' = {}
    BY <1>3
  <2> QED
    BY <1>1, <1>2, <1>3, <2>1 DEF Chain, Queued, Seen, Sound, InOrder
<1>4. CASE outbox' = unacked \o outbox
  <2>0. /\ Len(unacked) \in Nat /\ DOMAIN unacked = 1..Len(unacked)
        /\ \A i \in DOMAIN unacked : unacked[i] \in Documents
    BY DEF TypeOK, Backlogs
  <2>1. /\ DOMAIN outbox' = 1..(Len(unacked) + Len(outbox))
        /\ \A i \in DOMAIN unacked : outbox'[i] = unacked[i]
        /\ \A i \in DOMAIN outbox' \ DOMAIN unacked :
             i - Len(unacked) \in DOMAIN outbox /\ outbox'[i] = outbox[i - Len(unacked)]
    BY <1>4, <2>0, OutboxType DEF TypeOK, Backlogs
  <2>2. \A i \in DOMAIN unacked :
          /\ unacked[i] \in shown /\ Sound(unacked[i]) /\ last # NoDoc
          /\ Precedes(unacked[i], last)
    BY DEF Chain, Queued, Seen
  <2>3. /\ outbox' # <<>> => last # NoDoc
        /\ \A i \in DOMAIN outbox' : Sound(outbox'[i]) /\ Precedes(outbox'[i], last)
    <3>1. \A i \in DOMAIN outbox' : Sound(outbox'[i]) /\ Precedes(outbox'[i], last)
      BY <2>1, <2>2 DEF Chain, Queued
    <3>2. outbox' # <<>> => unacked # <<>> \/ outbox # <<>>
      BY <1>4, ConcatEmptySeq DEF TypeOK, Backlogs
    <3>3. unacked # <<>> => 1 \in DOMAIN unacked
      BY <2>0, EmptySeq DEF TypeOK, Backlogs
    <3> QED
      BY <2>2, <3>1, <3>2, <3>3 DEF Chain, Queued
  <2>4. \A i, j \in DOMAIN outbox' : i < j => Precedes(outbox'[i], outbox'[j])
    <3> SUFFICES ASSUME NEW i \in DOMAIN outbox', NEW j \in DOMAIN outbox', i < j
                 PROVE  Precedes(outbox'[i], outbox'[j])
      OBVIOUS
    <3>0. /\ \A k, m \in DOMAIN unacked : k < m => Precedes(unacked[k], unacked[m])
          /\ \A k, m \in DOMAIN outbox : k < m => Precedes(outbox[k], outbox[m])
          /\ \A k \in DOMAIN unacked, m \in DOMAIN outbox :
               Precedes(unacked[k], outbox[m])
      BY DEF Chain, Queued, InOrder
    <3>1. CASE j \in DOMAIN unacked
      BY <2>0, <2>1, <3>0, <3>1, OutboxType
    <3>2. CASE j \notin DOMAIN unacked /\ i \in DOMAIN unacked
      BY <2>1, <3>0, <3>2
    <3>3. CASE i \notin DOMAIN unacked /\ j \notin DOMAIN unacked
      BY <2>0, <2>1, <3>0, <3>3, OutboxType
    <3> QED
      BY <3>1, <3>2, <3>3
  <2>5. \A d \in shown, i \in DOMAIN outbox' :
          outbox'[i] \in shown \/ d.gen < outbox'[i].gen
    BY <2>1, <2>2 DEF Chain, Seen
  <2>6. Queued'
    BY <1>1, <1>2, <2>3, <2>4 DEF Queued, Sound, InOrder
  <2>7. Seen'
    BY <1>1, <2>5 DEF Chain, Seen, Sound
  <2> QED
    BY <1>2, <2>6, <2>7 DEF Chain
<1> QED
  BY <1>3, <1>4 DEF LinkComesUp

(* The oldest document of the outbox becomes the retained one.             *)
LEMMA ChainDelivered ==
  ASSUME TypeOK, Chain, Deliver
  PROVE  Chain'
<1> DEFINE d == outbox[1]
<1>1. /\ UNCHANGED <<db, run, asOf, last>> /\ outbox # <<>> /\ renewed' = FALSE
      /\ topic' = Head(outbox) /\ outbox' = Tail(outbox)
      /\ unacked' = Append(unacked, Head(outbox)) /\ shown' = shown \cup {Head(outbox)}
  BY DEF Deliver
<1>2. Len(outbox) > 0 /\ 1 \in DOMAIN outbox /\ Head(outbox) = d
  BY <1>1, EmptySeq, OutboxType DEF TypeOK, Backlogs
<1>3. /\ DOMAIN outbox' = 1..(Len(outbox) - 1)
      /\ \A i \in DOMAIN outbox' : outbox'[i] = outbox[i + 1] /\ i + 1 \in DOMAIN outbox
  BY <1>1, <1>2, OutboxType DEF TypeOK, Backlogs
<1>4. /\ Len(unacked) \in Nat /\ DOMAIN unacked = 1..Len(unacked)
      /\ DOMAIN unacked' = 1..(Len(unacked) + 1)
      /\ \A i \in DOMAIN unacked : unacked'[i] = unacked[i]
      /\ unacked'[Len(unacked) + 1] = d
  BY <1>1, <1>2 DEF TypeOK, Backlogs
<1>5. \A i \in DOMAIN unacked' : i \in DOMAIN unacked \/ i = Len(unacked) + 1
  BY <1>4
<1>6. d \in Documents /\ Sound(d) /\ last # NoDoc /\ Precedes(d, last) /\ d.run = run
  BY <1>1, <1>2, OutboxType DEF Chain, Queued, Sound, SoundIn
<1>7. \A i \in DOMAIN outbox' : Precedes(d, outbox'[i])
  BY <1>2, <1>3, OutboxType DEF Chain, Queued, InOrder
<1>8. Queued'
  <2>1. \A i \in DOMAIN outbox' : Sound(outbox'[i]) /\ Precedes(outbox'[i], last)
    BY <1>3 DEF Chain, Queued
  <2>2. \A i, j \in DOMAIN outbox' : i < j => Precedes(outbox'[i], outbox'[j])
    BY <1>3, OutboxType DEF Chain, Queued, InOrder
  <2>3. \A i, j \in DOMAIN unacked' : i < j => Precedes(unacked'[i], unacked'[j])
    BY <1>2, <1>4, <1>5 DEF Chain, Queued, InOrder
  <2>4. \A i \in DOMAIN unacked', j \in DOMAIN outbox' :
          Precedes(unacked'[i], outbox'[j])
    BY <1>3, <1>4, <1>5, <1>7 DEF Chain, Queued
  <2>5. \A i \in DOMAIN unacked' : unacked'[i] \in shown'
    BY <1>1, <1>2, <1>4, <1>5 DEF Chain, Queued
  <2> QED
    BY <1>1, <1>6, <2>1, <2>2, <2>3, <2>4, <2>5 DEF Queued, Sound, InOrder
<1>9. Seen'
  <2>1. \A e \in shown' : Sound(e) /\ Precedes(e, last)
    BY <1>1, <1>2, <1>6 DEF Chain, Seen
  <2>2. \A e \in shown', i \in DOMAIN outbox' :
          outbox'[i] \in shown' \/ e.gen < outbox'[i].gen
    <3> SUFFICES ASSUME NEW e \in shown', NEW i \in DOMAIN outbox'
                 PROVE  outbox'[i] \in shown' \/ e.gen < outbox'[i].gen
      OBVIOUS
    <3>1. CASE e = d
      BY <1>1, <1>2, <1>7, <3>1 DEF Precedes
    <3>2. CASE e \in shown
      BY <1>1, <1>3, <3>2 DEF Chain, Seen
    <3> QED
      BY <1>1, <1>2, <3>1, <3>2
  <2> QED
    BY <1>1, <1>6, <2>1, <2>2 DEF Seen, Sound
<1>10. TopicBehind'
  <2>1. run \in Nat
    BY DEF TypeOK, Counters
  <2> QED
    BY <1>1, <1>2, <1>6, <1>7, <2>1 DEF TopicBehind
<1> QED
  BY <1>8, <1>9, <1>10 DEF Chain

(* The broker acknowledges the oldest message.                             *)
LEMMA ChainAcknowledged ==
  ASSUME TypeOK, Chain, Acknowledge
  PROVE  Chain'
<1>1. UNCHANGED <<db, run, asOf, last, outbox, topicVars>> /\ unacked' = Tail(unacked)
  BY DEF Acknowledge
<1>2. /\ DOMAIN unacked' = 1..(Len(unacked) - 1) /\ DOMAIN unacked = 1..Len(unacked)
      /\ \A i \in DOMAIN unacked' :
           unacked'[i] = unacked[i + 1] /\ i + 1 \in DOMAIN unacked
  <2>1. unacked \in Seq(Documents) /\ unacked # <<>>
    BY DEF Acknowledge, TypeOK, Backlogs
  <2> QED
    BY <1>1, <2>1, EmptySeq
<1>3. \A i, j \in DOMAIN unacked' : i < j => Precedes(unacked'[i], unacked'[j])
  BY <1>2 DEF Chain, Queued, InOrder
<1>4. \A i \in DOMAIN unacked' :
        /\ unacked'[i] \in shown
        /\ \A j \in DOMAIN outbox : Precedes(unacked'[i], outbox[j])
  BY <1>2 DEF Chain, Queued
<1>5. Queued'
  BY <1>1, <1>3, <1>4 DEF Chain, Queued, Sound, InOrder
<1> QED
  BY <1>1, <1>5 DEF Chain, Seen, TopicBehind, Sound

LEMMA NextChain ==
  ASSUME TypeOK, GenerationsTaken, Remembered, Chain, Next
  PROVE  Chain'
<1>1. ASSUME NEW c \in Callers, PublishState(c)
      PROVE  Chain'
  <2>1. UNCHANGED <<db, run, asOf, unacked, topicVars>>
    BY <1>1 DEF PublishState
  <2>2. CASE TooOld(c)
    BY <2>1, <2>2, ChainStays DEF TooOld
  <2>3. CASE Remember(c)
    <3>1. Claim(c) /\ pc[c] = "hand"
      BY <1>1 DEF PublishState, GenerationsTaken, Active
    <3>2. draft[c] \in Documents /\ Sound(draft[c]) /\ last' = draft[c]
      BY <2>3, <3>1, DraftType DEF Claim, Remember
    <3>3. outbox' \in {outbox, Append(outbox, draft[c])}
      BY <1>1 DEF PublishState, TooOld, LeaveForOnConnect, Enqueue
    <3>4. last # NoDoc => Precedes(last, draft[c])
      BY <2>3, <3>1, DraftType
      DEF Claim, Remember, Remembered, Precedes, TypeOK, Counters
    <3> QED
      BY <2>1, <3>2, <3>3, <3>4, ChainGrows
  <2> QED
    BY <1>1, <2>2, <2>3 DEF PublishState
<1>2. CASE OnConnect
  <2>1. UNCHANGED <<db, run, asOf, unacked, last, topicVars>>
    BY <1>2 DEF OnConnect
  <2>2. CASE last = NoDoc
    BY <1>2, <2>1, <2>2, ChainStays DEF OnConnect
  <2>3. CASE last # NoDoc
    <3>1. last \in Documents /\ Sound(last) /\ Precedes(last, last)
      BY <2>3 DEF TypeOK, SingleDocuments, Remembered, Precedes
    <3>2. outbox' = Append(outbox, last)
      BY <1>2, <2>3 DEF OnConnect
    <3> QED
      BY <2>1, <3>1, <3>2, ChainGrows
  <2> QED
    BY <2>2, <2>3
<1>3. CASE Restart
  <2>1. /\ topic' = topic /\ run' = run + 1 /\ outbox' = <<>> /\ unacked' = <<>>
        /\ shown' = {} /\ DOMAIN outbox' = {} /\ DOMAIN unacked' = {}
    BY <1>3 DEF Restart
  <2>2. topic # NoDoc => topic.run < run' /\ topic.run \in Nat
    BY <2>1 DEF Chain, TopicBehind, TypeOK, Counters, SingleDocuments, Documents
  <2>3. run' \in Nat
    BY <2>1 DEF TypeOK, Counters
  <2> QED
    BY <2>1, <2>2, <2>3 DEF Chain, Queued, Seen, TopicBehind, InOrder
<1>4. CASE /\ UNCHANGED <<run, unacked, outbox, last, topicVars>>
           /\ db' \in {db, db + 1} /\ asOf' \in {asOf, Append(asOf, db)}
  BY <1>4, ChainStays
<1> QED
  BY <1>1, <1>2, <1>3, <1>4, ChainAfterADrop, ChainDelivered, ChainAcknowledged
  DEF Next, Call, Commit, publishAsync, publishLoop, BackgroundCall, NextGen,
      BuildFirstQuery, BuildLastQuery, BuildFails, LinkDrops

-----------------------------------------------------------------------------
(* The inductive invariant, and the refinement it gives.                   *)

LEMMA InitOrderInv == Init => OrderInv
<1> SUFFICES ASSUME Init
             PROVE  OrderInv
  OBVIOUS
<1>1. \A c \in Callers : ~Active(c)
  BY DEF Init, AtStart, Active
<1>2. asOf = <<>> /\ DOMAIN asOf = {} /\ Len(asOf) = 0
  BY DEF Init
<1>3. outbox = <<>> /\ DOMAIN outbox = {} /\ unacked = <<>> /\ DOMAIN unacked = {}
  BY DEF Init
<1>4. last = NoDoc /\ lastGen = 0 /\ topic = NoDoc /\ shown = {}
  BY DEF Init
<1>5. GenerationsTaken
  BY <1>1, <1>2 DEF GenerationsTaken, GenerationsPast, GenerationsDistinct
<1>6. Remembered
  BY <1>2, <1>4 DEF Remembered
<1>7. Chain
  BY <1>3, <1>4 DEF Chain, Queued, Seen, TopicBehind, InOrder
<1> QED
  BY <1>5, <1>6, <1>7 DEF OrderInv

LEMMA NextOrderInv == TypeOK /\ OrderInv /\ [Next]_vars => OrderInv'
<1> SUFFICES ASSUME TypeOK, OrderInv, [Next]_vars
             PROVE  OrderInv'
  OBVIOUS
<1>1. CASE Next
  BY <1>1, NextGenerationsTaken, NextRemembered, NextChain DEF OrderInv
<1>2. CASE UNCHANGED vars
  BY <1>2
  DEF vars, OrderInv, GenerationsTaken, GenerationsPast, GenerationsDistinct,
      Claim, Active, Remembered, Chain, Queued, Seen, TopicBehind, InOrder, Sound
<1> QED
  BY <1>1, <1>2

(* Generations stay distinct, and the topic, what the client holds and the *)
(* document remembered stay in their order, through drops of the link and  *)
(* whatever the client has to send again after them.                       *)
THEOREM PublicationOrder == Spec => []OrderInv
BY InitTypeOK, NextTypeOK, InitOrderInv, NextOrderInv, PTL DEF Spec

(* A delivery shows something younger than all that was shown, or one of   *)
(* the documents shown: at its place, or first over a new connection.      *)
LEMMA DeliveryKeepsPromise ==
  ASSUME TypeOK, OrderInv, Deliver
  PROVE  RT!Publish
<1>1. /\ UNCHANGED <<db, run, asOf>> /\ renewed' = FALSE
      /\ shown' = shown \cup {topic'} /\ outbox # <<>> /\ topic' = Head(outbox)
  BY DEF Deliver
<1>2. topic' = outbox[1] /\ 1 \in DOMAIN outbox
  BY <1>1, OutboxType, EmptySeq DEF TypeOK, Backlogs
<1>3. topic' \in Documents /\ SoundIn(topic', run, asOf, db)
  BY <1>2, OutboxType DEF OrderInv, Chain, Queued, Sound
<1>4. CASE topic' \in shown
  <2>1. topic \in shown /\ topic \in Documents /\ topic # NoDoc /\ topic.run = run
    BY <1>4, NoDocAssumption
    DEF OrderInv, Chain, Seen, Sound, SoundIn, TypeOK, SingleDocuments
  <2>2. renewed \/ Precedes(topic, topic')
    BY <1>2, <2>1 DEF OrderInv, Chain, TopicBehind
  <2>3. renewed \/ topic.gen <= topic'.gen
    BY <1>3, <2>1, <2>2 DEF Precedes, Documents
  <2> QED
    BY <1>1, <1>4, <2>3 DEF RT!Publish, RT!Again
<1>5. CASE topic' \notin shown
  <2>1. \A s \in shown : s.gen < topic'.gen
    BY <1>2, <1>5 DEF OrderInv, Chain, Seen
  <2>2. /\ topic'.gen \in DOMAIN asOf /\ topic'.from \in Nat /\ topic'.upTo \in Nat
        /\ asOf[topic'.gen] <= topic'.from /\ topic'.from <= topic'.upTo
        /\ topic'.upTo <= db
    BY <1>3 DEF SoundIn, Documents
  <2>3. (\A g \in DOMAIN asOf : asOf[g] \in Nat) /\ db \in Nat
    BY DEF TypeOK, Backlogs, Counters
  <2>4. topic'.from \in asOf[topic'.gen]..db /\ topic'.upTo \in topic'.from..db
    BY <2>2, <2>3
  <2>5. topic' = [run |-> run, gen |-> topic'.gen, from |-> topic'.from,
                  upTo |-> topic'.upTo]
    BY <1>3 DEF SoundIn, Documents
  <2> QED
    BY <1>1, <2>1, <2>2, <2>4, <2>5 DEF RT!Publish, RT!New
<1> QED
  BY <1>4, <1>5

LEMMA StepKeepsPromise ==
  ASSUME TypeOK, OrderInv, [Next]_vars
  PROVE  [RT!Next]_(RT!vars)
<1> USE DEF RT!vars
<1>1. CASE Commit
  BY <1>1 DEF Commit, RT!Next, RT!Commit
<1>2. ASSUME NEW c \in Callers, NextGen(c)
      PROVE  RT!Next
  BY <1>2 DEF NextGen, RT!Next, RT!Begin
<1>3. CASE LinkComesUp
  BY <1>3 DEF LinkComesUp, RT!Next, RT!Connect
<1>4. CASE Deliver
  BY <1>4, DeliveryKeepsPromise DEF RT!Next
<1>5. CASE Restart
  BY <1>5 DEF Restart, RT!Next, RT!Restart
<1>6. CASE UNCHANGED <<db, run, asOf, topic, renewed, shown>>
  BY <1>6
<1> QED
  BY <1>1, <1>2, <1>3, <1>4, <1>5, <1>6
  DEF Next, vars, Call, publishAsync, publishLoop, BackgroundCall,
      BuildFirstQuery, BuildLastQuery, BuildFails, PublishState, OnConnect,
      LinkDrops, Acknowledge

(* The publication pipeline implements RetainedTopic for any number of     *)
(* callers, commits, failures, drops, messages sent again and restarts.    *)
THEOREM PublicationKeepsItsPromise == Spec => KeepsItsPromise
<1>1. Init => RT!Init
  BY DEF Init, RT!Init
<1>2. Spec => []TypeOK /\ []OrderInv
  BY PublicationTypeOK, PublicationOrder
<1>3. TypeOK /\ OrderInv /\ [Next]_vars => [RT!Next]_(RT!vars)
  BY StepKeepsPromise
<1> QED
  BY <1>1, <1>2, <1>3, PTL DEF Spec, KeepsItsPromise, RT!Spec

-----------------------------------------------------------------------------
(* Nothing is dropped on the way from a commit to the topic.  The          *)
(* invariant says where the latest commit is: announced or about to be, in *)
(* the hands of a caller, remembered, or on its way to the topic.          *)

\* Somebody will still take a generation.
Expected ==
  unannounced > 0 \/ pubPending \/ \E c \in Callers : pc[c] = "begin"

(* The loop runs while the flag says so, and is asked only then.           *)
LoopFlags ==
  /\ pubRunning => pc[Loop] # "idle"
  /\ pc[Loop] # "idle" => pubRunning
  /\ pubPending => pubRunning

LatestExpected == Fresh = {} => Expected

(* A younger generation knows at least as much.                            *)
GenerationsGrow == \A g, h \in DOMAIN asOf : g <= h => asOf[g] <= asOf[h]

(* A generation taken failed, was handed over, or is being worked on.      *)
InHand(g) == \E c \in Callers : Active(c) /\ draft[c].gen = g
GenerationsAccounted ==
  \A g \in DOMAIN asOf : g \in failed \/ g <= lastGen \/ InHand(g)

HandedOver == lastGen # 0 => last # NoDoc

(* What is remembered is the last thing sent to a broker that is there, or *)
(* OnConnect is going to send it.                                          *)
LastSent ==
  \/ outbox # <<>> /\ outbox[Len(outbox)] = last
  \/ outbox = <<>> /\ topic = last
OnItsWay == last # NoDoc /\ linkUp => connectDue > 0 \/ LastSent

SettleInv ==
  /\ LoopFlags /\ LatestExpected
  /\ GenerationsGrow /\ GenerationsAccounted /\ HandedOver
  /\ OnItsWay

(* Steps that take no generation, fail none and hand none over.            *)
LEMMA AccountsStay ==
  ASSUME GenerationsGrow, GenerationsAccounted, HandedOver,
         UNCHANGED <<asOf, failed, last, lastGen, draft>>,
         \A c \in Callers : Active(c) => Active(c)'
  PROVE  GenerationsGrow' /\ GenerationsAccounted' /\ HandedOver'
BY DEF GenerationsGrow, GenerationsAccounted, HandedOver, InHand

LEMMA NextLoopFlags ==
  ASSUME TypeOK, LoopFlags, Next
  PROVE  LoopFlags'
<1> USE DEF LoopFlags
<1>0. pc \in [Callers -> PcValues] /\ Loop \in Callers
  BY DEF TypeOK, CallTypes, Callers
<1>1. CASE publishAsync
  BY <1>0, <1>1 DEF publishAsync, AskForAnotherRound, StartLoop
<1>2. CASE publishLoop
  <2>1. CASE NextRound
    BY <1>0, <1>2, <2>1 DEF publishLoop, NextRound
  <2>2. CASE LastRound
    BY <1>0, <2>2 DEF LastRound
  <2> QED
    BY <1>2, <2>1, <2>2 DEF publishLoop
<1>3. ASSUME NEW c \in Callers, Call(c) \/ BuildFails(c)
      PROVE  LoopFlags'
  BY <1>0, <1>3
     DEF Call, NextGen, BuildFirstQuery, BuildLastQuery, PublishState, BuildFails, Return
<1>4. ASSUME NEW c \in Background, BackgroundCall(c)
      PROVE  LoopFlags'
  BY <1>0, <1>4, CallersAssumption DEF BackgroundCall
<1>5. CASE Restart
  BY <1>0, <1>5, CallersAssumption DEF Restart, AtStart
<1>6. CASE UNCHANGED <<webVars, pc>>
  BY <1>6
<1> QED
  BY <1>1, <1>2, <1>3, <1>4, <1>5, <1>6
     DEF Next, Commit, OnConnect, LinkComesUp, LinkDrops, Deliver, Acknowledge

LEMMA NextLatestExpected ==
  ASSUME TypeOK, LoopFlags, LatestExpected, Next
  PROVE  LatestExpected'
<1> USE DEF LatestExpected, Expected
<1>0. /\ pc \in [Callers -> PcValues] /\ Loop \in Callers /\ Startup \in Callers
      /\ unannounced \in Nat
  BY DEF TypeOK, CallTypes, Counters, Callers
<1>1. ASSUME UNCHANGED <<db, asOf>>
      PROVE  Fresh' = Fresh
  BY <1>1 DEF Fresh
<1>2. CASE Commit
  BY <1>0, <1>2 DEF Commit
<1>3. CASE publishAsync
  BY <1>0, <1>1, <1>3 DEF publishAsync, AskForAnotherRound, StartLoop
<1>4. CASE publishLoop
  <2>1. UNCHANGED <<db, asOf, unannounced>>
    BY <1>4 DEF publishLoop
  <2>2. CASE NextRound
    BY <1>0, <2>2 DEF NextRound
  <2>3. CASE LastRound
    BY <1>0, <1>1, <1>4, <2>1, <2>3 DEF LastRound, publishLoop
  <2> QED
    BY <1>4, <2>2, <2>3 DEF publishLoop
<1>5. ASSUME NEW c \in Callers, NextGen(c)
      PROVE  LatestExpected'
  BY <1>5, LatestGeneration DEF NextGen, Fresh
<1>6. ASSUME NEW c \in Callers,
             BuildFirstQuery(c) \/ BuildLastQuery(c) \/ PublishState(c) \/ BuildFails(c)
      PROVE  LatestExpected'
  BY <1>0, <1>1, <1>6 DEF BuildFirstQuery, BuildLastQuery, PublishState, BuildFails, Return
<1>7. ASSUME NEW c \in Background, BackgroundCall(c)
      PROVE  LatestExpected'
  BY <1>0, <1>1, <1>7 DEF BackgroundCall, Callers
<1>8. CASE Restart
  BY <1>0, <1>8 DEF Restart, AtStart
<1>9. CASE UNCHANGED <<db, asOf, webVars, pc>>
  BY <1>1, <1>9
<1> QED
  BY <1>2, <1>3, <1>4, <1>5, <1>6, <1>7, <1>8, <1>9
     DEF Next, Call, OnConnect, LinkComesUp, LinkDrops, Deliver, Acknowledge

LEMMA NextAccounts ==
  ASSUME TypeOK, GenerationsTaken, Remembered, LoopFlags,
         GenerationsGrow, GenerationsAccounted, HandedOver, Next
  PROVE  GenerationsGrow' /\ GenerationsAccounted' /\ HandedOver'
<1> USE DEF Active
<1>0. pc \in [Callers -> PcValues] /\ Loop \in Callers
  BY DEF TypeOK, CallTypes, Callers
<1>1. CASE publishAsync \/ publishLoop
  BY <1>0, <1>1, AccountsStay
     DEF LoopFlags, publishAsync, AskForAnotherRound, StartLoop, publishLoop, NextRound,
         LastRound
<1>2. ASSUME NEW c \in Background, BackgroundCall(c)
      PROVE  GenerationsGrow' /\ GenerationsAccounted' /\ HandedOver'
  BY <1>0, <1>2, AccountsStay DEF BackgroundCall
<1>3. ASSUME NEW c \in Callers, NextGen(c)
      PROVE  GenerationsGrow' /\ GenerationsAccounted' /\ HandedOver'
  <2>1. /\ asOf' = Append(asOf, db) /\ UNCHANGED <<failed, last, lastGen>>
        /\ draft'[c] = NewDraft(Len(asOf) + 1) /\ pc'[c] = "read" /\ pc[c] = "begin"
        /\ \A d \in Callers \ {c} : draft'[d] = draft[d] /\ pc'[d] = pc[d]
    BY <1>0, <1>3 DEF NextGen, TypeOK, CallTypes
  <2>2. GenerationsGrow'
    <3> SUFFICES ASSUME NEW g \in DOMAIN asOf', NEW h \in DOMAIN asOf', g <= h
                 PROVE  asOf'[g] <= asOf'[h]
      BY DEF GenerationsGrow
    <3>1. CASE h \in DOMAIN asOf
      BY <2>1, <3>1, LatestGeneration DEF GenerationsGrow
    <3>2. CASE h = Len(asOf) + 1
      <4>1. asOf'[h] = db /\ db \in Nat
        BY <2>1, <3>2, LatestGeneration DEF TypeOK, Counters
      <4>2. CASE g \in DOMAIN asOf
        BY <2>1, <4>1, <4>2, LatestGeneration DEF GenerationsTaken, GenerationsPast
      <4>3. CASE g = h
        BY <4>1, <4>3
      <4> QED
        BY <2>1, <3>2, <4>2, <4>3, LatestGeneration
    <3> QED
      BY <2>1, <3>1, <3>2, LatestGeneration
  <2>3. GenerationsAccounted'
    <3> SUFFICES ASSUME NEW g \in DOMAIN asOf'
                 PROVE  g \in failed' \/ g <= lastGen' \/ InHand(g)'
      BY DEF GenerationsAccounted
    <3>1. CASE g = Len(asOf) + 1
      BY <2>1, <3>1 DEF InHand, NewDraft
    <3>2. CASE g \in DOMAIN asOf
      BY <2>1, <3>2 DEF GenerationsAccounted, InHand
    <3> QED
      BY <2>1, <3>1, <3>2, LatestGeneration
  <2> QED
    BY <2>1, <2>2, <2>3 DEF HandedOver
<1>4. ASSUME NEW c \in Callers, BuildFirstQuery(c) \/ BuildLastQuery(c)
      PROVE  GenerationsGrow' /\ GenerationsAccounted' /\ HandedOver'
  <2>1. /\ UNCHANGED <<asOf, failed, last, lastGen>>
        /\ draft'[c].gen = draft[c].gen /\ Active(c)'
        /\ \A d \in Callers \ {c} : draft'[d] = draft[d] /\ pc'[d] = pc[d]
    BY <1>0, <1>4 DEF BuildFirstQuery, BuildLastQuery, TypeOK, CallTypes, Documents
  <2>2. \A g \in DOMAIN asOf : InHand(g) => InHand(g)'
    BY <2>1 DEF InHand
  <2> QED
    BY <2>1, <2>2 DEF GenerationsGrow, GenerationsAccounted, HandedOver
<1>5. ASSUME NEW c \in Callers, BuildFails(c)
      PROVE  GenerationsGrow' /\ GenerationsAccounted' /\ HandedOver'
  <2>1. /\ UNCHANGED <<asOf, last, lastGen>> /\ failed' = failed \cup {draft[c].gen}
        /\ \A d \in Callers \ {c} : draft'[d] = draft[d] /\ pc'[d] = pc[d]
    BY <1>0, <1>5 DEF BuildFails, Return, TypeOK, CallTypes
  <2>2. \A g \in DOMAIN asOf : InHand(g) => InHand(g)' \/ g = draft[c].gen
    BY <2>1 DEF InHand
  <2> QED
    BY <2>1, <2>2 DEF GenerationsGrow, GenerationsAccounted, HandedOver
<1>6. ASSUME NEW c \in Callers, PublishState(c)
      PROVE  GenerationsGrow' /\ GenerationsAccounted' /\ HandedOver'
  <2>1. /\ UNCHANGED <<asOf, failed>>
        /\ \A d \in Callers \ {c} : draft'[d] = draft[d] /\ pc'[d] = pc[d]
    BY <1>0, <1>6 DEF PublishState, Return, TypeOK, CallTypes
  <2>2. \A g \in DOMAIN asOf : InHand(g) => InHand(g)' \/ g = draft[c].gen
    BY <2>1 DEF InHand
  <2>3. /\ draft[c].gen \in Nat /\ draft[c] # NoDoc /\ lastGen \in Nat
        /\ \A g \in DOMAIN asOf : g \in Nat
    BY DraftType, NoDocAssumption DEF TypeOK, Counters, Backlogs
  <2>4. CASE draft[c].gen < lastGen /\ UNCHANGED <<last, lastGen>>
    BY <2>1, <2>2, <2>3, <2>4 DEF GenerationsGrow, GenerationsAccounted, HandedOver
  <2>5. CASE /\ draft[c].gen >= lastGen
             /\ last' = draft[c] /\ lastGen' = draft[c].gen
    BY <2>1, <2>2, <2>3, <2>5 DEF GenerationsGrow, GenerationsAccounted, HandedOver
  <2> QED
    BY <1>6, <2>4, <2>5 DEF PublishState, TooOld, Remember
<1>7. CASE Restart
  <2>1. DOMAIN asOf' = {} /\ lastGen' = 0
    BY <1>7 DEF Restart
  <2> QED
    BY <2>1 DEF GenerationsGrow, GenerationsAccounted, HandedOver
<1>8. CASE UNCHANGED <<asOf, failed, last, lastGen, draft, pc>>
  BY <1>8, AccountsStay
<1> QED
  BY <1>1, <1>2, <1>3, <1>4, <1>5, <1>6, <1>7, <1>8
     DEF Next, Call, Commit, OnConnect, LinkComesUp, LinkDrops, Deliver, Acknowledge

LEMMA NextOnItsWay ==
  ASSUME TypeOK, OnItsWay, Next
  PROVE  OnItsWay'
<1> USE DEF OnItsWay, LastSent
<1>0. connectDue \in Nat /\ outbox \in Seq(Documents) /\ Len(outbox) \in Nat
  BY DEF TypeOK, Counters, Backlogs
<1>1. ASSUME NEW d \in Documents, outbox' = Append(outbox, d)
      PROVE  outbox' # <<>> /\ outbox'[Len(outbox')] = d
  BY <1>0, <1>1
<1>2. ASSUME NEW c \in Callers, PublishState(c)
      PROVE  OnItsWay'
  <2>1. UNCHANGED <<linkUp, connectDue, topic>> /\ draft[c] \in Documents
    BY <1>2, DraftType DEF PublishState
  <2>2. CASE UNCHANGED <<last, outbox>>
    BY <2>1, <2>2
  <2>3. CASE ~linkUp
    BY <2>1, <2>3
  <2>4. CASE last' = draft[c] /\ outbox' = Append(outbox, draft[c])
    BY <1>1, <2>1, <2>4
  <2> QED
    BY <1>2, <2>2, <2>3, <2>4 DEF PublishState, TooOld, Remember, LeaveForOnConnect, Enqueue
<1>3. CASE OnConnect
  <2>1. UNCHANGED <<last, linkUp, topic>>
    BY <1>3 DEF OnConnect
  <2>2. CASE last = NoDoc
    BY <2>1, <2>2
  <2>3. CASE last # NoDoc
    <3>1. last \in Documents /\ outbox' = Append(outbox, last)
      BY <1>3, <2>3 DEF OnConnect, TypeOK, SingleDocuments
    <3> QED
      BY <1>1, <2>1, <3>1
  <2> QED
    BY <2>2, <2>3
<1>4. CASE LinkComesUp
  BY <1>0, <1>4 DEF LinkComesUp
<1>5. CASE LinkDrops
  BY <1>5 DEF LinkDrops
<1>6. CASE Deliver
  <2>1. /\ UNCHANGED <<last, linkUp, connectDue>> /\ outbox # <<>>
        /\ topic' = Head(outbox) /\ outbox' = Tail(outbox)
    BY <1>6 DEF Deliver
  <2>2. CASE Len(outbox) = 1
    <3>1. topic' = outbox[1] /\ outbox' = <<>>
      BY <1>0, <2>1, <2>2
    <3> QED
      BY <2>1, <2>2, <3>1
  <2>3. CASE Len(outbox) # 1
    <3>1. /\ outbox' # <<>>
          /\ outbox'[Len(outbox')] = outbox[Len(outbox)]
      <4>1. Len(outbox) \in Nat \ {0, 1}
        BY <1>0, <2>1, <2>3
      <4>2. /\ Len(outbox') = Len(outbox) - 1
            /\ \A i \in 1..Len(outbox) - 1 : outbox'[i] = outbox[i + 1]
        BY <1>0, <2>1
      <4> QED
        BY ONLY <4>1, <4>2
    <3> QED
      BY <2>1, <3>1
  <2> QED
    BY <2>2, <2>3
<1>7. CASE Restart
  BY <1>7 DEF Restart
<1>8. CASE UNCHANGED <<last, linkUp, connectDue, outbox, topic>>
  BY <1>8
<1> QED
  BY <1>2, <1>3, <1>4, <1>5, <1>6, <1>7, <1>8
     DEF Next, Call, Commit, publishAsync, publishLoop, BackgroundCall, NextGen,
         BuildFirstQuery, BuildLastQuery, BuildFails, Acknowledge

(* When all is quiet the topic shows the last commit, unless every attempt *)
(* to describe it failed: for any number of callers, commits, drops,       *)
(* messages sent again and restarts.                                       *)
THEOREM QuietTopicIsCurrent == Spec => []QuiescentIsCurrent
<1> DEFINE Inv == TypeOK /\ GenerationsTaken /\ Remembered /\ SettleInv
<1>1. Init => Inv
  <2> SUFFICES ASSUME Init
               PROVE  Inv
    OBVIOUS
  <2>1. TypeOK /\ GenerationsTaken /\ Remembered
    BY InitTypeOK, InitOrderInv DEF OrderInv
  <2>2. Loop \in Callers /\ Startup \in Callers /\ pc = AtStart
    BY DEF Init, Callers
  <2>3. LoopFlags /\ LatestExpected
    BY <2>2, CallersAssumption DEF Init, AtStart, LoopFlags, LatestExpected, Expected
  <2>4. DOMAIN asOf = {} /\ lastGen = 0 /\ last = NoDoc
    BY DEF Init
  <2>5. GenerationsGrow /\ GenerationsAccounted /\ HandedOver /\ OnItsWay
    BY <2>4 DEF GenerationsGrow, GenerationsAccounted, HandedOver, OnItsWay
  <2> QED
    BY <2>1, <2>3, <2>5 DEF SettleInv
<1>2. Inv /\ [Next]_vars => Inv'
  <2> SUFFICES ASSUME Inv, [Next]_vars
               PROVE  Inv'
    OBVIOUS
  <2>1. CASE Next
    BY <2>1, NextTypeOK, NextGenerationsTaken, NextRemembered, NextLoopFlags,
       NextLatestExpected, NextAccounts, NextOnItsWay DEF SettleInv
  <2>2. CASE UNCHANGED vars
    BY <2>2
       DEF vars, TypeOK, Counters, Flags, CallTypes, Backlogs, SingleDocuments,
           GenerationsTaken, GenerationsPast, GenerationsDistinct, Claim, Active,
           Remembered, Sound, SettleInv, LoopFlags, LatestExpected, Expected, Fresh,
           GenerationsGrow, GenerationsAccounted, InHand, HandedOver, OnItsWay, LastSent
  <2> QED
    BY <2>1, <2>2
<1>3. Inv => QuiescentIsCurrent
  <2> SUFFICES ASSUME Inv, Quiescent, ~LostToFailures
               PROVE  Current
    BY DEF QuiescentIsCurrent
  <2>1. /\ \A c \in Callers : pc[c] = "idle"
        /\ unannounced = 0 /\ linkUp /\ connectDue = 0 /\ outbox = <<>>
    BY DEF Quiescent
  <2>2. Loop \in Callers /\ ~pubPending
    BY <2>1 DEF SettleInv, LoopFlags, Callers
  <2>3. Fresh # {}
    BY <2>1, <2>2 DEF SettleInv, LatestExpected, Expected
  <2>4. PICK g \in Fresh : g \notin failed
    BY <2>3 DEF LostToFailures
  <2>5. g \in DOMAIN asOf /\ asOf[g] = db /\ g \in Nat \ {0}
    BY <2>4 DEF Fresh, TypeOK, Backlogs
  <2>6. g <= lastGen
    BY <2>1, <2>4, <2>5 DEF SettleInv, GenerationsAccounted, InHand, Active
  <2>7. lastGen \in DOMAIN asOf /\ lastGen # 0
    BY <2>5, <2>6 DEF Remembered, TypeOK, Backlogs, Counters
  <2>8. last # NoDoc /\ last \in Documents /\ Sound(last) /\ last.gen = lastGen
    BY <2>7 DEF SettleInv, HandedOver, Remembered, TypeOK, SingleDocuments
  <2>9. topic = last
    BY <2>1, <2>8 DEF SettleInv, OnItsWay, LastSent
  <2>10. asOf[lastGen] = db
    <3>1. db <= asOf[lastGen]
      BY <2>5, <2>6, <2>7 DEF SettleInv, GenerationsGrow
    <3>2. asOf[lastGen] <= db /\ asOf[lastGen] \in Nat /\ db \in Nat
      BY <2>7 DEF GenerationsTaken, GenerationsPast, TypeOK, Backlogs, Counters
    <3> QED
      BY <3>1, <3>2
  <2>11. db <= last.from /\ last.from <= last.upTo /\ last.upTo <= db
    BY <2>8, <2>10 DEF Sound, SoundIn
  <2>12. last.from \in Nat /\ last.upTo \in Nat /\ db \in Nat
    BY <2>8 DEF Documents, TypeOK, Counters
  <2> QED
    BY <2>8, <2>9, <2>11, <2>12 DEF Current
<1> QED
  BY <1>1, <1>2, <1>3, PTL DEF Spec
=============================================================================
