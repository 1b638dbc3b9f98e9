------------------------------ MODULE Ble_proofs ------------------------------
(***************************************************************************)
(* Theorems about BleSession, for any sessions, commands and number of      *)
(* notifications, and about BleReassembly, for any messages.                *)
(***************************************************************************)
EXTENDS BleSession, BleReassembly, Queues_proofs, FiniteSetTheorems

-------------------------------------------------------------------------------
(* Types.                                                                    *)

SessionType ==
  [link : {"none", "open", "stray", "dropped", "closed"}, active : BOOLEAN, accepting : BOOLEAN,
   notify : {"off", "asked", "on"},
   teardown : {"none", "quiesce", "drain", "disconnect", "failed", "done"},
   fifo : Seq(Frames), inflight : Frames \cup {NoFrame},
   delivery : {"none", "created", "sink", "lost"}]
RunnerType ==
  [at : {"none", "loop", "retained", "dispose", "subscribe", "monitor", "teardown"},
   s : Sessions \cup {NoSession}, cancel : BOOLEAN]
BleStopType ==
  [at : {"none", "sessions", "runners", "failed", "done"}, s : Sessions \cup {NoSession}]
WriterType ==
  [at : {"idle", "lock", "write", "wait"}, s : Sessions \cup {NoSession},
   ack : {"no", "pending", "cancelled", "set"}, after : 0..FrameLimit]

BleShape ==
  /\ bleOwner \in Sessions \cup {NoSession}
  /\ bleSession \in [Sessions -> SessionType]
  /\ bleRunner \in RunnerType
  /\ bleStopEvent \in BOOLEAN
  /\ bleStopTask \in BleStopType
  /\ bleWriter \in [Writers -> WriterType]
  /\ bleSeen \in 0..FrameLimit /\ bleHanded \in 0..FrameLimit

LEMMA ShapeIsTypeOK == BleShape => BleTypeOK
<1> SUFFICES ASSUME BleShape PROVE BleTypeOK
  OBVIOUS
<1>1. ASSUME NEW s \in Sessions
      PROVE  /\ bleSession[s].link \in {"none", "open", "stray", "dropped", "closed"}
             /\ bleSession[s].active \in BOOLEAN /\ bleSession[s].accepting \in BOOLEAN
             /\ bleSession[s].notify \in {"off", "asked", "on"}
             /\ bleSession[s].teardown \in {"none", "quiesce", "drain", "disconnect", "failed", "done"}
             /\ bleSession[s].fifo \in Seq(Frames)
             /\ bleSession[s].inflight \in Frames \cup {NoFrame}
             /\ bleSession[s].delivery \in {"none", "created", "sink", "lost"}
  <2>1. bleSession[s] \in SessionType
    BY DEF BleShape
  <2> QED BY <2>1 DEF SessionType
<1> QED BY <1>1 DEF BleShape, BleTypeOK, RunnerType, BleStopType, WriterType

\* One session changed to another record of the type keeps the sessions' type.
LEMMA SessionUpdate ==
  ASSUME BleShape, NEW s \in Sessions, NEW new \in SessionType,
         bleSession' = [bleSession EXCEPT ![s] = new]
  PROVE  bleSession' \in [Sessions -> SessionType]
BY DEF BleShape

LEMMA NewSessionType ==
  /\ NewSession \in SessionType
  /\ NewSession.fifo = <<>> /\ NewSession.inflight = NoFrame /\ NewSession.delivery = "none"
  /\ NewSession.teardown = "none" /\ NewSession.link = "open"
<1> DEFINE opened == [UnusedSession EXCEPT !.link = "open"]
           active == [opened EXCEPT !.active = TRUE]
           accepting == [active EXCEPT !.accepting = TRUE]
           new == [accepting EXCEPT !.teardown = "none"]
<1>0. UnusedSession \in SessionType /\ UnusedSession.fifo = <<>>
      /\ UnusedSession.inflight = NoFrame /\ UnusedSession.delivery = "none"
  BY DEF UnusedSession, SessionType
<1>1. opened \in SessionType /\ opened.fifo = <<>> /\ opened.inflight = NoFrame
      /\ opened.delivery = "none" /\ opened.link = "open"
  BY <1>0 DEF SessionType
<1> HIDE DEF opened
<1>2. active \in SessionType /\ active.fifo = <<>> /\ active.inflight = NoFrame
      /\ active.delivery = "none" /\ active.link = "open"
  BY <1>1 DEF SessionType
<1> HIDE DEF active
<1>3. accepting \in SessionType /\ accepting.fifo = <<>> /\ accepting.inflight = NoFrame
      /\ accepting.delivery = "none" /\ accepting.link = "open"
  BY <1>2 DEF SessionType
<1> HIDE DEF accepting
<1>4. new \in SessionType /\ new.fifo = <<>> /\ new.inflight = NoFrame
      /\ new.delivery = "none" /\ new.link = "open" /\ new.teardown = "none"
  BY <1>3 DEF SessionType
<1>5. NewSession = new
  BY DEF NewSession, accepting, active, opened
<1> QED BY <1>4, <1>5

LEMMA BleShapeInit == BleInit => BleShape
<1> SUFFICES ASSUME BleInit PROVE BleShape
  OBVIOUS
<1>1. UnusedSession \in SessionType
  BY DEF UnusedSession, SessionType
<1>2. NoWriter \in WriterType /\ NoRunner \in RunnerType
  BY BleAssumption DEF NoWriter, WriterType, NoRunner, RunnerType
<1>3. bleStopTask \in BleStopType /\ bleSeen \in 0..FrameLimit /\ bleHanded \in 0..FrameLimit
  BY BleAssumption DEF BleInit, BleStopType
<1>4. bleSession \in [Sessions -> SessionType] /\ bleWriter \in [Writers -> WriterType]
  BY <1>1, <1>2 DEF BleInit
<1> QED BY <1>2, <1>3, <1>4 DEF BleInit, BleShape

LEMMA JoinType ==
  ASSUME BleShape, NEW s \in Sessions, JoinTeardown(s)
  PROVE  bleSession' \in [Sessions -> SessionType]
<1>1. bleSession[s] \in SessionType
  BY DEF BleShape
<1>2. bleSession[s].teardown \in {"none", "failed"} =>
        bleSession' = [bleSession EXCEPT ![s] = [@ EXCEPT !.teardown = "quiesce"]]
  BY DEF JoinTeardown, BleShape
<1>3. [bleSession[s] EXCEPT !.teardown = "quiesce"] \in SessionType
  BY <1>1 DEF SessionType
<1>4. bleSession[s].teardown \notin {"none", "failed"} => bleSession' = bleSession
  BY <1>1 DEF JoinTeardown, BleShape, SessionType
<1> QED BY <1>2, <1>3, <1>4, SessionUpdate DEF BleShape

LEMMA CancelType ==
  ASSUME BleShape, NEW writers, CancelAcks(writers)
  PROVE  bleWriter' \in [Writers -> WriterType]
<1>1. ASSUME NEW w \in Writers PROVE bleWriter'[w] \in WriterType
  <2>1. bleWriter[w] \in WriterType
    BY DEF BleShape
  <2>2. [bleWriter[w] EXCEPT !.ack = "cancelled"] \in WriterType
    BY <2>1 DEF WriterType
  <2> QED BY <2>1, <2>2 DEF CancelAcks
<1> QED BY <1>1 DEF CancelAcks

\* A runner that is at a session is at one of the sessions.
RunnerPlaced ==
  bleRunner.at \notin {"none", "loop"} => bleRunner.s \in Sessions

LEMMA ShapeRunner ==
  ASSUME BleShape, RunnerPlaced, RunnerSpawns \/ RunnerStep \/ RunnerCancelled
  PROVE  BleShape'
<1>0. /\ bleRunner \in RunnerType /\ NoRunner \in RunnerType /\ bleOwner \in Sessions \cup {NoSession}
      /\ bleSession \in [Sessions -> SessionType]
  BY DEF BleShape, NoRunner, RunnerType
<1>1. CASE RunnerSpawns \/ RunnerEnds \/ RetainedTornDown \/ RunnerTornDown \/ RunnerCancelled
  <2>1. bleRunner' \in RunnerType
    BY <1>0, <1>1 DEF RunnerSpawns, RunnerEnds, RetainedTornDown, RunnerTornDown, RunnerCancelled,
         RunnerType, NoRunner
  <2> QED BY <1>1, <2>1
          DEF RunnerSpawns, RunnerEnds, RetainedTornDown, RunnerTornDown, RunnerCancelled, BleShape
<1>2. CASE RunnerFindsRetained
  <2>1. bleRunner' \in RunnerType /\ bleOwner \in Sessions
    BY <1>0, <1>2 DEF RunnerFindsRetained, RunnerType
  <2>2. bleSession' \in [Sessions -> SessionType]
    BY <1>2, <2>1, JoinType DEF RunnerFindsRetained
  <2> QED BY <1>2, <2>1, <2>2 DEF RunnerFindsRetained, BleShape
<1>3. CASE RunnerDisposes \/ NotifyAsked \/ NotifyStarted
  <2>1. bleRunner.s \in Sessions
    BY <1>3 DEF RunnerDisposes, NotifyAsked, NotifyStarted, RunnerPlaced
  <2>2. bleSession' \in [Sessions -> SessionType]
    <3> DEFINE r == bleSession[bleRunner.s]
    <3>1. r \in SessionType
      BY <1>0, <2>1
    <3>2. /\ \A link \in {"closed", "stray"} : [r EXCEPT !.link = link] \in SessionType
          /\ [r EXCEPT !.notify = "asked"] \in SessionType
          /\ [r EXCEPT !.notify = "on"] \in SessionType
      BY <3>1 DEF SessionType
    <3>3. \/ \E link \in {"closed", "stray"} :
               bleSession' = [bleSession EXCEPT ![bleRunner.s] = [r EXCEPT !.link = link]]
          \/ bleSession' = [bleSession EXCEPT ![bleRunner.s] = [r EXCEPT !.notify = "asked"]]
          \/ bleSession' = [bleSession EXCEPT ![bleRunner.s] = [r EXCEPT !.notify = "on"]]
      BY <1>3 DEF RunnerDisposes, NotifyAsked, NotifyStarted
    <3> HIDE DEF r
    <3> QED BY <1>0, <2>1, <3>2, <3>3
  <2>3. bleRunner' \in RunnerType
    BY <1>0, <1>3 DEF RunnerDisposes, NotifyAsked, NotifyStarted, RunnerType
  <2> QED BY <1>3, <2>2, <2>3 DEF RunnerDisposes, NotifyAsked, NotifyStarted, BleShape
<1>4. CASE RunnerLeaves
  <2>1. bleRunner.s \in Sessions /\ bleRunner' \in RunnerType
    BY <1>0, <1>4 DEF RunnerLeaves, RunnerPlaced, RunnerType
  <2>2. bleSession' \in [Sessions -> SessionType]
    BY <1>4, <2>1, JoinType DEF RunnerLeaves
  <2> QED BY <1>4, <2>1, <2>2 DEF RunnerLeaves, BleShape
<1> QED BY <1>1, <1>2, <1>3, <1>4 DEF RunnerStep

LEMMA ShapeConnect ==
  ASSUME BleShape, NEW s \in Sessions, RunnerConnects(s)
  PROVE  BleShape'
<1>1. NewSession \in SessionType
  BY NewSessionType
<1>2. bleRunner' \in RunnerType
  BY DEF RunnerConnects, BleShape, RunnerType
<1>3. bleSession' \in [Sessions -> SessionType]
  BY <1>1, SessionUpdate DEF RunnerConnects
<1>4. bleOwner' \in Sessions \cup {NoSession}
  BY DEF RunnerConnects, BleShape
<1> QED BY <1>2, <1>3, <1>4 DEF RunnerConnects, BleShape

LEMMA ShapeSession ==
  ASSUME BleShape, NEW s \in Sessions,
         \/ TeardownStep(s) \/ LinkLost(s) \/ OnDisconnect(s) \/ DrainTakes(s)
         \/ DeliveryRuns(s) \/ SinkReturns(s) \/ DeliveryCancelled(s)
         \/ \E answer \in BOOLEAN : Notified(s, answer)
  PROVE  BleShape'
<1>0. /\ bleSession \in [Sessions -> SessionType] /\ bleSession[s] \in SessionType
      /\ bleSeen \in 0..FrameLimit /\ FrameLimit \in Nat
  BY BleAssumption DEF BleShape
<1>1. CASE TeardownQuiesces(s) \/ TeardownFails(s) \/ TeardownDrained(s)
  <2>1. bleSession' \in [Sessions -> SessionType]
    <3>1. CASE TeardownQuiesces(s)
      <4>1. PICK link \in {"open", "closed"} :
              bleSession' = [bleSession EXCEPT ![s].teardown = "drain", ![s].notify = "off",
                                               ![s].accepting = FALSE, ![s].link = link]
        BY <3>1 DEF TeardownQuiesces
      <4> QED BY <1>0, <4>1 DEF SessionType
    <3>2. CASE TeardownFails(s)
      BY <1>0, <3>2 DEF TeardownFails, SessionType
    <3>3. CASE TeardownDrained(s)
      BY <1>0, <3>3 DEF TeardownDrained, SessionType
    <3> QED BY <1>1, <3>1, <3>2, <3>3
  <2> QED BY <1>1, <2>1 DEF TeardownQuiesces, TeardownFails, TeardownDrained, BleShape
<1>2. CASE TeardownReleases(s)
  <2>1. bleSession' \in [Sessions -> SessionType]
    BY <1>0, <1>2 DEF TeardownReleases, SessionType
  <2>2. bleWriter' \in [Writers -> WriterType]
    BY <1>2, CancelType DEF TeardownReleases
  <2> QED BY <1>2, <2>1, <2>2 DEF TeardownReleases, BleShape
<1>3. CASE LinkLost(s) \/ OnDisconnect(s) \/ SinkReturns(s) \/ DeliveryCancelled(s)
  <2>1. bleSession' \in [Sessions -> SessionType]
    <3>1. CASE LinkLost(s)
      BY <1>0, <3>1 DEF LinkLost, SessionType
    <3>2. CASE OnDisconnect(s)
      BY <1>0, <3>2 DEF OnDisconnect, SessionType
    <3>3. CASE SinkReturns(s)
      BY <1>0, <3>3 DEF SinkReturns, SessionType
    <3>4. CASE DeliveryCancelled(s)
      BY <1>0, <3>4 DEF DeliveryCancelled, SessionType
    <3> QED BY <1>3, <3>1, <3>2, <3>3, <3>4
  <2> QED BY <1>3, <2>1 DEF LinkLost, OnDisconnect, SinkReturns, DeliveryCancelled, BleShape
<1>4. CASE DrainTakes(s)
  <2>1. CASE bleSession[s].delivery = "none" /\ bleSession[s].fifo # <<>>
    <3>1. /\ bleSession[s].fifo \in Seq(Frames)
          /\ Head(bleSession[s].fifo) \in Frames /\ Tail(bleSession[s].fifo) \in Seq(Frames)
      BY <1>0, <2>1 DEF SessionType
    <3>2. /\ bleSession' = [bleSession EXCEPT ![s].delivery = "created",
               ![s].inflight = Head(bleSession[s].fifo), ![s].fifo = Tail(@)]
          /\ bleHanded' = Head(bleSession[s].fifo).n
      BY <1>4, <2>1 DEF DrainTakes
    <3>3. bleSession' \in [Sessions -> SessionType]
      BY <1>0, <3>1, <3>2 DEF SessionType
    <3>4. bleHanded' \in 0..FrameLimit
      BY <1>0, <3>1, <3>2 DEF Frames
    <3> QED BY <1>4, <3>3, <3>4 DEF DrainTakes, BleShape
  <2>2. CASE bleSession[s].delivery = "lost"
    <3>1. bleSession' = [bleSession EXCEPT ![s].delivery = "created"] /\ UNCHANGED bleHanded
      BY <1>4, <2>2 DEF DrainTakes
    <3>2. bleSession' \in [Sessions -> SessionType]
      BY <1>0, <3>1 DEF SessionType
    <3> QED BY <1>4, <3>1, <3>2 DEF DrainTakes, BleShape
  <2> QED BY <1>4, <2>1, <2>2 DEF DrainTakes
<1>5. CASE DeliveryRuns(s)
  <2>1. bleSession' \in [Sessions -> SessionType]
    BY <1>0, <1>5 DEF DeliveryRuns, SessionType
  <2>2. ASSUME NEW w \in Writers PROVE bleWriter'[w] \in WriterType
    <3>1. bleWriter[w] \in WriterType /\ [bleWriter[w] EXCEPT !.ack = "set"] \in WriterType
      BY DEF BleShape, WriterType
    <3> QED BY <1>5, <3>1 DEF DeliveryRuns
  <2> QED BY <1>5, <2>1, <2>2 DEF DeliveryRuns, BleShape
<1>6. ASSUME NEW answer \in BOOLEAN, Notified(s, answer) PROVE BleShape'
  <2>1. bleSeen' \in 1..FrameLimit
    BY <1>0, <1>6 DEF Notified
  <2>2. [n |-> bleSeen', answer |-> answer] \in Frames
    BY <2>1 DEF Frames
  <2>3. Append(bleSession[s].fifo, [n |-> bleSeen', answer |-> answer]) \in Seq(Frames)
    BY <1>0, <2>2 DEF SessionType
  <2>4. bleSession' \in [Sessions -> SessionType]
    BY <1>0, <1>6, <2>3 DEF Notified, SessionType
  <2> QED BY <1>6, <2>1, <2>4 DEF Notified, BleShape
<1> QED BY <1>1, <1>2, <1>3, <1>4, <1>5, <1>6 DEF TeardownStep

LEMMA ShapeWriter ==
  ASSUME BleShape, NEW w \in Writers,
         (\E s \in Sessions : CommandBegins(w, s)) \/ CommandWrites(w) \/ CommandWritten(w)
           \/ CommandEnds(w)
  PROVE  BleShape'
<1>0. bleWriter[w] \in WriterType /\ NoWriter \in WriterType /\ bleWriter \in [Writers -> WriterType]
      /\ bleSeen \in 0..FrameLimit
  BY BleAssumption DEF BleShape, NoWriter, WriterType
<1>1. CASE \E s \in Sessions : CommandBegins(w, s)
  <2>1. PICK s \in Sessions : CommandBegins(w, s)
    BY <1>1
  <2>2. [NoWriter EXCEPT !.at = "lock", !.s = s] \in WriterType
    BY <1>0 DEF WriterType, NoWriter
  <2> QED BY <1>0, <2>1, <2>2 DEF CommandBegins, BleShape
<1>2. CASE CommandWrites(w)
  <2>1. [at |-> "write", s |-> bleWriter[w].s, ack |-> "pending", after |-> bleSeen] \in WriterType
    BY <1>0 DEF WriterType
  <2> QED BY <1>0, <1>2, <2>1 DEF CommandWrites, BleShape
<1>3. CASE CommandWritten(w)
  <2>1. [bleWriter[w] EXCEPT !.at = "wait"] \in WriterType
    BY <1>0 DEF WriterType
  <2> QED BY <1>0, <1>3, <2>1 DEF CommandWritten, BleShape
<1>4. CASE CommandEnds(w)
  BY <1>0, <1>4 DEF CommandEnds, BleShape
<1> QED BY <1>1, <1>2, <1>3, <1>4

LEMMA ShapeStop ==
  ASSUME BleShape, StopBegins \/ StopStep \/ ListenerStarts
  PROVE  BleShape'
<1>0. bleStopTask \in BleStopType /\ bleOwner \in Sessions \cup {NoSession}
  BY DEF BleShape
<1>1. CASE StopBegins
  <2>1. bleStopTask' \in BleStopType
    BY <1>0, <1>1 DEF StopBegins, BleStopType
  <2>2. bleWriter' \in [Writers -> WriterType]
    BY <1>1, CancelType DEF StopBegins
  <2>3. bleSession' \in [Sessions -> SessionType]
    BY <1>0, <1>1, JoinType DEF StopBegins, BleShape
  <2> QED BY <1>1, <2>1, <2>2, <2>3 DEF StopBegins, BleShape
<1>2. CASE SessionsStopped \/ RunnersStopped \/ ListenerStarts
  <2>1. bleStopTask' \in BleStopType
    BY <1>0, <1>2 DEF SessionsStopped, RunnersStopped, ListenerStarts, BleStopType
  <2> QED BY <1>2, <2>1 DEF SessionsStopped, RunnersStopped, ListenerStarts, BleShape
<1> QED BY <1>1, <1>2 DEF StopStep

-------------------------------------------------------------------------------
(* Ownership.  Only the owning session has notifications to deliver or a     *)
(* teardown to do; a link without an owner is the one being given up.        *)

Emptied(s) == bleSession[s].fifo = <<>> /\ bleSession[s].delivery = "none"

NotOwned ==
  \A s \in Sessions : s # bleOwner =>
    /\ Emptied(s) /\ bleSession[s].teardown \in {"none", "done"}
    /\ Connected(s) => bleRunner.at = "dispose" /\ bleRunner.s = s

Owned ==
  /\ bleOwner \in Sessions => bleSession[bleOwner].teardown # "done"
  /\ bleRunner.at = "dispose" => bleOwner = NoSession
  /\ bleRunner.at \in {"subscribe", "monitor"} =>
       bleRunner.s = bleOwner \/ bleSession[bleRunner.s].teardown = "done"

\* From the physical cut on nothing is accepted, and the link is released empty.
CutIsFinal ==
  \A s \in Sessions :
    /\ bleSession[s].teardown \in {"drain", "disconnect"} => ~bleSession[s].accepting
    /\ bleSession[s].teardown = "disconnect" => Emptied(s)
    /\ bleSession[s].inflight = NoFrame <=> bleSession[s].delivery = "none"

\* A stop takes the owner it found; there is no other after it.
StopInv ==
  /\ bleStopTask.at # "none" => bleStopEvent
  /\ bleStopTask.at = "sessions" => bleOwner \in {NoSession, bleStopTask.s}
  /\ bleStopTask.at \in {"runners", "done"} => bleOwner = NoSession
  /\ bleStopTask.at = "done" => bleRunner.at = "none"

OwnInv == RunnerPlaced /\ NotOwned /\ Owned /\ CutIsFinal /\ StopInv

LEMMA OwnInit == BleInit => OwnInv
BY BleAssumption DEF BleInit, OwnInv, RunnerPlaced, NotOwned, Owned, CutIsFinal, StopInv, Emptied,
   Connected, UnusedSession, NoRunner

\* What joining a teardown does to the sessions.
JoinedAt(s) ==
  \A t \in Sessions :
    /\ bleSession'[t].fifo = bleSession[t].fifo
    /\ bleSession'[t].inflight = bleSession[t].inflight
    /\ bleSession'[t].delivery = bleSession[t].delivery
    /\ bleSession'[t].accepting = bleSession[t].accepting
    /\ bleSession'[t].link = bleSession[t].link
    /\ bleSession'[t].teardown =
       IF t = s /\ bleSession[t].teardown \in {"none", "failed"}
         THEN "quiesce" ELSE bleSession[t].teardown

LEMMA JoinFacts ==
  ASSUME BleShape, NEW s \in Sessions, JoinTeardown(s)
  PROVE  JoinedAt(s)
BY DEF BleShape, JoinTeardown, JoinedAt, SessionType

LEMMA OwnRunner ==
  ASSUME BleShape, OwnInv, RunnerSpawns \/ RunnerStep \/ RunnerCancelled
  PROVE  OwnInv'
<1>0. /\ bleRunner \in RunnerType /\ bleOwner \in Sessions \cup {NoSession}
      /\ bleSession \in [Sessions -> SessionType] /\ NoSession \notin Sessions
      /\ bleStopTask \in BleStopType
  BY BleAssumption DEF BleShape
<1>1. CASE RunnerSpawns \/ RunnerEnds \/ RetainedTornDown \/ RunnerTornDown \/ RunnerCancelled
  <2>1. /\ UNCHANGED <<bleOwner, bleSession, bleStopEvent, bleStopTask>>
        /\ \/ bleRunner'.at \in {"none", "loop"} /\ bleRunner.at # "dispose"
           \/ bleRunner'.at = bleRunner.at /\ bleRunner'.s = bleRunner.s
        /\ bleRunner.at = "none" /\ bleStopEvent => bleRunner'.at = "none"
    <3>0. NoRunner.at = "none" /\ [NoRunner EXCEPT !.at = "loop"].at = "loop"
      BY DEF NoRunner
    <3>1. CASE RunnerSpawns \/ RunnerEnds
      BY <3>0, <3>1 DEF RunnerSpawns, RunnerEnds
    <3>2. CASE RetainedTornDown \/ RunnerTornDown
      <4>1. bleRunner' = NoRunner \/ bleRunner' = [bleRunner EXCEPT !.at = "loop", !.s = NoSession]
        BY <3>2 DEF RetainedTornDown, RunnerTornDown
      <4>2. bleRunner'.at \in {"none", "loop"}
        BY <1>0, <3>0, <4>1 DEF RunnerType
      <4> QED BY <3>2, <4>2 DEF RetainedTornDown, RunnerTornDown
    <3>3. CASE RunnerCancelled
      BY <1>0, <3>3 DEF RunnerCancelled, RunnerType
    <3> QED BY <1>1, <3>1, <3>2, <3>3
  <2> QED BY <2>1 DEF OwnInv, RunnerPlaced, NotOwned, Owned, CutIsFinal, StopInv, Emptied, Connected
<1>2. CASE RunnerFindsRetained \/ RunnerLeaves
  <2> DEFINE s == IF RunnerLeaves THEN bleRunner.s ELSE bleOwner
  <2>1. /\ UNCHANGED <<bleOwner, bleStopEvent, bleStopTask>>
        /\ bleRunner.at \in {"loop", "subscribe", "monitor"}
        /\ bleRunner'.at \in {"retained", "teardown"} /\ bleRunner'.s = s
        /\ s \in Sessions /\ JoinTeardown(s) /\ (s = bleOwner \/ bleSession[s].teardown = "done")
    BY <1>0, <1>2 DEF RunnerFindsRetained, RunnerLeaves, OwnInv, RunnerPlaced, Owned, RunnerType
  <2> HIDE DEF s
  <2>2. JoinedAt(s)
    BY <2>1, JoinFacts
  <2>3. NotOwned' /\ Owned' /\ RunnerPlaced'
    BY <1>0, <2>1, <2>2 DEF OwnInv, NotOwned, Owned, RunnerPlaced, Emptied, Connected, JoinedAt
  <2>4. CutIsFinal'
    BY <1>0, <2>1, <2>2 DEF OwnInv, CutIsFinal, Emptied, JoinedAt
  <2> QED BY <2>1, <2>3, <2>4 DEF OwnInv, StopInv
<1>3. CASE RunnerDisposes
  <2>1. bleRunner.at = "dispose" /\ bleRunner' = NoRunner /\ bleOwner = NoSession
        /\ UNCHANGED <<bleOwner, bleStopEvent, bleStopTask>>
    BY <1>3 DEF RunnerDisposes, OwnInv, Owned
  <2>2. \A t \in Sessions :
           /\ t # bleRunner.s => bleSession'[t] = bleSession[t]
           /\ bleSession'[t].fifo = bleSession[t].fifo
           /\ bleSession'[t].inflight = bleSession[t].inflight
           /\ bleSession'[t].delivery = bleSession[t].delivery
           /\ bleSession'[t].accepting = bleSession[t].accepting
           /\ bleSession'[t].teardown = bleSession[t].teardown
           /\ t = bleRunner.s => bleSession'[t].link \in {"closed", "stray"}
    <3>1. PICK link \in {"closed", "stray"} :
            bleSession' = [bleSession EXCEPT ![bleRunner.s].link = link]
      BY <1>3 DEF RunnerDisposes
    <3> QED BY <1>0, <3>1 DEF SessionType
  <2>3. NotOwned' /\ Owned' /\ RunnerPlaced'
    BY <1>0, <2>1, <2>2 DEF OwnInv, NotOwned, Owned, RunnerPlaced, Emptied, Connected, NoRunner
  <2>4. CutIsFinal'
    BY <1>0, <2>1, <2>2 DEF OwnInv, CutIsFinal, Emptied
  <2> QED BY <2>1, <2>3, <2>4 DEF OwnInv, StopInv, NoRunner
<1>4. CASE NotifyAsked \/ NotifyStarted
  <2>1. /\ bleRunner.at = "subscribe" /\ bleRunner'.at \in {"subscribe", "monitor"}
        /\ bleRunner'.s = bleRunner.s
        /\ UNCHANGED <<bleOwner, bleStopEvent, bleStopTask>>
    BY <1>0, <1>4 DEF NotifyAsked, NotifyStarted, RunnerType
  <2>2. \A t \in Sessions :
           /\ bleSession'[t].fifo = bleSession[t].fifo
           /\ bleSession'[t].inflight = bleSession[t].inflight
           /\ bleSession'[t].delivery = bleSession[t].delivery
           /\ bleSession'[t].accepting = bleSession[t].accepting
           /\ bleSession'[t].teardown = bleSession[t].teardown
           /\ bleSession'[t].link = bleSession[t].link
    <3>1. CASE NotifyAsked
      BY <1>0, <3>1 DEF NotifyAsked, SessionType
    <3>2. CASE NotifyStarted
      BY <1>0, <3>2 DEF NotifyStarted, SessionType
    <3> QED BY <1>4, <3>1, <3>2
  <2>3. NotOwned' /\ Owned' /\ RunnerPlaced'
    BY <1>0, <2>1, <2>2 DEF OwnInv, NotOwned, Owned, RunnerPlaced, Emptied, Connected
  <2>4. CutIsFinal'
    BY <1>0, <2>1, <2>2 DEF OwnInv, CutIsFinal, Emptied
  <2> QED BY <2>1, <2>3, <2>4 DEF OwnInv, StopInv
<1> QED BY <1>1, <1>2, <1>3, <1>4 DEF RunnerStep

LEMMA OwnConnect ==
  ASSUME BleShape, OwnInv, NEW s \in Sessions, RunnerConnects(s)
  PROVE  OwnInv'
<1>0. /\ bleRunner \in RunnerType /\ bleSession \in [Sessions -> SessionType]
      /\ NoSession \notin Sessions /\ bleStopTask \in BleStopType
  BY BleAssumption DEF BleShape
<1>1. /\ bleRunner.at = "loop" /\ bleOwner = NoSession /\ ~Connected(s) /\ s # bleRunner.s
      /\ s # bleOwner /\ UNCHANGED <<bleStopEvent, bleStopTask>>
      /\ \A t \in Sessions : bleSession'[t] = IF t = s THEN NewSession ELSE bleSession[t]
      /\ bleRunner'.s = s
      /\ \/ bleStopEvent /\ bleRunner'.at = "dispose" /\ bleOwner' = NoSession
         \/ ~bleStopEvent /\ bleRunner'.at = "subscribe" /\ bleOwner' = s
  BY <1>0 DEF RunnerConnects, FreeSessions, Connected, RunnerType
<1>2. NotOwned' /\ Owned' /\ RunnerPlaced'
  BY <1>0, <1>1, NewSessionType DEF OwnInv, NotOwned, Owned, RunnerPlaced, Emptied, Connected
<1>3. CutIsFinal'
  BY <1>0, <1>1, NewSessionType DEF OwnInv, CutIsFinal, Emptied
<1>4. StopInv'
  BY <1>0, <1>1 DEF OwnInv, StopInv, BleStopType
<1> QED BY <1>2, <1>3, <1>4 DEF OwnInv

LEMMA OwnTeardown ==
  ASSUME BleShape, OwnInv, NEW s \in Sessions, TeardownStep(s)
  PROVE  OwnInv'
<1>0. /\ bleRunner \in RunnerType /\ bleSession \in [Sessions -> SessionType]
      /\ NoSession \notin Sessions /\ bleStopTask \in BleStopType
  BY BleAssumption DEF BleShape
<1>1. s = bleOwner
  BY <1>0 DEF TeardownStep, TeardownQuiesces, TeardownFails, TeardownDrained, TeardownReleases,
     OwnInv, NotOwned
<1>2. CASE TeardownQuiesces(s) \/ TeardownFails(s) \/ TeardownDrained(s)
  <2>1. UNCHANGED <<bleOwner, bleRunner, bleStopEvent, bleStopTask>>
    BY <1>2 DEF TeardownQuiesces, TeardownFails, TeardownDrained
  <2>2. \A t \in Sessions :
           /\ t # s => bleSession'[t] = bleSession[t]
           /\ bleSession'[t].fifo = bleSession[t].fifo
           /\ bleSession'[t].inflight = bleSession[t].inflight
           /\ bleSession'[t].delivery = bleSession[t].delivery
    <3>1. CASE TeardownQuiesces(s)
      <4>1. PICK link \in {"open", "closed"} :
              bleSession' = [bleSession EXCEPT ![s].teardown = "drain", ![s].notify = "off",
                                               ![s].accepting = FALSE, ![s].link = link]
        BY <3>1 DEF TeardownQuiesces
      <4> QED BY <1>0, <4>1 DEF SessionType
    <3>2. CASE TeardownFails(s) \/ TeardownDrained(s)
      BY <1>0, <3>2 DEF TeardownFails, TeardownDrained, SessionType
    <3> QED BY <1>2, <3>1, <3>2
  <2>3. /\ bleSession'[s].teardown \in {"drain", "failed", "disconnect"}
        /\ bleSession'[s].teardown \in {"drain", "disconnect"} => ~bleSession'[s].accepting
        /\ bleSession'[s].teardown = "disconnect" => Emptied(s)
    <3>1. CASE TeardownQuiesces(s)
      <4>1. PICK link \in {"open", "closed"} :
              bleSession' = [bleSession EXCEPT ![s].teardown = "drain", ![s].notify = "off",
                                               ![s].accepting = FALSE, ![s].link = link]
        BY <3>1 DEF TeardownQuiesces
      <4> QED BY <1>0, <4>1 DEF SessionType
    <3>2. CASE TeardownFails(s)
      BY <1>0, <3>2 DEF TeardownFails, SessionType
    <3>3. CASE TeardownDrained(s)
      <4>1. /\ bleSession'[s].teardown = "disconnect"
            /\ bleSession'[s].accepting = bleSession[s].accepting
            /\ bleSession[s].teardown = "drain" /\ bleSession[s].fifo = <<>>
            /\ bleSession[s].inflight = NoFrame
        BY <1>0, <3>3 DEF TeardownDrained, SessionType
      <4> QED BY <4>1 DEF OwnInv, CutIsFinal, Emptied
    <3> QED BY <1>2, <3>1, <3>2, <3>3
  <2>4. NotOwned' /\ Owned' /\ RunnerPlaced'
    BY <1>0, <1>1, <2>1, <2>2, <2>3 DEF OwnInv, NotOwned, Owned, RunnerPlaced, Emptied, Connected
  <2>5. CutIsFinal'
    BY <1>0, <2>2, <2>3 DEF OwnInv, CutIsFinal, Emptied
  <2> QED BY <2>1, <2>4, <2>5 DEF OwnInv, StopInv
<1>3. CASE TeardownReleases(s)
  <2>1. /\ UNCHANGED <<bleRunner, bleStopEvent, bleStopTask>> /\ bleOwner' = NoSession
        /\ bleSession[s].teardown = "disconnect"
    BY <1>1, <1>3 DEF TeardownReleases
  <2>2. \A t \in Sessions :
           /\ t # s => bleSession'[t] = bleSession[t]
           /\ bleSession'[t].fifo = bleSession[t].fifo
           /\ bleSession'[t].inflight = bleSession[t].inflight
           /\ bleSession'[t].delivery = bleSession[t].delivery
           /\ t = s => bleSession'[t].link = "closed" /\ bleSession'[t].teardown = "done"
    BY <1>0, <1>3 DEF TeardownReleases, SessionType
  <2>3. NotOwned' /\ Owned' /\ RunnerPlaced'
    BY <1>0, <1>1, <2>1, <2>2 DEF OwnInv, NotOwned, Owned, CutIsFinal, RunnerPlaced, Emptied,
       Connected, RunnerType
  <2>4. CutIsFinal'
    BY <1>0, <2>1, <2>2 DEF OwnInv, CutIsFinal, Emptied
  <2>5. StopInv'
    BY <2>1 DEF OwnInv, StopInv
  <2> QED BY <2>3, <2>4, <2>5 DEF OwnInv
<1> QED BY <1>2, <1>3 DEF TeardownStep

LEMMA OwnLink ==
  ASSUME BleShape, OwnInv, NEW s \in Sessions, LinkLost(s) \/ OnDisconnect(s)
  PROVE  OwnInv'
<1>0. /\ bleSession \in [Sessions -> SessionType]
      /\ UNCHANGED <<bleOwner, bleRunner, bleStopEvent, bleStopTask>>
  BY DEF BleShape, LinkLost, OnDisconnect
<1>1. \A t \in Sessions :
         /\ t # s => bleSession'[t] = bleSession[t]
         /\ bleSession'[t].fifo = bleSession[t].fifo
         /\ bleSession'[t].inflight = bleSession[t].inflight
         /\ bleSession'[t].delivery = bleSession[t].delivery
         /\ bleSession'[t].teardown = bleSession[t].teardown
         /\ bleSession'[t].accepting => bleSession[t].accepting
         /\ t = s => bleSession'[t].link # "open"
  <2>1. CASE LinkLost(s)
    BY <1>0, <2>1 DEF LinkLost, SessionType
  <2>2. CASE OnDisconnect(s)
    BY <1>0, <2>2 DEF OnDisconnect, SessionType
  <2> QED BY <2>1, <2>2
<1>2. NotOwned' /\ Owned' /\ RunnerPlaced'
  BY <1>0, <1>1 DEF OwnInv, NotOwned, Owned, RunnerPlaced, Emptied, Connected
<1>3. CutIsFinal'
  BY <1>0, <1>1 DEF OwnInv, CutIsFinal, Emptied
<1> QED BY <1>0, <1>2, <1>3 DEF OwnInv, StopInv

LEMMA OwnDelivery ==
  ASSUME BleShape, OwnInv, NEW s \in Sessions,
         \/ DrainTakes(s) \/ DeliveryRuns(s) \/ SinkReturns(s) \/ DeliveryCancelled(s)
         \/ \E answer \in BOOLEAN : Notified(s, answer)
  PROVE  OwnInv'
<1>0. /\ bleSession \in [Sessions -> SessionType] /\ bleSession[s] \in SessionType
      /\ UNCHANGED <<bleOwner, bleRunner, bleStopEvent, bleStopTask>>
  BY DEF BleShape, DrainTakes, DeliveryRuns, SinkReturns, DeliveryCancelled, Notified
<1>1. /\ s = bleOwner /\ bleSession[s].teardown # "disconnect"
      /\ bleSession[s].inflight = NoFrame <=> bleSession[s].delivery = "none"
  BY <1>0 DEF DrainTakes, DeliveryRuns, SinkReturns, DeliveryCancelled, Notified, OwnInv, NotOwned,
     CutIsFinal, Emptied
<1>2. \A t \in Sessions :
         /\ t # s => bleSession'[t] = bleSession[t]
         /\ bleSession'[t].link = bleSession[t].link
         /\ bleSession'[t].teardown = bleSession[t].teardown
         /\ bleSession'[t].accepting = bleSession[t].accepting
         /\ t = s => (bleSession'[t].inflight = NoFrame <=> bleSession'[t].delivery = "none")
  <2>1. CASE DrainTakes(s)
    <3>1. CASE bleSession[s].delivery = "none" /\ bleSession[s].fifo # <<>>
      <4>1. bleSession' = [bleSession EXCEPT ![s].delivery = "created",
                 ![s].inflight = Head(bleSession[s].fifo), ![s].fifo = Tail(@)]
        BY <2>1, <3>1 DEF DrainTakes
      <4>2. Head(bleSession[s].fifo) \in Frames
        BY <1>0, <3>1 DEF SessionType
      <4>3. Head(bleSession[s].fifo) # NoFrame
        BY <4>2, BleAssumption DEF Frames, NoFrame
      <4> QED BY <1>0, <4>1, <4>3 DEF SessionType
    <3>2. CASE bleSession[s].delivery = "lost"
      <4>1. bleSession' = [bleSession EXCEPT ![s].delivery = "created"]
        BY <2>1, <3>2 DEF DrainTakes
      <4> QED BY <1>0, <1>1, <3>2, <4>1 DEF SessionType
    <3> QED BY <2>1, <3>1, <3>2 DEF DrainTakes
  <2>2. CASE DeliveryRuns(s)
    BY <1>0, <1>1, <2>2 DEF DeliveryRuns, SessionType
  <2>3. CASE SinkReturns(s)
    BY <1>0, <1>1, <2>3 DEF SinkReturns, SessionType
  <2>4. CASE DeliveryCancelled(s)
    BY <1>0, <1>1, <2>4 DEF DeliveryCancelled, SessionType
  <2>5. ASSUME NEW answer \in BOOLEAN, Notified(s, answer)
        PROVE  \A t \in Sessions :
                 /\ t # s => bleSession'[t] = bleSession[t]
                 /\ bleSession'[t].link = bleSession[t].link
                 /\ bleSession'[t].teardown = bleSession[t].teardown
                 /\ bleSession'[t].accepting = bleSession[t].accepting
                 /\ bleSession'[t].inflight = bleSession[t].inflight
                 /\ bleSession'[t].delivery = bleSession[t].delivery
    <3>1. bleSession' = [bleSession EXCEPT ![s].fifo =
                               Append(@, [n |-> bleSeen', answer |-> answer])]
      BY <2>5 DEF Notified
    <3> QED BY <1>0, <3>1 DEF SessionType
  <2>6. CASE \E answer \in BOOLEAN : Notified(s, answer)
    BY <1>0, <1>1, <2>5, <2>6
  <2> QED BY <2>1, <2>2, <2>3, <2>4, <2>6
<1>3. NotOwned' /\ Owned' /\ RunnerPlaced'
  BY <1>0, <1>1, <1>2 DEF OwnInv, NotOwned, Owned, RunnerPlaced, Emptied, Connected
<1>4. CutIsFinal'
  BY <1>0, <1>1, <1>2 DEF OwnInv, CutIsFinal, Emptied
<1> QED BY <1>0, <1>3, <1>4 DEF OwnInv, StopInv

LEMMA OwnStop ==
  ASSUME BleShape, OwnInv, StopBegins \/ StopStep \/ ListenerStarts
  PROVE  OwnInv'
<1>0. /\ bleRunner \in RunnerType /\ bleOwner \in Sessions \cup {NoSession}
      /\ bleSession \in [Sessions -> SessionType] /\ NoSession \notin Sessions
      /\ bleStopTask \in BleStopType
  BY BleAssumption DEF BleShape
<1>1. CASE StopBegins
  <2>1. /\ bleStopEvent' /\ bleStopTask' = [at |-> "sessions", s |-> bleOwner]
        /\ UNCHANGED <<bleOwner, bleRunner>>
    BY <1>1 DEF StopBegins
  <2>2. CASE bleOwner = NoSession
    <3>1. UNCHANGED bleSession
      BY <1>1, <2>2 DEF StopBegins
    <3> QED BY <2>1, <3>1 DEF OwnInv, RunnerPlaced, NotOwned, Owned, CutIsFinal, StopInv, Emptied,
               Connected
  <2>3. CASE bleOwner # NoSession
    <3>1. bleOwner \in Sessions /\ JoinTeardown(bleOwner)
      BY <1>0, <1>1, <2>3 DEF StopBegins
    <3>2. JoinedAt(bleOwner)
      BY <3>1, JoinFacts
    <3>3. NotOwned' /\ Owned' /\ RunnerPlaced'
      BY <1>0, <2>1, <3>1, <3>2 DEF OwnInv, NotOwned, Owned, RunnerPlaced, Emptied, Connected, JoinedAt
    <3>4. CutIsFinal'
      BY <1>0, <2>1, <3>2 DEF OwnInv, CutIsFinal, Emptied, JoinedAt
    <3> QED BY <2>1, <3>3, <3>4 DEF OwnInv, StopInv
  <2> QED BY <2>2, <2>3
<1>2. CASE SessionsStopped \/ RunnersStopped \/ ListenerStarts
  <2>1. UNCHANGED <<bleOwner, bleSession, bleRunner>>
    BY <1>2 DEF SessionsStopped, RunnersStopped, ListenerStarts
  <2>2. StopInv'
    <3>1. CASE SessionsStopped
      BY <1>0, <2>1, <3>1 DEF SessionsStopped, OwnInv, StopInv, Owned, BleStopType
    <3>2. CASE RunnersStopped
      BY <1>0, <2>1, <3>2 DEF RunnersStopped, OwnInv, StopInv, BleStopType
    <3>3. CASE ListenerStarts
      BY <1>0, <2>1, <3>3 DEF ListenerStarts, OwnInv, StopInv, BleStopType
    <3> QED BY <1>2, <3>1, <3>2, <3>3
  <2> QED BY <2>1, <2>2 DEF OwnInv, RunnerPlaced, NotOwned, Owned, CutIsFinal, Emptied, Connected
<1> QED BY <1>1, <1>2 DEF StopStep

LEMMA OwnNext == BleShape /\ OwnInv /\ [BleNext]_bleVars => BleShape' /\ OwnInv'
<1> SUFFICES ASSUME BleShape, OwnInv, [BleNext]_bleVars PROVE BleShape' /\ OwnInv'
  OBVIOUS
<1>1. CASE RunnerSpawns \/ RunnerStep \/ RunnerCancelled
  BY <1>1, ShapeRunner, OwnRunner DEF OwnInv
<1>2. CASE StopBegins \/ StopStep \/ ListenerStarts
  BY <1>2, ShapeStop, OwnStop
<1>3. ASSUME NEW s \in Sessions, RunnerConnects(s) PROVE BleShape' /\ OwnInv'
  BY <1>3, ShapeConnect, OwnConnect
<1>4. ASSUME NEW s \in Sessions, TeardownStep(s) PROVE BleShape' /\ OwnInv'
  BY <1>4, ShapeSession, OwnTeardown
<1>5. ASSUME NEW s \in Sessions, LinkLost(s) \/ OnDisconnect(s) PROVE BleShape' /\ OwnInv'
  BY <1>5, ShapeSession, OwnLink
<1>6. ASSUME NEW s \in Sessions,
             \/ DrainTakes(s) \/ DeliveryRuns(s) \/ SinkReturns(s) \/ DeliveryCancelled(s)
             \/ \E answer \in BOOLEAN : Notified(s, answer)
      PROVE  BleShape' /\ OwnInv'
  BY <1>6, ShapeSession, OwnDelivery
<1>7. ASSUME NEW w \in Writers,
             (\E s \in Sessions : CommandBegins(w, s)) \/ CommandWrites(w) \/ CommandWritten(w)
               \/ CommandEnds(w)
      PROVE  BleShape' /\ OwnInv'
  <2>1. UNCHANGED <<bleOwner, bleSession, bleRunner, bleStopEvent, bleStopTask>>
    BY <1>7 DEF CommandBegins, CommandWrites, CommandWritten, CommandEnds
  <2> QED BY <1>7, <2>1, ShapeWriter
          DEF OwnInv, RunnerPlaced, NotOwned, Owned, CutIsFinal, StopInv, Emptied, Connected
<1>8. CASE UNCHANGED bleVars
  BY <1>8 DEF bleVars, BleShape, OwnInv, RunnerPlaced, NotOwned, Owned, CutIsFinal, StopInv,
     Emptied, Connected
<1> QED BY <1>1, <1>2, <1>3, <1>4, <1>5, <1>6, <1>7, <1>8 DEF BleNext

LEMMA OwnInvariance == BleSpec => [](BleShape /\ OwnInv)
BY BleShapeInit, OwnInit, OwnNext, PTL DEF BleSpec

\* The state of the BLE listener keeps its types, for any number of sessions.
THEOREM BleTypeCorrect == BleSpec => []BleTypeOK
BY OwnInvariance, ShapeIsTypeOK, PTL

\* A link that is given up is nobody's before it is let go of: nothing but the runner
\* that gives it up refers to it.
LetGo(s) == Stray(s) \/ (bleRunner.at = "dispose" /\ bleRunner.s = s)

StraysLetGo ==
  \A s \in Sessions :
    /\ LetGo(s) => /\ s # bleOwner /\ s # bleStopTask.s
                     /\ \A w \in Writers : bleWriter[w].s # s
    /\ Stray(s) => s # bleRunner.s

LEMMA StraysInit == BleInit => StraysLetGo
BY DEF BleInit, StraysLetGo, LetGo, Stray, UnusedSession, NoRunner

\* A step that gives nothing up and makes the stop and the commands refer to the owner
\* at most.
LEMMA StraysStay ==
  ASSUME BleShape, OwnInv, StraysLetGo,
         \A s \in Sessions : bleSession'[s].link = "stray" => bleSession[s].link = "stray",
         bleOwner' \in {bleOwner, NoSession},
         bleRunner'.s \in {bleRunner.s, bleOwner, NoSession},
         bleRunner'.at = "dispose" => bleRunner.at = "dispose" /\ bleRunner'.s = bleRunner.s,
         bleStopTask'.s \in {bleStopTask.s, bleOwner, NoSession},
         \A w \in Writers : bleWriter'[w].s \in {bleWriter[w].s, bleOwner, NoSession}
  PROVE  StraysLetGo'
<1> SUFFICES ASSUME NEW s \in Sessions
             PROVE  /\ LetGo(s)' => /\ s # bleOwner' /\ s # bleStopTask'.s
                                      /\ \A w \in Writers : bleWriter'[w].s # s
                    /\ Stray(s)' => s # bleRunner'.s
  BY DEF StraysLetGo
<1>1. s # NoSession
  BY BleAssumption
<1>2. (Stray(s)' => Stray(s)) /\ (LetGo(s)' => LetGo(s))
  BY DEF Stray, LetGo
<1>3. ASSUME LetGo(s)
      PROVE  s # bleOwner' /\ s # bleStopTask'.s /\ \A w \in Writers : bleWriter'[w].s # s
  BY <1>1, <1>3 DEF StraysLetGo
<1>4. ASSUME Stray(s) PROVE s # bleRunner'.s
  <2>1. s # bleOwner /\ s # bleRunner.s
    BY <1>4 DEF StraysLetGo, LetGo
  <2> QED BY <1>1, <2>1
<1> QED BY <1>2, <1>3, <1>4

LEMMA StraysRunner ==
  ASSUME BleShape, OwnInv, StraysLetGo, RunnerSpawns \/ RunnerStep \/ RunnerCancelled
  PROVE  StraysLetGo'
<1>0. /\ bleRunner \in RunnerType /\ bleSession \in [Sessions -> SessionType]
      /\ NoRunner.at = "none" /\ NoRunner.s = NoSession
  BY DEF BleShape, NoRunner
<1>1. CASE RunnerSpawns \/ RunnerEnds \/ RetainedTornDown \/ RunnerTornDown \/ RunnerCancelled
  <2>1. UNCHANGED <<bleOwner, bleSession, bleStopTask, bleWriter>>
    BY <1>1 DEF RunnerSpawns, RunnerEnds, RetainedTornDown, RunnerTornDown, RunnerCancelled
  <2>2. /\ bleRunner'.s \in {bleRunner.s, NoSession}
        /\ bleRunner'.at = "dispose" => bleRunner.at = "dispose" /\ bleRunner'.s = bleRunner.s
    BY <1>0, <1>1 DEF RunnerSpawns, RunnerEnds, RetainedTornDown, RunnerTornDown, RunnerCancelled,
       RunnerType, NoRunner
  <2> QED BY <2>1, <2>2, StraysStay
<1>2. CASE RunnerFindsRetained
  <2>1. /\ UNCHANGED <<bleOwner, bleStopTask, bleWriter>> /\ JoinTeardown(bleOwner)
        /\ bleRunner'.at = "retained" /\ bleRunner'.s = bleOwner /\ bleOwner \in Sessions
    BY <1>0, <1>2 DEF RunnerFindsRetained, RunnerType, BleShape
  <2>2. JoinedAt(bleOwner)
    BY <2>1, JoinFacts
  <2> QED BY <2>1, <2>2, StraysStay DEF JoinedAt
<1>3. CASE RunnerLeaves
  <2>1. /\ UNCHANGED <<bleOwner, bleStopTask, bleWriter>> /\ JoinTeardown(bleRunner.s)
        /\ bleRunner'.at = "teardown" /\ bleRunner'.s = bleRunner.s /\ bleRunner.s \in Sessions
    BY <1>0, <1>3 DEF RunnerLeaves, RunnerType, OwnInv, RunnerPlaced
  <2>2. JoinedAt(bleRunner.s)
    BY <2>1, JoinFacts
  <2> QED BY <2>1, <2>2, StraysStay DEF JoinedAt
<1>4. CASE NotifyAsked \/ NotifyStarted
  <2>1. /\ UNCHANGED <<bleOwner, bleStopTask, bleWriter>>
        /\ bleRunner'.at # "dispose" /\ bleRunner'.s = bleRunner.s
    BY <1>0, <1>4 DEF NotifyAsked, NotifyStarted, RunnerType
  <2>2. \A s \in Sessions : bleSession'[s].link = bleSession[s].link
    <3>1. CASE NotifyAsked
      BY <1>0, <3>1 DEF NotifyAsked, SessionType
    <3>2. CASE NotifyStarted
      BY <1>0, <3>2 DEF NotifyStarted, SessionType
    <3> QED BY <1>4, <3>1, <3>2
  <2> QED BY <2>1, <2>2, StraysStay
<1>5. CASE RunnerDisposes
  <2>1. /\ bleRunner.at = "dispose" /\ bleRunner' = NoRunner
        /\ UNCHANGED <<bleOwner, bleStopTask, bleWriter>>
    BY <1>5 DEF RunnerDisposes
  <2>2. \A s \in Sessions : s # bleRunner.s => bleSession'[s] = bleSession[s]
    <3>1. PICK link \in {"closed", "stray"} :
            bleSession' = [bleSession EXCEPT ![bleRunner.s].link = link]
      BY <1>5 DEF RunnerDisposes
    <3> QED BY <1>0, <3>1
  <2>3. \A s \in Sessions : LetGo(s)' => LetGo(s)
    BY <1>0, <2>1, <2>2 DEF LetGo, Stray
  <2>4. \A s \in Sessions : s # bleRunner'.s
    BY <1>0, <2>1, BleAssumption
  <2> QED BY <2>1, <2>3, <2>4 DEF StraysLetGo
<1> QED BY <1>1, <1>2, <1>3, <1>4, <1>5 DEF RunnerStep

LEMMA StraysConnect ==
  ASSUME BleShape, OwnInv, StraysLetGo, NEW s \in Sessions, RunnerConnects(s)
  PROVE  StraysLetGo'
<1>0. /\ bleRunner \in RunnerType /\ bleSession \in [Sessions -> SessionType]
      /\ NewSession.link = "open"
  BY NewSessionType DEF BleShape
<1>1. /\ s # bleStopTask.s /\ \A w \in Writers : bleWriter[w].s # s
      /\ ~Stray(s) /\ bleOwner = NoSession /\ UNCHANGED <<bleStopTask, bleWriter>>
  BY DEF RunnerConnects, FreeSessions
<1>2. /\ bleRunner'.s = s /\ bleOwner' \in {NoSession, s}
      /\ bleRunner'.at = "dispose" => bleOwner' = NoSession
      /\ \A t \in Sessions : bleSession'[t] = IF t = s THEN NewSession ELSE bleSession[t]
  BY <1>0, <1>1 DEF RunnerConnects, RunnerType
<1>3. ASSUME NEW t \in Sessions
      PROVE  /\ LetGo(t)' => /\ t # bleOwner' /\ t # bleStopTask'.s
                               /\ \A w \in Writers : bleWriter'[w].s # t
             /\ Stray(t)' => t # bleRunner'.s
  <2>1. CASE t = s
    <3>1. ~Stray(t)' /\ (LetGo(t)' => bleOwner' = NoSession)
      BY <1>0, <1>2, <2>1 DEF Stray, LetGo
    <3> QED BY <1>1, <2>1, <3>1, BleAssumption
  <2>2. CASE t # s
    <3>1. LetGo(t)' => Stray(t)
      BY <1>2, <2>2 DEF LetGo, Stray
    <3>2. Stray(t) => LetGo(t)
      BY DEF LetGo
    <3> QED BY <1>1, <1>2, <2>2, <3>1, <3>2, BleAssumption DEF StraysLetGo
  <2> QED BY <2>1, <2>2
<1> QED BY <1>3 DEF StraysLetGo

LEMMA StraysSession ==
  ASSUME BleShape, OwnInv, StraysLetGo, NEW s \in Sessions,
         \/ TeardownStep(s) \/ LinkLost(s) \/ OnDisconnect(s) \/ DrainTakes(s)
         \/ DeliveryRuns(s) \/ SinkReturns(s) \/ DeliveryCancelled(s)
         \/ \E answer \in BOOLEAN : Notified(s, answer)
  PROVE  StraysLetGo'
<1>0. /\ bleSession \in [Sessions -> SessionType] /\ bleWriter \in [Writers -> WriterType]
  BY DEF BleShape
<1>1. /\ bleOwner' \in {bleOwner, NoSession} /\ UNCHANGED <<bleRunner, bleStopTask>>
  BY DEF TeardownStep, TeardownQuiesces, TeardownFails, TeardownDrained, TeardownReleases, LinkLost,
     OnDisconnect, DrainTakes, DeliveryRuns, SinkReturns, DeliveryCancelled, Notified
<1>2. \A w \in Writers : bleWriter'[w].s = bleWriter[w].s
  <2>1. CASE TeardownReleases(s)
    BY <1>0, <2>1 DEF TeardownReleases, CancelAcks, WriterType
  <2>2. CASE DeliveryRuns(s)
    BY <1>0, <2>2 DEF DeliveryRuns, WriterType
  <2>3. CASE UNCHANGED bleWriter
    BY <2>3
  <2> QED BY <2>1, <2>2, <2>3 DEF TeardownStep, TeardownQuiesces, TeardownFails, TeardownDrained,
          LinkLost, OnDisconnect, DrainTakes, SinkReturns, DeliveryCancelled, Notified
<1>3. \A t \in Sessions : bleSession'[t].link = "stray" => bleSession[t].link = "stray"
  <2>1. CASE TeardownQuiesces(s)
    <3>1. PICK link \in {"open", "closed"} :
            bleSession' = [bleSession EXCEPT ![s].teardown = "drain", ![s].notify = "off",
                                             ![s].accepting = FALSE, ![s].link = link]
      BY <2>1 DEF TeardownQuiesces
    <3> QED BY <1>0, <3>1 DEF SessionType
  <2>2. CASE TeardownFails(s) \/ TeardownDrained(s) \/ TeardownReleases(s)
    BY <1>0, <2>2 DEF TeardownFails, TeardownDrained, TeardownReleases, SessionType
  <2>3. CASE LinkLost(s)
    BY <1>0, <2>3 DEF LinkLost, SessionType
  <2>4. CASE OnDisconnect(s)
    BY <1>0, <2>4 DEF OnDisconnect, SessionType
  <2>6. CASE DrainTakes(s)
    <3>1. CASE bleSession[s].delivery = "none" /\ bleSession[s].fifo # <<>>
      <4>1. bleSession' = [bleSession EXCEPT ![s].delivery = "created",
                 ![s].inflight = Head(bleSession[s].fifo), ![s].fifo = Tail(@)]
        BY <2>6, <3>1 DEF DrainTakes
      <4> QED BY <1>0, <4>1 DEF SessionType
    <3>2. CASE bleSession[s].delivery = "lost"
      <4>1. bleSession' = [bleSession EXCEPT ![s].delivery = "created"]
        BY <2>6, <3>2 DEF DrainTakes
      <4> QED BY <1>0, <4>1 DEF SessionType
    <3> QED BY <2>6, <3>1, <3>2 DEF DrainTakes
  <2>7. CASE DeliveryRuns(s) \/ DeliveryCancelled(s)
    BY <1>0, <2>7 DEF DeliveryRuns, DeliveryCancelled, SessionType
  <2>8. CASE SinkReturns(s)
    BY <1>0, <2>8 DEF SinkReturns, SessionType
  <2>5. ASSUME NEW answer \in BOOLEAN, Notified(s, answer)
        PROVE  \A t \in Sessions : bleSession'[t].link = bleSession[t].link
    <3>1. bleSession' = [bleSession EXCEPT ![s].fifo =
                               Append(@, [n |-> bleSeen', answer |-> answer])]
      BY <2>5 DEF Notified
    <3> QED BY <1>0, <3>1 DEF SessionType
  <2> QED BY <2>1, <2>2, <2>3, <2>4, <2>5, <2>6, <2>7, <2>8 DEF TeardownStep
<1> QED BY <1>1, <1>2, <1>3, StraysStay

LEMMA StraysNext ==
  BleShape /\ OwnInv /\ StraysLetGo /\ [BleNext]_bleVars => StraysLetGo'
<1> SUFFICES ASSUME BleShape, OwnInv, StraysLetGo, [BleNext]_bleVars PROVE StraysLetGo'
  OBVIOUS
<1>0. bleWriter \in [Writers -> WriterType] /\ bleStopTask \in BleStopType
      /\ bleOwner \in Sessions \cup {NoSession} /\ NoWriter.s = NoSession
  BY DEF BleShape, NoWriter
<1>1. CASE RunnerSpawns \/ RunnerStep \/ RunnerCancelled
  BY <1>1, StraysRunner
<1>2. ASSUME NEW s \in Sessions, RunnerConnects(s) PROVE StraysLetGo'
  BY <1>2, StraysConnect
<1>3. ASSUME NEW s \in Sessions,
             \/ TeardownStep(s) \/ LinkLost(s) \/ OnDisconnect(s) \/ DrainTakes(s)
             \/ DeliveryRuns(s) \/ SinkReturns(s) \/ DeliveryCancelled(s)
             \/ \E answer \in BOOLEAN : Notified(s, answer)
      PROVE  StraysLetGo'
  BY <1>3, StraysSession
<1>4. CASE StopBegins
  <2>1. UNCHANGED <<bleOwner, bleRunner>> /\ bleStopTask'.s = bleOwner
    BY <1>4 DEF StopBegins
  <2>2. \A w \in Writers : bleWriter'[w].s = bleWriter[w].s
    BY <1>0, <1>4 DEF StopBegins, CancelAcks, WriterType
  <2>3. \A s \in Sessions : bleSession'[s].link = bleSession[s].link
    <3>1. bleSession' = bleSession \/ (bleOwner \in Sessions /\ JoinTeardown(bleOwner))
      BY <1>0, <1>4 DEF StopBegins
    <3> QED BY <3>1, JoinFacts DEF JoinedAt
  <2> QED BY <2>1, <2>2, <2>3, StraysStay
<1>5. CASE StopStep \/ ListenerStarts
  <2>1. UNCHANGED <<bleOwner, bleRunner, bleSession, bleWriter>>
    BY <1>5 DEF StopStep, SessionsStopped, RunnersStopped, ListenerStarts
  <2>2. bleStopTask'.s \in {bleStopTask.s, NoSession}
    BY <1>0, <1>5 DEF StopStep, SessionsStopped, RunnersStopped, ListenerStarts, BleStopType
  <2> QED BY <2>1, <2>2, StraysStay
<1>6. ASSUME NEW w \in Writers,
             (\E s \in Sessions : CommandBegins(w, s)) \/ CommandWrites(w) \/ CommandWritten(w)
               \/ CommandEnds(w)
      PROVE  StraysLetGo'
  <2>1. UNCHANGED <<bleOwner, bleSession, bleRunner, bleStopTask>>
    BY <1>6 DEF CommandBegins, CommandWrites, CommandWritten, CommandEnds
  <2>2. \A v \in Writers : bleWriter'[v].s \in {bleWriter[v].s, bleOwner, NoSession}
    <3>1. CASE \E s \in Sessions : CommandBegins(w, s)
      BY <1>0, <3>1 DEF CommandBegins, NoWriter
    <3>2. CASE CommandWrites(w) \/ CommandWritten(w) \/ CommandEnds(w)
      BY <1>0, <3>2 DEF CommandWrites, CommandWritten, CommandEnds, WriterType
    <3> QED BY <1>6, <3>1, <3>2
  <2> QED BY <2>1, <2>2, StraysStay
<1>7. CASE UNCHANGED bleVars
  BY <1>7, StraysStay DEF bleVars
<1> QED BY <1>1, <1>2, <1>3, <1>4, <1>5, <1>6, <1>7 DEF BleNext

\* There is at most one GATT link the listener keeps, it is the owner's or the one being
\* given up, a stop that reports success leaves no such link, and one it could not give
\* up after a stop is nobody's.
THEOREM OneLinkAtATime == BleSpec => []OneLink
<1>1. BleShape /\ OwnInv /\ StraysLetGo => OneLink
  <2> SUFFICES ASSUME BleShape, OwnInv, StraysLetGo PROVE OneLink
    OBVIOUS
  <2> DEFINE open == {s \in Sessions : Connected(s)}
             one == IF bleRunner.at = "dispose" THEN bleRunner.s ELSE bleOwner
  <2>1. \A s \in open : s = one
    BY BleAssumption DEF OwnInv, NotOwned, Owned
  <2>2. open = {} \/ open = {one}
    BY <2>1
  <2>3. Cardinality({}) = 0 /\ Cardinality({one}) = 1
    BY FS_EmptySet, FS_Singleton
  <2>4. Cardinality(open) <= 1
    BY <2>2, <2>3
  <2>5. open \subseteq {bleOwner, bleRunner.s}
    BY <2>1
  <2>6. bleStopTask.at = "done" => open = {} /\ bleOwner = NoSession
    BY <2>1, BleAssumption DEF OwnInv, NotOwned, StopInv
  <2>7. \A s \in Sessions : Stray(s) =>
          /\ s \notin {bleOwner, bleRunner.s, bleStopTask.s}
          /\ \A w \in Writers : bleWriter[w].s # s
    BY DEF StraysLetGo, LetGo
  <2> QED BY <2>4, <2>5, <2>6, <2>7 DEF OneLink
<1>2. BleInit => StraysLetGo
  BY StraysInit
<1> QED BY <1>1, <1>2, StraysNext, OwnInvariance, PTL DEF BleSpec

-------------------------------------------------------------------------------
(* Acknowledgements.                                                         *)

\* A command under way is at a session.
WriterPlaced ==
  \A w \in Writers :
    /\ bleWriter[w].at # "idle" => bleWriter[w].s \in Sessions
    /\ bleWriter[w].ack = "pending" => bleWriter[w].at # "idle"

LEMMA PlacedNext == BleShape /\ WriterPlaced /\ [BleNext]_bleVars => WriterPlaced'
<1> SUFFICES ASSUME BleShape, WriterPlaced, [BleNext]_bleVars, NEW w \in Writers
             PROVE  /\ bleWriter'[w].at # "idle" => bleWriter'[w].s \in Sessions
                    /\ bleWriter'[w].ack = "pending" => bleWriter'[w].at # "idle"
  BY DEF WriterPlaced
<1>0. bleWriter \in [Writers -> WriterType] /\ bleWriter[w] \in WriterType
  BY DEF BleShape
<1>1. CASE /\ bleWriter'[w].at = bleWriter[w].at /\ bleWriter'[w].s = bleWriter[w].s
           /\ bleWriter'[w].ack = "pending" => bleWriter[w].ack = "pending"
  BY <1>1 DEF WriterPlaced
<1>2. ASSUME NEW writers, CancelAcks(writers)
      PROVE  /\ bleWriter'[w].at = bleWriter[w].at /\ bleWriter'[w].s = bleWriter[w].s
             /\ bleWriter'[w].ack = "pending" => bleWriter[w].ack = "pending"
  BY <1>0, <1>2 DEF CancelAcks, WriterType
<1>3. CASE StopBegins
  BY <1>1, <1>2, <1>3 DEF StopBegins
<1>4. ASSUME NEW s \in Sessions, TeardownReleases(s)
      PROVE  /\ bleWriter'[w].at = bleWriter[w].at /\ bleWriter'[w].s = bleWriter[w].s
             /\ bleWriter'[w].ack = "pending" => bleWriter[w].ack = "pending"
  BY <1>2, <1>4 DEF TeardownReleases
<1>5. ASSUME NEW s \in Sessions, DeliveryRuns(s)
      PROVE  /\ bleWriter'[w].at = bleWriter[w].at /\ bleWriter'[w].s = bleWriter[w].s
             /\ bleWriter'[w].ack = "pending" => bleWriter[w].ack = "pending"
  BY <1>0, <1>5 DEF DeliveryRuns, WriterType
<1>6. ASSUME NEW v \in Writers, NEW s \in Sessions, CommandBegins(v, s)
      PROVE  /\ bleWriter'[w].at # "idle" => bleWriter'[w].s \in Sessions
             /\ bleWriter'[w].ack = "pending" => bleWriter'[w].at # "idle"
  BY <1>0, <1>6 DEF CommandBegins, NoWriter, WriterPlaced
<1>7. ASSUME NEW v \in Writers, CommandWrites(v) \/ CommandWritten(v) \/ CommandEnds(v)
      PROVE  /\ bleWriter'[w].at # "idle" => bleWriter'[w].s \in Sessions
             /\ bleWriter'[w].ack = "pending" => bleWriter'[w].at # "idle"
  BY <1>0, <1>7 DEF CommandWrites, CommandWritten, CommandEnds, NoWriter, WriterPlaced, WriterType
<1>8. CASE RunnerSpawns \/ RunnerStep \/ StopStep \/ RunnerCancelled \/ ListenerStarts
  BY <1>1, <1>8 DEF RunnerSpawns, RunnerStep, RunnerEnds, RunnerFindsRetained, RetainedTornDown,
     RunnerDisposes, NotifyAsked, NotifyStarted, RunnerLeaves, RunnerTornDown, StopStep,
     SessionsStopped, RunnersStopped, RunnerCancelled, ListenerStarts
<1>9. ASSUME NEW s \in Sessions,
             \/ TeardownQuiesces(s) \/ TeardownFails(s) \/ TeardownDrained(s) \/ RunnerConnects(s)
             \/ LinkLost(s) \/ OnDisconnect(s) \/ DrainTakes(s) \/ SinkReturns(s)
             \/ DeliveryCancelled(s) \/ \E answer \in BOOLEAN : Notified(s, answer)
      PROVE  UNCHANGED bleWriter
  BY <1>9 DEF TeardownQuiesces, TeardownFails, TeardownDrained, RunnerConnects, LinkLost,
     OnDisconnect, DrainTakes, SinkReturns, DeliveryCancelled, Notified
<1>10. CASE UNCHANGED bleVars
  BY <1>1, <1>10 DEF bleVars
<1> QED BY <1>1, <1>3, <1>4, <1>5, <1>6, <1>7, <1>8, <1>9, <1>10 DEF BleNext, TeardownStep

\* Only a command of the owning session registers for an acknowledgement; the release
\* of the session and the stop of the listener cancel what is registered.
LEMMA AckNext ==
  BleShape /\ WriterPlaced /\ AckWaiterOwned /\ [BleNext]_bleVars => AckWaiterOwned'
<1> SUFFICES ASSUME BleShape, WriterPlaced, AckWaiterOwned, [BleNext]_bleVars,
                    NEW w \in Writers, bleWriter'[w].ack = "pending"
             PROVE  bleOwner' = bleWriter'[w].s /\ ~bleStopEvent'
  BY DEF AckWaiterOwned
<1>0. bleWriter \in [Writers -> WriterType] /\ bleWriter[w] \in WriterType
  BY DEF BleShape
<1>1. CASE StopBegins
  <2>1. bleWriter'[w].ack # "pending"
    BY <1>0, <1>1 DEF StopBegins, CancelAcks, WriterType
  <2> QED BY <2>1
<1>2. ASSUME NEW s \in Sessions, TeardownReleases(s)
      PROVE  bleOwner' = bleWriter'[w].s /\ ~bleStopEvent'
  <2>1. bleWriter'[w] = bleWriter[w] /\ bleWriter[w].s # s
    BY <1>0, <1>2 DEF TeardownReleases, CancelAcks, WriterType
  <2> QED BY <1>2, <2>1 DEF TeardownReleases, AckWaiterOwned
<1>3. ASSUME NEW s \in Sessions, RunnerConnects(s)
      PROVE  bleOwner' = bleWriter'[w].s /\ ~bleStopEvent'
  <2>1. bleOwner = NoSession /\ bleWriter' = bleWriter
    BY <1>3 DEF RunnerConnects
  <2>2. bleWriter[w].s \in Sessions /\ bleWriter[w].s = bleOwner
    BY <2>1 DEF WriterPlaced, AckWaiterOwned
  <2> QED BY <2>1, <2>2, BleAssumption
<1>4. ASSUME NEW v \in Writers, CommandWrites(v)
      PROVE  bleOwner' = bleWriter'[w].s /\ ~bleStopEvent'
  <2>1. CASE w = v /\ MayWrite(bleWriter[v].s)
    BY <1>0, <1>4, <2>1 DEF CommandWrites, MayWrite, SessionIsCurrent
  <2>2. CASE w # v \/ ~MayWrite(bleWriter[v].s)
    BY <1>0, <1>4, <2>2 DEF CommandWrites, NoWriter, AckWaiterOwned
  <2> QED BY <2>1, <2>2
<1>5. ASSUME NEW v \in Writers,
             (\E s \in Sessions : CommandBegins(v, s)) \/ CommandWritten(v) \/ CommandEnds(v)
      PROVE  bleOwner' = bleWriter'[w].s /\ ~bleStopEvent'
  <2>1. UNCHANGED <<bleOwner, bleStopEvent>>
    BY <1>5 DEF CommandBegins, CommandWritten, CommandEnds
  <2>2. bleWriter[w].ack = "pending" /\ bleWriter'[w].s = bleWriter[w].s
    <3>1. CASE \E s \in Sessions : CommandBegins(v, s)
      BY <1>0, <3>1 DEF CommandBegins, NoWriter
    <3>2. CASE CommandWritten(v)
      BY <1>0, <3>2 DEF CommandWritten, WriterType
    <3>3. CASE CommandEnds(v)
      BY <1>0, <3>3 DEF CommandEnds, NoWriter
    <3> QED BY <1>5, <3>1, <3>2, <3>3
  <2> QED BY <2>1, <2>2 DEF AckWaiterOwned
<1>6. ASSUME NEW s \in Sessions, DeliveryRuns(s)
      PROVE  bleOwner' = bleWriter'[w].s /\ ~bleStopEvent'
  <2>1. bleWriter'[w] = bleWriter[w]
    BY <1>0, <1>6 DEF DeliveryRuns, WriterType
  <2> QED BY <1>6, <2>1 DEF DeliveryRuns, AckWaiterOwned
<1>7. CASE UNCHANGED <<bleOwner, bleWriter>> /\ (bleStopEvent' => bleStopEvent)
  BY <1>7 DEF AckWaiterOwned
<1>8. CASE RunnerSpawns \/ RunnerStep \/ StopStep \/ RunnerCancelled \/ ListenerStarts
  BY <1>7, <1>8 DEF RunnerSpawns, RunnerStep, RunnerEnds, RunnerFindsRetained, RetainedTornDown,
     RunnerDisposes, NotifyAsked, NotifyStarted, RunnerLeaves, RunnerTornDown, StopStep,
     SessionsStopped, RunnersStopped, RunnerCancelled, ListenerStarts
<1>9. ASSUME NEW s \in Sessions,
             \/ TeardownQuiesces(s) \/ TeardownFails(s) \/ TeardownDrained(s)
             \/ LinkLost(s) \/ OnDisconnect(s) \/ DrainTakes(s) \/ SinkReturns(s)
             \/ DeliveryCancelled(s) \/ \E answer \in BOOLEAN : Notified(s, answer)
      PROVE  bleOwner' = bleWriter'[w].s /\ ~bleStopEvent'
  BY <1>7, <1>9 DEF TeardownQuiesces, TeardownFails, TeardownDrained, LinkLost, OnDisconnect,
     DrainTakes, SinkReturns, DeliveryCancelled, Notified
<1>10. CASE UNCHANGED bleVars
  BY <1>7, <1>10 DEF bleVars
<1> QED BY <1>1, <1>2, <1>3, <1>4, <1>5, <1>6, <1>8, <1>9, <1>10 DEF BleNext, TeardownStep

\* Nobody waits for the acknowledgement of a session that is gone or of a listener that
\* is stopping.
THEOREM NoOrphanedAckWaiter == BleSpec => []AckWaiterOwned
<1>1. BleInit => AckWaiterOwned /\ WriterPlaced
  BY DEF BleInit, AckWaiterOwned, WriterPlaced, NoWriter
<1> QED BY <1>1, PlacedNext, AckNext, OwnInvariance, PTL DEF BleSpec

-------------------------------------------------------------------------------
(* Order.                                                                    *)

Numbered(fifo, from) == \A i \in 1..Len(fifo) : fifo[i].n = from + i

\* What was accepted and not handed over waits, in order, in the owner's FIFO.
FifoOrder ==
  /\ bleOwner = NoSession => bleSeen = bleHanded
  /\ \A s \in Sessions : s = bleOwner =>
       /\ bleSeen = bleHanded + Len(bleSession[s].fifo)
       /\ Numbered(bleSession[s].fifo, bleHanded)

LEMMA AppendNumbered ==
  ASSUME NEW fifo \in Seq(Frames), NEW from \in Nat, Numbered(fifo, from), NEW answer \in BOOLEAN
  PROVE  /\ Len(Append(fifo, [n |-> from + Len(fifo) + 1, answer |-> answer])) = Len(fifo) + 1
         /\ Numbered(Append(fifo, [n |-> from + Len(fifo) + 1, answer |-> answer]), from)
<1> DEFINE frame == [n |-> from + Len(fifo) + 1, answer |-> answer]
<1>1. /\ Len(Append(fifo, frame)) = Len(fifo) + 1 /\ Len(fifo) \in Nat
      /\ \A i \in 1..Len(fifo) : Append(fifo, frame)[i] = fifo[i]
      /\ Append(fifo, frame)[Len(fifo) + 1] = frame
  <2> HIDE DEF frame
  <2> QED OBVIOUS
<1>2. ASSUME NEW i \in 1..Len(Append(fifo, frame)) PROVE Append(fifo, frame)[i].n = from + i
  <2>1. CASE i = Len(fifo) + 1
    BY <1>1, <2>1
  <2>2. CASE i # Len(fifo) + 1
    <3>1. i \in 1..Len(fifo)
      BY <1>1, <2>2
    <3> QED BY <1>1, <3>1 DEF Numbered
  <2> QED BY <2>1, <2>2
<1> QED BY <1>1, <1>2 DEF Numbered

LEMMA TailNumbered ==
  ASSUME NEW fifo \in Seq(Frames), NEW from \in Nat, Numbered(fifo, from), fifo # <<>>
  PROVE  /\ Head(fifo).n = from + 1 /\ Len(fifo) = Len(Tail(fifo)) + 1
         /\ Numbered(Tail(fifo), from + 1)
<1>1. Len(fifo) \in Nat \ {0} /\ Head(fifo) = fifo[1] /\ Len(Tail(fifo)) = Len(fifo) - 1
      /\ \A i \in 1..Len(Tail(fifo)) : Tail(fifo)[i] = fifo[i + 1]
  OBVIOUS
<1>2. ASSUME NEW i \in 1..Len(Tail(fifo)) PROVE Tail(fifo)[i].n = from + 1 + i
  <2>1. i + 1 \in 1..Len(fifo)
    BY <1>1
  <2> QED BY <1>1, <2>1 DEF Numbered
<1> QED BY <1>1, <1>2 DEF Numbered

\* The one frame the sink is at is the owner's.
OwnersFrame == IF bleOwner = NoSession THEN 0 ELSE bleSession[bleOwner].inflight.n

LEMMA InFlightIsOwners == BleShape /\ OwnInv => InFlight = OwnersFrame
<1> SUFFICES ASSUME BleShape, OwnInv PROVE InFlight = OwnersFrame
  OBVIOUS
<1> DEFINE frames == {bleSession[s].inflight : s \in Sessions} \ {NoFrame}
<1>0. NoFrame.n = 0 /\ bleOwner \in Sessions \cup {NoSession} /\ NoSession \notin Sessions
  BY BleAssumption DEF NoFrame, BleShape
<1>1. \A s \in Sessions : s # bleOwner => bleSession[s].inflight = NoFrame
  BY DEF OwnInv, NotOwned, CutIsFinal, Emptied
<1>2. CASE frames = {}
  <2>1. InFlight = 0
    BY <1>2 DEF InFlight
  <2>2. bleOwner # NoSession => bleSession[bleOwner].inflight = NoFrame
    BY <1>0, <1>2
  <2> QED BY <1>0, <2>1, <2>2 DEF OwnersFrame
<1>3. CASE frames # {}
  <2>1. bleOwner \in Sessions /\ frames = {bleSession[bleOwner].inflight}
    BY <1>0, <1>1, <1>3
  <2>2. (CHOOSE f \in frames : TRUE) = bleSession[bleOwner].inflight
    BY <2>1
  <2>3. InFlight = (CHOOSE f \in frames : TRUE).n
    BY <1>3 DEF InFlight
  <2> QED BY <1>0, <2>1, <2>2, <2>3 DEF OwnersFrame
<1> QED BY <1>2, <1>3

LEMMA InFlightIsOwnersNext == BleShape' /\ OwnInv' => (InFlight = OwnersFrame)'
BY InFlightIsOwners, PTL

\* What the serial sink sees of a session.
LEMMA SameSerial ==
  ASSUME BleShape, OwnInv, BleShape', OwnInv', FifoOrder,
         UNCHANGED <<bleOwner, bleSeen, bleHanded>>,
         \A s \in Sessions : s = bleOwner =>
           /\ bleSession'[s].fifo = bleSession[s].fifo
           /\ bleSession'[s].inflight = bleSession[s].inflight
  PROVE  FifoOrder' /\ UNCHANGED <<bleSeen, bleHanded, InFlight>>
<1>1. bleOwner \in Sessions \cup {NoSession} /\ NoSession \notin Sessions
  BY BleAssumption DEF BleShape
<1>2. InFlight' = InFlight
  BY <1>1, InFlightIsOwners, InFlightIsOwnersNext DEF OwnersFrame
<1> QED BY <1>1, <1>2 DEF FifoOrder, Numbered

\* A step is the serial sink's Accept, Hand or Finish, or invisible to it.
LEMMA BleSerialStep ==
  BleShape /\ OwnInv /\ BleShape' /\ OwnInv' /\ FifoOrder /\ [BleNext]_bleVars
    => FifoOrder' /\ [BleFifo!Next]_<<bleSeen, bleHanded, InFlight>>
<1> SUFFICES ASSUME BleShape, OwnInv, BleShape', OwnInv', FifoOrder, [BleNext]_bleVars
             PROVE  FifoOrder' /\ [BleFifo!Next]_<<bleSeen, bleHanded, InFlight>>
  OBVIOUS
<1> DEFINE Serial == FifoOrder' /\ [BleFifo!Next]_<<bleSeen, bleHanded, InFlight>>
<1>0. /\ bleSession \in [Sessions -> SessionType] /\ NoSession \notin Sessions
      /\ bleSeen \in Nat /\ bleHanded \in Nat /\ bleOwner \in Sessions \cup {NoSession}
  BY BleAssumption DEF BleShape
<1>1. InFlight = OwnersFrame /\ (InFlight = OwnersFrame)'
  BY InFlightIsOwners, InFlightIsOwnersNext
<1>2. ASSUME UNCHANGED <<bleOwner, bleSeen, bleHanded>>,
             \A s \in Sessions : s = bleOwner =>
               /\ bleSession'[s].fifo = bleSession[s].fifo
               /\ bleSession'[s].inflight = bleSession[s].inflight
      PROVE  Serial
  BY <1>2, SameSerial
<1>3. CASE RunnerSpawns \/ RunnerEnds \/ RetainedTornDown \/ RunnerTornDown \/ RunnerCancelled
           \/ StopStep \/ ListenerStarts
  <2>1. UNCHANGED <<bleOwner, bleSession, bleSeen, bleHanded>>
    BY <1>3 DEF RunnerSpawns, RunnerEnds, RetainedTornDown, RunnerTornDown, RunnerCancelled,
       StopStep, SessionsStopped, RunnersStopped, ListenerStarts
  <2> QED BY <1>2, <2>1
<1>4. CASE RunnerFindsRetained \/ RunnerLeaves \/ StopBegins
  <2>1. /\ UNCHANGED <<bleOwner, bleSeen, bleHanded>>
        /\ \/ UNCHANGED bleSession
           \/ \E s \in Sessions : JoinTeardown(s)
    BY <1>0, <1>4 DEF RunnerFindsRetained, RunnerLeaves, StopBegins, OwnInv, RunnerPlaced
  <2>2. \A s \in Sessions : /\ bleSession'[s].fifo = bleSession[s].fifo
                            /\ bleSession'[s].inflight = bleSession[s].inflight
    BY <2>1, JoinFacts DEF JoinedAt
  <2> QED BY <1>2, <2>1, <2>2
<1>5. CASE RunnerDisposes \/ NotifyAsked \/ NotifyStarted
  <2>1. UNCHANGED <<bleOwner, bleSeen, bleHanded>>
    BY <1>5 DEF RunnerDisposes, NotifyAsked, NotifyStarted
  <2>2. \A s \in Sessions : /\ bleSession'[s].fifo = bleSession[s].fifo
                            /\ bleSession'[s].inflight = bleSession[s].inflight
    <3>1. CASE RunnerDisposes
      <4>1. PICK link \in {"closed", "stray"} :
              bleSession' = [bleSession EXCEPT ![bleRunner.s].link = link]
        BY <3>1 DEF RunnerDisposes
      <4> QED BY <1>0, <4>1 DEF SessionType
    <3>2. CASE NotifyAsked \/ NotifyStarted
      BY <1>0, <3>2 DEF NotifyAsked, NotifyStarted, SessionType
    <3> QED BY <1>5, <3>1, <3>2
  <2> QED BY <1>2, <2>1, <2>2
<1>6. ASSUME NEW s \in Sessions, RunnerConnects(s) PROVE Serial
  <2>1. /\ bleOwner = NoSession /\ UNCHANGED <<bleSeen, bleHanded>>
        /\ bleOwner' \in {NoSession, s} /\ bleSession'[s] = NewSession
    BY <1>0, <1>6 DEF RunnerConnects
  <2>2. InFlight = 0 /\ InFlight' = 0
    BY <1>0, <1>1, <2>1, NewSessionType DEF OwnersFrame, NoFrame
  <2>3. FifoOrder'
    BY <1>0, <2>1, NewSessionType DEF FifoOrder, Numbered
  <2> QED BY <2>1, <2>2, <2>3
<1>7. ASSUME NEW s \in Sessions, TeardownReleases(s) PROVE Serial
  <2>1. /\ s = bleOwner /\ bleOwner' = NoSession /\ UNCHANGED <<bleSeen, bleHanded>>
        /\ bleSession[s].fifo = <<>> /\ bleSession[s].inflight = NoFrame
    BY <1>7 DEF TeardownReleases, OwnInv, NotOwned, CutIsFinal, Emptied
  <2>2. InFlight = 0 /\ InFlight' = 0
    BY <1>0, <1>1, <2>1 DEF OwnersFrame, NoFrame
  <2>3. FifoOrder'
    BY <1>0, <2>1 DEF FifoOrder
  <2> QED BY <2>1, <2>2, <2>3
<1>8. ASSUME NEW s \in Sessions,
             \/ TeardownQuiesces(s) \/ TeardownFails(s) \/ TeardownDrained(s)
             \/ LinkLost(s) \/ OnDisconnect(s) \/ DeliveryRuns(s) \/ DeliveryCancelled(s)
      PROVE  Serial
  <2>1. UNCHANGED <<bleOwner, bleSeen, bleHanded>>
    BY <1>8 DEF TeardownQuiesces, TeardownFails, TeardownDrained, LinkLost, OnDisconnect,
       DeliveryRuns, DeliveryCancelled
  <2>2. ASSUME NEW t \in Sessions
        PROVE  /\ bleSession'[t].fifo = bleSession[t].fifo
               /\ bleSession'[t].inflight = bleSession[t].inflight
    <3>1. CASE TeardownQuiesces(s)
      <4>1. PICK link \in {"open", "closed"} :
              bleSession' = [bleSession EXCEPT ![s].teardown = "drain", ![s].notify = "off",
                                               ![s].accepting = FALSE, ![s].link = link]
        BY <3>1 DEF TeardownQuiesces
      <4> QED BY <1>0, <4>1 DEF SessionType
    <3>2. CASE TeardownFails(s)
      BY <1>0, <3>2 DEF TeardownFails, SessionType
    <3>5. CASE TeardownDrained(s)
      BY <1>0, <3>5 DEF TeardownDrained, SessionType
    <3>3. CASE DeliveryRuns(s)
      BY <1>0, <3>3 DEF DeliveryRuns, SessionType
    <3>7. CASE DeliveryCancelled(s)
      BY <1>0, <3>7 DEF DeliveryCancelled, SessionType
    <3>4. CASE OnDisconnect(s)
      BY <1>0, <3>4 DEF OnDisconnect, SessionType
    <3>6. CASE LinkLost(s)
      BY <1>0, <3>6 DEF LinkLost, SessionType
    <3> QED BY <1>8, <3>1, <3>2, <3>3, <3>4, <3>5, <3>6, <3>7
  <2> QED BY <1>2, <2>1, <2>2
<1>9. ASSUME NEW s \in Sessions, NEW answer \in BOOLEAN, Notified(s, answer) PROVE Serial
  <2> DEFINE frame == [n |-> bleSeen + 1, answer |-> answer]
  <2>1. /\ s = bleOwner /\ bleSeen' = bleSeen + 1 /\ UNCHANGED <<bleOwner, bleHanded>>
        /\ bleSession' = [bleSession EXCEPT ![s].fifo = Append(@, frame)]
    BY <1>9 DEF Notified
  <2>2. /\ bleSession[s].fifo \in Seq(Frames)
        /\ bleSeen = bleHanded + Len(bleSession[s].fifo) /\ Numbered(bleSession[s].fifo, bleHanded)
    BY <1>0, <2>1 DEF FifoOrder, SessionType
  <2>3. /\ bleSession'[s].fifo = Append(bleSession[s].fifo, frame)
        /\ bleSession'[s].inflight = bleSession[s].inflight
    <3> HIDE DEF frame
    <3> QED BY <1>0, <2>1 DEF SessionType
  <2>4. /\ Len(bleSession'[s].fifo) = Len(bleSession[s].fifo) + 1
        /\ Numbered(bleSession'[s].fifo, bleHanded)
    BY <1>0, <2>2, <2>3, AppendNumbered
  <2>5. FifoOrder'
    <3>1. Len(bleSession[s].fifo) \in Nat
      BY <2>2
    <3> QED BY <1>0, <2>1, <2>2, <2>4, <3>1 DEF FifoOrder, Numbered
  <2>6. InFlight' = InFlight
    BY <1>0, <1>1, <2>1, <2>3 DEF OwnersFrame
  <2> QED BY <2>1, <2>5, <2>6 DEF BleFifo!Next, BleFifo!Accept
<1>10. ASSUME NEW s \in Sessions, DrainTakes(s) PROVE Serial
  <2>1. s = bleOwner /\ UNCHANGED <<bleOwner, bleSeen>>
    BY <1>10 DEF DrainTakes, OwnInv, NotOwned, Emptied
  <2>2. CASE bleSession[s].delivery = "none" /\ bleSession[s].fifo # <<>>
    <3>1. /\ bleSession' = [bleSession EXCEPT ![s].delivery = "created",
               ![s].inflight = Head(bleSession[s].fifo), ![s].fifo = Tail(@)]
          /\ bleHanded' = Head(bleSession[s].fifo).n
      BY <1>10, <2>2 DEF DrainTakes
    <3>2. /\ bleSession'[s].fifo = Tail(bleSession[s].fifo)
          /\ bleSession'[s].inflight = Head(bleSession[s].fifo)
      BY <1>0, <3>1 DEF SessionType
    <3>3. /\ bleSession[s].fifo \in Seq(Frames)
          /\ bleSeen = bleHanded + Len(bleSession[s].fifo) /\ Numbered(bleSession[s].fifo, bleHanded)
      BY <1>0, <2>1 DEF FifoOrder, SessionType
    <3>4. /\ bleHanded' = bleHanded + 1 /\ bleSession'[s].inflight.n = bleHanded + 1
          /\ Len(bleSession[s].fifo) = Len(bleSession'[s].fifo) + 1
          /\ Len(bleSession'[s].fifo) \in Nat
          /\ Numbered(bleSession'[s].fifo, bleHanded + 1)
      BY <1>0, <2>2, <3>1, <3>2, <3>3, TailNumbered
    <3>5. FifoOrder'
      <4>1. bleSeen' = bleHanded' + Len(bleSession'[s].fifo) /\ Numbered(bleSession'[s].fifo, bleHanded')
        <5>1. bleSeen' = bleHanded' + Len(bleSession'[s].fifo)
          <6> DEFINE n == Len(bleSession[s].fifo)
                     m == Len(bleSession'[s].fifo)
          <6>1. bleSeen' = bleHanded + n /\ bleHanded' = bleHanded + 1 /\ n = m + 1 /\ m \in Nat
            BY <2>1, <3>3, <3>4
          <6>2. bleHanded \in Nat
            BY <1>0
          <6> HIDE DEF n, m
          <6>3. bleSeen' = bleHanded' + m
            BY <6>1, <6>2
          <6> QED BY <6>3 DEF m
        <5>2. Numbered(bleSession'[s].fifo, bleHanded')
          BY <3>4 DEF Numbered
        <5> QED BY <5>1, <5>2
      <4> QED BY <1>0, <2>1, <4>1 DEF FifoOrder, Numbered
    <3>6. bleSession[s].inflight = NoFrame
      BY <2>2 DEF OwnInv, CutIsFinal
    <3>7. InFlight = 0 /\ InFlight' = bleHanded + 1 /\ bleHanded < bleSeen
      BY <1>0, <1>1, <2>1, <3>3, <3>4, <3>6 DEF OwnersFrame, NoFrame
    <3> QED BY <2>1, <3>4, <3>5, <3>7 DEF BleFifo!Next, BleFifo!Hand
  <2>3. CASE bleSession[s].delivery = "lost"
    <3>1. bleSession' = [bleSession EXCEPT ![s].delivery = "created"] /\ UNCHANGED bleHanded
      BY <1>10, <2>3 DEF DrainTakes
    <3>2. /\ bleSession'[s].fifo = bleSession[s].fifo
          /\ bleSession'[s].inflight = bleSession[s].inflight
      BY <1>0, <3>1 DEF SessionType
    <3> QED BY <1>2, <2>1, <3>1, <3>2
  <2> QED BY <1>10, <2>2, <2>3 DEF DrainTakes
<1>11. ASSUME NEW s \in Sessions, SinkReturns(s) PROVE Serial
  <2>1. s = bleOwner /\ UNCHANGED <<bleOwner, bleSeen, bleHanded>>
    BY <1>11 DEF SinkReturns, OwnInv, NotOwned, Emptied
  <2>2. bleSession'[s].fifo = bleSession[s].fifo /\ bleSession'[s].inflight = NoFrame
    BY <1>0, <1>11 DEF SinkReturns, SessionType
  <2>3. bleSession[s].inflight \in Frames
    BY <1>0, <1>11 DEF SinkReturns, OwnInv, CutIsFinal, SessionType
  <2>4. InFlight # 0 /\ InFlight' = 0
    BY <1>0, <1>1, <2>1, <2>2, <2>3, BleAssumption DEF OwnersFrame, Frames, NoFrame
  <2>5. FifoOrder'
    BY <1>0, <2>1, <2>2 DEF FifoOrder, Numbered
  <2> QED BY <2>1, <2>4, <2>5 DEF BleFifo!Next, BleFifo!Finish
<1>12. ASSUME NEW w \in Writers,
              (\E s \in Sessions : CommandBegins(w, s)) \/ CommandWrites(w) \/ CommandWritten(w)
                \/ CommandEnds(w)
       PROVE  Serial
  <2>1. UNCHANGED <<bleOwner, bleSession, bleSeen, bleHanded>>
    BY <1>12 DEF CommandBegins, CommandWrites, CommandWritten, CommandEnds
  <2> QED BY <1>2, <2>1
<1>13. CASE UNCHANGED bleVars
  BY <1>2, <1>13 DEF bleVars
<1> QED BY <1>3, <1>4, <1>5, <1>6, <1>7, <1>8, <1>9, <1>10, <1>11, <1>12, <1>13
        DEF BleNext, RunnerStep, TeardownStep

\* The frames of all connections reach the sink one at a time, in the order of arrival,
\* each at most once.
THEOREM BleRefinesSerialDelivery == BleSpec => BleFifoSpec
<1>1. BleInit => FifoOrder /\ BleFifo!Init
  <2> SUFFICES ASSUME BleInit PROVE FifoOrder /\ BleFifo!Init
    OBVIOUS
  <2>1. InFlight = 0
    BY BleShapeInit, OwnInit, InFlightIsOwners DEF BleInit, OwnersFrame
  <2> QED BY <2>1, BleAssumption DEF BleInit, FifoOrder, BleFifo!Init
<1> QED BY <1>1, BleSerialStep, OwnInvariance, PTL DEF BleSpec, BleFifoSpec, BleFifo!Spec

-------------------------------------------------------------------------------
(***************************************************************************)
(* The reassembly of the messages.                                          *)
(***************************************************************************)

-------------------------------------------------------------------------------
(* Assemblies and the order in which they wait.                                  *)

Waiting(p, k) == \E i \in DOMAIN p.order : p.order[i] = k

LEMMA AssemblyFacts ==
  ASSUME NEW k \in MessageKeys, NEW a \in Assemblies(k)
  PROVE  /\ a = [count |-> a.count, frames |-> a.frames]
         /\ a.count \in Lengths[k] /\ a.count \in Nat \ {0} /\ a # NoAssembly
         /\ DOMAIN a.frames # {} /\ DOMAIN a.frames \subseteq 1..a.count
         /\ DOMAIN a.frames # 1..a.count
         /\ \A i \in DOMAIN a.frames : a.frames[i] \in Bodies
<1>1. PICK n \in Lengths[k] :
        a \in [count : {n}, frames : UNION {[some -> Bodies] : some \in (SUBSET (1..n)) \ {{}, 1..n}}]
  BY DEF Assemblies
<1>2. PICK some \in (SUBSET (1..n)) \ {{}, 1..n} : a.frames \in [some -> Bodies]
  BY <1>1
<1>3. n \in Nat \ {0}
  BY ReassemblyAssumption
<1>4. a.count = n /\ a = [count |-> a.count, frames |-> a.frames] /\ DOMAIN a.frames = some
  BY <1>1, <1>2
<1>5. a.count # 0
  BY <1>3, <1>4
<1>6. a # NoAssembly
  BY <1>5 DEF NoAssembly
<1>7. some # {} /\ some \subseteq 1..n /\ some # 1..n /\ \A i \in some : a.frames[i] \in Bodies
  BY <1>2
<1> QED BY <1>3, <1>4, <1>6, <1>7

LEMMA IsAssembly ==
  ASSUME NEW k \in MessageKeys, NEW n \in Lengths[k],
         NEW some \in (SUBSET (1..n)) \ {{}, 1..n}, NEW frames \in [some -> Bodies]
  PROVE  [count |-> n, frames |-> frames] \in Assemblies(k)
<1>1. frames \in UNION {[chunks -> Bodies] : chunks \in (SUBSET (1..n)) \ {{}, 1..n}}
  OBVIOUS
<1> QED BY <1>1 DEF Assemblies

LEMMA HeldFacts ==
  ASSUME NEW p, IsPending(p), NEW k \in MessageKeys
  PROVE  /\ Waiting(p, k) => p.held[k] \in Assemblies(k)
         /\ ~Waiting(p, k) => p.held[k] = NoAssembly
         /\ p.held[k] = NoAssembly <=> ~Waiting(p, k)
<1>1. p.held[k] \in IF Waiting(p, k) THEN Assemblies(k) ELSE {NoAssembly}
  BY DEF IsPending, Waiting
<1> QED BY <1>1, AssemblyFacts

LEMMA PendingType ==
  ASSUME NEW p, IsPending(p)
  PROVE  /\ p.order \in Seq(MessageKeys) /\ IsInjective(p.order) /\ Len(p.order) <= MaxPending
         /\ p.held \in [MessageKeys -> (UNION {Assemblies(k) : k \in MessageKeys}) \cup {NoAssembly}]
BY DEF IsPending

\* An assembly ends.
LEMMA OthersPending ==
  ASSUME NEW p, IsPending(p), NEW k \in MessageKeys
  PROVE  /\ IsPending(OfOthers(p, k)) /\ OfOthers(p, k).held[k] = NoAssembly
         /\ \A q \in MessageKeys \ {k} : OfOthers(p, k).held[q] = p.held[q]
         /\ Len(OfOthers(p, k).order) = IF Waiting(p, k) THEN Len(p.order) - 1 ELSE Len(p.order)
<1> DEFINE o == OfOthers(p, k)
<1>0. Len(p.order) \in Nat /\ MaxPending \in Nat
  BY PendingType, ReassemblyAssumption
<1>1. o.order = Left(p.order, k) /\ o.held = [p.held EXCEPT ![k] = NoAssembly]
      /\ o = [order |-> o.order, held |-> o.held]
  BY DEF OfOthers
<1> DEFINE ord == p.order
<1>10. ord \in Seq(MessageKeys) /\ IsInjective(ord)
  BY PendingType
<1> HIDE DEF ord
<1>11. /\ Left(ord, k) \in Seq(MessageKeys) /\ IsInjective(Left(ord, k))
       /\ \A i \in DOMAIN Left(ord, k) :
            Left(ord, k)[i] # k /\ \E j \in DOMAIN ord : ord[j] = Left(ord, k)[i]
       /\ \A i \in DOMAIN ord : ord[i] # k => \E j \in DOMAIN Left(ord, k) : Left(ord, k)[j] = ord[i]
       /\ Len(Left(ord, k)) = IF \E i \in DOMAIN ord : ord[i] = k THEN Len(ord) - 1 ELSE Len(ord)
  BY <1>10, LeftFacts
<1>2. /\ Left(p.order, k) \in Seq(MessageKeys) /\ IsInjective(Left(p.order, k))
      /\ \A i \in DOMAIN Left(p.order, k) :
           Left(p.order, k)[i] # k /\ \E j \in DOMAIN p.order : p.order[j] = Left(p.order, k)[i]
      /\ \A i \in DOMAIN p.order :
           p.order[i] # k => \E j \in DOMAIN Left(p.order, k) : Left(p.order, k)[j] = p.order[i]
      /\ Len(Left(p.order, k)) =
           IF \E i \in DOMAIN p.order : p.order[i] = k THEN Len(p.order) - 1 ELSE Len(p.order)
  BY <1>11 DEF ord
<1> HIDE DEF o
<1>3. /\ o.held \in [MessageKeys -> (UNION {Assemblies(q) : q \in MessageKeys}) \cup {NoAssembly}]
      /\ o.held[k] = NoAssembly /\ \A q \in MessageKeys \ {k} : o.held[q] = p.held[q]
  <2> DEFINE H == (UNION {Assemblies(q) : q \in MessageKeys}) \cup {NoAssembly}
  <2>1. p.held \in [MessageKeys -> H] /\ NoAssembly \in H
    BY PendingType
  <2> HIDE DEF H
  <2>2. o.held \in [MessageKeys -> H] /\ o.held[k] = NoAssembly
        /\ \A q \in MessageKeys \ {k} : o.held[q] = p.held[q]
    BY <1>1, <2>1
  <2> QED BY <2>2 DEF H
<1>4. \A q \in MessageKeys : Waiting(o, q) <=> q # k /\ Waiting(p, q)
  BY <1>1, <1>2 DEF Waiting
<1>5. \A q \in MessageKeys : o.held[q] \in IF Waiting(o, q) THEN Assemblies(q) ELSE {NoAssembly}
  BY <1>3, <1>4, HeldFacts
<1>6. Len(o.order) = IF Waiting(p, k) THEN Len(p.order) - 1 ELSE Len(p.order)
  BY <1>1, <1>2 DEF Waiting
<1>7. Len(o.order) <= MaxPending
  BY <1>0, <1>6, PendingType
<1>8. IsPending(o)
  <2>1. o \in [order : Seq(MessageKeys),
               held : [MessageKeys -> (UNION {Assemblies(q) : q \in MessageKeys}) \cup {NoAssembly}]]
    BY <1>1, <1>2, <1>3
  <2> QED BY <1>1, <1>2, <1>5, <1>7, <2>1 DEF IsPending, Waiting
<1> QED BY <1>3, <1>6, <1>8 DEF o

\* There is room for one more.
LEMMA RoomPending ==
  ASSUME NEW p, IsPending(p)
  PROVE  /\ IsPending(Room(p)) /\ Len(Room(p).order) < MaxPending
         /\ \A q \in MessageKeys : Room(p).held[q] \in {p.held[q], NoAssembly}
<1>0. p.order \in Seq(MessageKeys) /\ Len(p.order) \in Nat /\ Len(p.order) <= MaxPending
      /\ MaxPending \in Nat \ {0}
  BY PendingType, ReassemblyAssumption
<1>1. CASE Len(p.order) >= MaxPending
  <2>1. Head(p.order) \in MessageKeys /\ Waiting(p, Head(p.order))
    <3>1. 1 \in DOMAIN p.order /\ Head(p.order) = p.order[1] /\ p.order[1] \in MessageKeys
      BY <1>0, <1>1
    <3> QED BY <3>1 DEF Waiting
  <2>2. Room(p) = OfOthers(p, Head(p.order))
    BY <1>1 DEF Room
  <2>3. Len(OfOthers(p, Head(p.order)).order) = Len(p.order) - 1
    BY <2>1, OthersPending
  <2>4. IsPending(OfOthers(p, Head(p.order)))
        /\ \A q \in MessageKeys : OfOthers(p, Head(p.order)).held[q] \in {p.held[q], NoAssembly}
    BY <2>1, OthersPending
  <2>5. Len(OfOthers(p, Head(p.order)).order) < MaxPending
    BY <1>0, <2>1, <2>3
  <2> QED BY <2>2, <2>4, <2>5
<1>2. CASE ~(Len(p.order) >= MaxPending)
  BY <1>0, <1>2 DEF Room
<1> QED BY <1>1, <1>2

\* An assembly begins, or is the last to have been updated.
LEMMA UpdatedPending ==
  ASSUME NEW p, IsPending(p), NEW k \in MessageKeys, p.held[k] = NoAssembly,
         Len(p.order) < MaxPending, NEW a \in Assemblies(k)
  PROVE  IsPending([order |-> Append(p.order, k), held |-> [p.held EXCEPT ![k] = a]])
<1> DEFINE u == [order |-> Append(p.order, k), held |-> [p.held EXCEPT ![k] = a]]
<1>0. Len(p.order) \in Nat /\ MaxPending \in Nat /\ ~Waiting(p, k)
  BY PendingType, ReassemblyAssumption, HeldFacts
<1>1. /\ Append(p.order, k) \in Seq(MessageKeys) /\ IsInjective(Append(p.order, k))
      /\ Len(Append(p.order, k)) = Len(p.order) + 1
      /\ \A y \in MessageKeys : (\E i \in DOMAIN Append(p.order, k) : Append(p.order, k)[i] = y) <=>
                                   y = k \/ \E i \in DOMAIN p.order : p.order[i] = y
  <2>1. \A i \in DOMAIN p.order : p.order[i] # k
    BY <1>0 DEF Waiting
  <2> QED BY <2>1, PendingType, AppendNew
<1>2. /\ u.held \in [MessageKeys -> (UNION {Assemblies(q) : q \in MessageKeys}) \cup {NoAssembly}]
      /\ u.held[k] = a /\ \A q \in MessageKeys \ {k} : u.held[q] = p.held[q]
      /\ u.order = Append(p.order, k)
  BY PendingType
<1>3. u \in [order : Seq(MessageKeys),
             held : [MessageKeys -> (UNION {Assemblies(q) : q \in MessageKeys}) \cup {NoAssembly}]]
  BY <1>1, <1>2
<1> HIDE DEF u
<1>4. \A q \in MessageKeys : Waiting(u, q) <=> q = k \/ Waiting(p, q)
  BY <1>1, <1>2 DEF Waiting
<1>5. \A q \in MessageKeys : u.held[q] \in IF Waiting(u, q) THEN Assemblies(q) ELSE {NoAssembly}
  BY <1>2, <1>4, HeldFacts
<1>6. IsPending(u)
  BY <1>0, <1>1, <1>2, <1>3, <1>5 DEF IsPending, Waiting
<1> QED BY <1>6 DEF u

-------------------------------------------------------------------------------
(* A chunk is taken in.                                                          *)

LEMMA JoinedType ==
  ASSUME NEW f, IsChunk(f), NEW a, NEW some \in SUBSET (1..f.count), a.frames \in [some -> Bodies]
  PROVE  \E more \in (SUBSET (1..f.count)) \ {{}} : Joined(a, f) \in [more -> Bodies]
<1>1. CASE f.index \in DOMAIN a.frames /\ a.frames[f.index] # f.body
  <2>1. Joined(a, f) \in [{f.index} -> Bodies] /\ {f.index} \in (SUBSET (1..f.count)) \ {{}}
    BY <1>1 DEF Joined, Only, IsChunk
  <2> QED BY <2>1
<1>2. CASE ~(f.index \in DOMAIN a.frames /\ a.frames[f.index] # f.body)
  <2>1. Joined(a, f) = [i \in some \cup {f.index} |-> IF i = f.index THEN f.body ELSE a.frames[i]]
    BY <1>2 DEF Joined
  <2>2. some \cup {f.index} \in (SUBSET (1..f.count)) \ {{}}
    BY DEF IsChunk
  <2>3. Joined(a, f) \in [some \cup {f.index} -> Bodies]
    BY <2>1 DEF IsChunk
  <2> QED BY <2>2, <2>3
<1> QED BY <1>1, <1>2

\* The chunks of f's message that are there with f.
Together(p, f) ==
  IF Supersedes(Assembly(p, f.key), f) THEN Only(f) ELSE Joined(Assembly(p, f.key), f)

LEMMA ReassembledFacts ==
  ASSUME NEW p, IsPending(p), NEW f, IsChunk(f)
  PROVE  /\ IsPending(Reassembled(p, f).pending) /\ Reassembled(p, f).observed \in Seq(Bodies)
         /\ \A q \in MessageKeys \ {f.key} :
              Reassembled(p, f).pending.held[q] \in {p.held[q], NoAssembly}
         /\ DOMAIN Together(p, f) = 1..f.count =>
              /\ Reassembled(p, f).pending.held[f.key] = NoAssembly
              /\ Reassembled(p, f).observed = Together(p, f)
         /\ DOMAIN Together(p, f) # 1..f.count =>
              /\ Reassembled(p, f).pending.held[f.key] = [count |-> f.count, frames |-> Together(p, f)]
              /\ Reassembled(p, f).observed = <<>>
<1> DEFINE held   == Assembly(p, f.key)
           anew   == Supersedes(held, f)
           others == OfOthers(p, f.key)
           kept   == IF anew THEN Room(others) ELSE others
           frames == IF anew THEN Only(f) ELSE Joined(held, f)
           pending2 == [order |-> Append(kept.order, f.key),
                        held |-> [kept.held EXCEPT ![f.key] = [count |-> f.count, frames |-> frames]]]
<1>0. f.key \in MessageKeys /\ f.count \in Nat \ {0} /\ f.index \in 1..f.count /\ f.body \in Bodies
      /\ f.count \in Lengths[f.key]
  BY ReassemblyAssumption DEF IsChunk
<1>1. /\ IsPending(others) /\ others.held[f.key] = NoAssembly
      /\ \A q \in MessageKeys \ {f.key} : others.held[q] = p.held[q]
      /\ Len(others.order) = IF Waiting(p, f.key) THEN Len(p.order) - 1 ELSE Len(p.order)
  BY <1>0, OthersPending
<1>2. Reassembled(p, f) =
        IF DOMAIN frames = 1..f.count
          THEN [pending |-> kept, observed |-> frames]
          ELSE [pending |-> pending2, observed |-> <<>>]
  BY DEF Reassembled
<1>3. held = p.held[f.key]
  BY DEF Assembly
<1>4. ~anew => held \in Assemblies(f.key) /\ held.count = f.count /\ Waiting(p, f.key)
  <2> SUFFICES ASSUME ~anew PROVE held \in Assemblies(f.key) /\ held.count = f.count /\ Waiting(p, f.key)
    OBVIOUS
  <2>1. held.count = f.count /\ held # NoAssembly
    BY <1>0 DEF Supersedes, NoAssembly
  <2> QED BY <1>0, <1>3, <2>1, HeldFacts
<1>5. /\ IsPending(kept) /\ kept.held[f.key] = NoAssembly /\ Len(kept.order) < MaxPending
      /\ \A q \in MessageKeys \ {f.key} : kept.held[q] \in {p.held[q], NoAssembly}
  <2>1. CASE anew
    <3>1. kept = Room(others)
      BY <2>1
    <3> HIDE DEF kept, others, anew, held
    <3> QED BY <1>0, <1>1, <3>1, RoomPending
  <2>2. CASE ~anew
    <3>1. kept = others /\ Waiting(p, f.key)
      BY <1>4, <2>2
    <3>2. Len(p.order) \in Nat /\ MaxPending \in Nat /\ Len(p.order) <= MaxPending
      BY PendingType, ReassemblyAssumption
    <3> HIDE DEF kept, others, anew, held
    <3> QED BY <1>1, <3>1, <3>2
  <2> QED BY <2>1, <2>2
<1>6. \E some \in (SUBSET (1..f.count)) \ {{}} : frames \in [some -> Bodies]
  <2>1. CASE anew
    <3>1. frames \in [{f.index} -> Bodies] /\ {f.index} \in (SUBSET (1..f.count)) \ {{}}
      BY <1>0, <2>1 DEF Only
    <3> QED BY <3>1
  <2>2. CASE ~anew
    <3>1. frames = Joined(held, f)
      BY <2>2
    <3>2. DOMAIN held.frames \in SUBSET (1..f.count) /\ held.frames \in [DOMAIN held.frames -> Bodies]
      <4>1. \E n \in Lengths[f.key] :
              held \in [count : {n}, frames : UNION {[some -> Bodies] : some \in (SUBSET (1..n)) \ {{}, 1..n}}]
        BY <1>4, <2>2 DEF Assemblies
      <4>2. \E some \in SUBSET (1..f.count) : held.frames \in [some -> Bodies]
        BY <1>4, <2>2, <4>1
      <4> QED BY <4>2
    <3> HIDE DEF held, frames, anew
    <3> QED BY <3>1, <3>2, JoinedType
  <2> QED BY <2>1, <2>2
<1>f. frames = Together(p, f)
  BY DEF Together
<1> HIDE DEF held, anew, others, kept, frames
<1>7. CASE DOMAIN frames = 1..f.count
  <2>1. frames \in [1..f.count -> Bodies]
    BY <1>6, <1>7
  <2>2. frames \in Seq(Bodies)
    BY <1>0, <2>1, FunctionIsSequence
  <2>3. Reassembled(p, f).pending = kept /\ Reassembled(p, f).observed = frames
    BY <1>2, <1>7
  <2>4. /\ IsPending(Reassembled(p, f).pending) /\ Reassembled(p, f).observed \in Seq(Bodies)
        /\ \A q \in MessageKeys \ {f.key} :
             Reassembled(p, f).pending.held[q] \in {p.held[q], NoAssembly}
        /\ Reassembled(p, f).pending.held[f.key] = NoAssembly
    BY <1>5, <2>2, <2>3
  <2> QED BY <1>f, <1>7, <2>3, <2>4
<1>8. CASE DOMAIN frames # 1..f.count
  <2>1. [count |-> f.count, frames |-> frames] \in Assemblies(f.key)
    <3>1. PICK some \in (SUBSET (1..f.count)) \ {{}} : frames \in [some -> Bodies]
      BY <1>6
    <3>2. some \in (SUBSET (1..f.count)) \ {{}, 1..f.count}
      BY <1>8, <3>1
    <3> QED BY <1>0, <3>1, <3>2, IsAssembly
  <2>2. IsPending(pending2)
    BY <1>0, <1>5, <2>1, UpdatedPending
  <2>3. \A q \in MessageKeys \ {f.key} : pending2.held[q] = kept.held[q]
    BY <1>5, PendingType
  <2>4. <<>> \in Seq(Bodies)
    OBVIOUS
  <2>5. Reassembled(p, f).pending = pending2 /\ Reassembled(p, f).observed = <<>>
    BY <1>2, <1>8
  <2>6. pending2.held[f.key] = [count |-> f.count, frames |-> frames]
    BY <1>0, <1>5, PendingType
  <2> HIDE DEF pending2
  <2> QED BY <1>f, <1>5, <1>8, <2>2, <2>3, <2>4, <2>5, <2>6
<1> QED BY <1>7, <1>8

LEMMA ReassembledKeeps ==
  ASSUME NEW p, IsPending(p), NEW f, IsChunk(f)
  PROVE  /\ IsPending(Reassembled(p, f).pending) /\ Reassembled(p, f).observed \in Seq(Bodies)
         /\ \A q \in MessageKeys \ {f.key} :
              Reassembled(p, f).pending.held[q] \in {p.held[q], NoAssembly}
BY ReassembledFacts

\* The message is complete with f, or it is not.
LEMMA ReassembledWhole ==
  ASSUME NEW p, IsPending(p), NEW f, IsChunk(f), NEW w, Together(p, f) = w, DOMAIN w = 1..f.count
  PROVE  /\ Reassembled(p, f).pending.held[f.key] = NoAssembly
         /\ Reassembled(p, f).observed = w
<1>1. DOMAIN Together(p, f) = 1..f.count
  OBVIOUS
<1>2. /\ Reassembled(p, f).pending.held[f.key] = NoAssembly
      /\ Reassembled(p, f).observed = Together(p, f)
  BY <1>1, ReassembledFacts
<1> QED BY <1>2

LEMMA ReassembledPart ==
  ASSUME NEW p, IsPending(p), NEW f, IsChunk(f), NEW w, Together(p, f) = w, DOMAIN w # 1..f.count
  PROVE  /\ Reassembled(p, f).pending.held[f.key] = [count |-> f.count, frames |-> w]
         /\ Reassembled(p, f).observed = <<>>
<1>1. DOMAIN Together(p, f) # 1..f.count
  OBVIOUS
<1>2. /\ Reassembled(p, f).pending.held[f.key] = [count |-> f.count, frames |-> Together(p, f)]
      /\ Reassembled(p, f).observed = <<>>
  BY <1>1, ReassembledFacts
<1> QED BY <1>2

LEMMA HandledKeeps ==
  ASSUME NEW p, IsPending(p), NEW f, IsChunk(f)
  PROVE  /\ IsPending(Handled(p, f).pending) /\ Handled(p, f).observed \in Seq(Bodies)
         /\ \A q \in MessageKeys \ {f.key} :
              Handled(p, f).pending.held[q] \in {p.held[q], NoAssembly}
<1>1. f.key \in MessageKeys /\ <<f.body>> \in Seq(Bodies)
  BY DEF IsChunk
<1>2. CASE f.body \in Pages /\ ~Continues(p, f)
  <2>1. /\ Handled(p, f).pending = IF f.index = 1 THEN OfOthers(p, f.key) ELSE p
        /\ Handled(p, f).observed = <<f.body>>
    BY <1>2 DEF Handled
  <2> QED BY <1>1, <2>1, OthersPending
<1>3. CASE ~(f.body \in Pages /\ ~Continues(p, f)) /\ f.count = 1
  <2>1. Handled(p, f).pending = p /\ Handled(p, f).observed = <<f.body>>
    BY <1>3 DEF Handled
  <2> QED BY <1>1, <2>1
<1>4. CASE ~(f.body \in Pages /\ ~Continues(p, f)) /\ f.count # 1
  <2>1. Handled(p, f) = Reassembled(p, f)
    BY <1>4 DEF Handled
  <2> QED BY <2>1, ReassembledKeeps
<1> QED BY <1>2, <1>3, <1>4

-------------------------------------------------------------------------------
(* What Handled does with the chunk's own message.                               *)

\* A page that continues nothing.
LEMMA PageHandled ==
  ASSUME NEW p, IsPending(p), NEW f, IsChunk(f), f.body \in Pages,
         f.index = 1 \/ p.held[f.key] = NoAssembly
  PROVE  /\ Handled(p, f).pending.held[f.key] = NoAssembly
         /\ Handled(p, f).observed = <<f.body>>
<1>0. f.key \in MessageKeys /\ f.count \in Nat \ {0} /\ f.index \in 1..f.count
  BY ReassemblyAssumption DEF IsChunk
<1>1. ~Continues(p, f)
  BY <1>0 DEF Continues, Assembly, NoAssembly
<1>2. /\ Handled(p, f).pending = IF f.index = 1 THEN OfOthers(p, f.key) ELSE p
      /\ Handled(p, f).observed = <<f.body>>
  BY <1>1 DEF Handled
<1> QED BY <1>0, <1>2, OthersPending

\* A text of one chunk.
LEMMA LoneHandled ==
  ASSUME NEW p, NEW f, f.body \in Fragments, f.count = 1
  PROVE  Handled(p, f).pending = p /\ Handled(p, f).observed = <<f.body>>
BY ReassemblyAssumption DEF Handled

\* The first chunk of a text.
LEMMA FirstHandled ==
  ASSUME NEW p, IsPending(p), NEW f, IsChunk(f), f.body \in Fragments, f.index = 1, f.count # 1,
         Supersedes(Assembly(p, f.key), f)
  PROVE  /\ Handled(p, f).pending.held[f.key] = [count |-> f.count, frames |-> <<f.body>>]
         /\ Handled(p, f).observed = <<>>
<1>0. f.count \in Nat \ {0} /\ f.body \in Bodies
  BY ReassemblyAssumption DEF IsChunk
<1>1. Handled(p, f) = Reassembled(p, f)
  BY ReassemblyAssumption DEF Handled
<1>2. Together(p, f) = <<f.body>>
  BY <1>0, OneIsSequence DEF Together, Only
<1>3. DOMAIN Together(p, f) # 1..f.count
  BY <1>0, <1>2
<1> DEFINE w == <<f.body>>
<1>4. Together(p, f) = w /\ DOMAIN w # 1..f.count
  BY <1>2, <1>3
<1> HIDE DEF w
<1>5. /\ Reassembled(p, f).pending.held[f.key] = [count |-> f.count, frames |-> w]
      /\ Reassembled(p, f).observed = <<>>
  BY <1>4, ReassembledPart
<1> QED BY <1>1, <1>5 DEF w

\* The next chunk of a text.
LEMMA NextHandled ==
  ASSUME NEW p, IsPending(p), NEW f, IsChunk(f), NEW w \in Seq(Bodies), w # <<>>,
         p.held[f.key] = [count |-> f.count, frames |-> w], f.index = Len(w) + 1
  PROVE  /\ f.index = f.count =>
              /\ Handled(p, f).pending.held[f.key] = NoAssembly
              /\ Handled(p, f).observed = Append(w, f.body)
         /\ f.index # f.count =>
              /\ Handled(p, f).pending.held[f.key] = [count |-> f.count, frames |-> Append(w, f.body)]
              /\ Handled(p, f).observed = <<>>
<1>0. /\ f.count \in Nat \ {0} /\ f.index \in 1..f.count /\ f.body \in Bodies
      /\ Len(w) \in Nat \ {0} /\ DOMAIN w = 1..Len(w) /\ f.count # 1
  <2>1. Len(w) # 0 /\ Len(w) \in Nat /\ DOMAIN w = 1..Len(w)
    OBVIOUS
  <2>2. f.count \in Nat \ {0} /\ f.index \in 1..f.count /\ f.body \in Bodies
    BY ReassemblyAssumption DEF IsChunk
  <2> QED BY <2>1, <2>2
<1>1. Assembly(p, f.key) = [count |-> f.count, frames |-> w]
  BY DEF Assembly
<1>2. Handled(p, f) = Reassembled(p, f)
  BY <1>0, <1>1 DEF Handled, Continues
<1>3. Together(p, f) = Append(w, f.body)
  <2>1. Together(p, f) = Joined([count |-> f.count, frames |-> w], f)
    BY <1>0, <1>1 DEF Together, Supersedes
  <2>2. f.index \notin DOMAIN w
    BY <1>0
  <2>3. Together(p, f) = [i \in DOMAIN w \cup {f.index} |-> IF i = f.index THEN f.body ELSE w[i]]
    BY <2>1, <2>2 DEF Joined
  <2> QED BY <1>0, <2>3, JoinedIsAppend
<1>4. /\ Append(w, f.body) \in Seq(Bodies) /\ Len(Append(w, f.body)) = f.index
      /\ DOMAIN Append(w, f.body) = 1..f.index
  BY <1>0
<1>5. CASE f.index = f.count
  <2> QED BY <1>2, <1>3, <1>4, <1>5, ReassembledWhole
<1>6. CASE f.index # f.count
  <2>1. 1..f.index # 1..f.count
    BY <1>0, <1>6
  <2> QED BY <1>2, <1>3, <1>4, <1>6, <2>1, ReassembledPart
<1> QED BY <1>5, <1>6

\* The chunk of a text that came last, but not its end, once more.
LEMMA SameHandled ==
  ASSUME NEW p, IsPending(p), NEW f, IsChunk(f), NEW w \in Seq(Bodies),
         p.held[f.key] = [count |-> f.count, frames |-> w], f.index = Len(w),
         w[f.index] = f.body, f.index # f.count, f.index = 1 => f.body \in Fragments
  PROVE  /\ Handled(p, f).pending.held[f.key] = p.held[f.key]
         /\ Handled(p, f).observed = <<>>
<1>0. /\ f.count \in Nat \ {0} /\ f.index \in 1..f.count /\ f.count # 1
      /\ DOMAIN w = 1..Len(w)
  BY ReassemblyAssumption DEF IsChunk
<1>1. Assembly(p, f.key) = [count |-> f.count, frames |-> w]
  BY DEF Assembly
<1>2. Handled(p, f) = Reassembled(p, f)
  BY <1>0, <1>1, ReassemblyAssumption DEF Handled, Continues
<1>3. Together(p, f) = w
  <2>1. Together(p, f) = Joined([count |-> f.count, frames |-> w], f)
    BY <1>0, <1>1 DEF Together, Supersedes
  <2>2. f.index \in DOMAIN w /\ DOMAIN w \cup {f.index} = DOMAIN w
    BY <1>0
  <2>3. Together(p, f) = [i \in DOMAIN w |-> IF i = f.index THEN f.body ELSE w[i]]
    BY <2>1, <2>2 DEF Joined
  <2>4. [i \in DOMAIN w |-> w[i]] = w
    OBVIOUS
  <2> QED BY <2>3, <2>4
<1>4. DOMAIN w # 1..f.count
  BY <1>0
<1> QED BY <1>2, <1>3, <1>4, ReassembledPart

-------------------------------------------------------------------------------
(* The device and the assemblies keep step.                                      *)

Carried(k) == brFrame # NoChunk /\ brFrame.key = k
AtEnd == brFrame.index = brFrame.count

\* Nothing has come between: what the device has sent of the message of k is what is
\* held of it, a text as its assembly and pages as nothing, and after a message there
\* is nothing left.
Followed(k) ==
  LET m == brSending[k]
      w == brWhole[k]
  IN  IF m = Between
        THEN brPending.held[k] = NoAssembly /\ (w # <<>> => Carried(k) /\ AtEnd)
        ELSE /\ Len(w) = m.sent /\ (m.pages <=> w[1] \in Pages)
             /\ brPending.held[k] = IF m.pages THEN NoAssembly ELSE [count |-> m.count, frames |-> w]

KeyInv(k) ==
  IF k \in brTroubled THEN brWhole[k] # <<>> => Carried(k) /\ AtEnd ELSE Followed(k)

\* The chunk in flight is the last one that the device has sent of its key.
FlightInv ==
  brFrame # NoChunk =>
    LET m == brSending[brFrame.key]
        w == brWhole[brFrame.key]
    IN  IF AtEnd THEN m = Between
        ELSE /\ m.sent = brFrame.index /\ m.count = brFrame.count
             /\ m.pages => brFrame.body \in Pages
             /\ w # <<>> => w[brFrame.index] = brFrame.body

BrInv == BrTypeOK /\ (\A k \in MessageKeys : KeyInv(k)) /\ FlightInv /\ MessagesAreWhole

LEMMA SendingFacts ==
  ASSUME BrTypeOK, NEW k \in MessageKeys
  PROVE  /\ brSending[k] \in [count : Nat, sent : Nat, pages : BOOLEAN]
         /\ brSending[k] = Between => brSending[k].sent = 0
         /\ brSending[k] # Between =>
              brSending[k].count \in Lengths[k] /\ brSending[k].sent \in 1 .. brSending[k].count - 1
BY DEF BrTypeOK, Between

LEMMA NextFacts ==
  ASSUME BrTypeOK, NEW k \in MessageKeys, NEW f \in NextChunks(k)
  PROVE  /\ IsChunk(f) /\ f.key = k /\ f.index \in Nat /\ f.count \in Nat /\ f.body \in Bodies
         /\ f.index = brSending[k].sent + 1
         /\ brSending[k] = Between => f.index = 1
         /\ brSending[k] # Between =>
              /\ f.index > 1 /\ f.count = brSending[k].count
              /\ brSending[k].pages => f.body \in Pages
<1>0. /\ f.key = k /\ f.index = brSending[k].sent + 1 /\ f.count \in Lengths[k] /\ f.body \in Bodies
      /\ brSending[k].sent > 0 =>
           f.count = brSending[k].count /\ (brSending[k].pages => f.body \in Pages)
  BY DEF NextChunks
<1>1. f.count \in Nat \ {0}
  BY <1>0, ReassemblyAssumption
<1>2. CASE brSending[k] = Between
  BY <1>0, <1>1, <1>2, SendingFacts DEF IsChunk
<1>3. CASE brSending[k] # Between
  <2>1. /\ brSending[k].sent \in Nat /\ brSending[k].sent > 0 /\ brSending[k].count \in Nat
        /\ brSending[k].sent <= brSending[k].count - 1
    BY <1>3, SendingFacts
  <2>2. f.count = brSending[k].count /\ (brSending[k].pages => f.body \in Pages)
    BY <1>0, <2>1
  <2> QED BY <1>0, <1>1, <1>3, <2>1, <2>2 DEF IsChunk
<1> QED BY <1>2, <1>3

LEMMA SentFacts ==
  ASSUME BrTypeOK, NEW k \in MessageKeys, NEW f \in NextChunks(k), Sent(f)
  PROVE  /\ brSending' \in [MessageKeys -> [count : Nat, sent : Nat, pages : BOOLEAN]]
         /\ \A q \in MessageKeys :
              \/ brSending'[q] = Between
              \/ brSending'[q].count \in Lengths[q] /\ brSending'[q].sent \in 1 .. brSending'[q].count - 1
         /\ \A q \in MessageKeys \ {k} : brSending'[q] = brSending[q]
         /\ f.index = f.count => brSending'[k] = Between
         /\ f.index # f.count =>
              /\ brSending'[k] # Between
              /\ brSending'[k].count = f.count /\ brSending'[k].sent = f.index
              /\ brSending'[k].pages = IF f.index = 1 THEN f.body \in Pages ELSE brSending[k].pages
<1>0. /\ f.key = k /\ f.index \in Nat /\ f.count \in Nat /\ f.count \in Lengths[k]
      /\ f.index \in 1..f.count
  BY NextFacts DEF IsChunk
<1> DEFINE next == IF f.index = f.count THEN Between
                   ELSE [count |-> f.count, sent |-> f.index,
                         pages |-> IF f.index = 1 THEN f.body \in Pages ELSE brSending[k].pages]
<1>1. brSending' = [brSending EXCEPT ![k] = next]
  BY <1>0 DEF Sent
<1>2. next \in [count : Nat, sent : Nat, pages : BOOLEAN]
  <2>1. brSending[k].pages \in BOOLEAN
    BY SendingFacts
  <2>2. (f.body \in Pages) \in BOOLEAN
    OBVIOUS
  <2>3. (IF f.index = 1 THEN f.body \in Pages ELSE brSending[k].pages) \in BOOLEAN
    BY <2>1, <2>2
  <2> QED BY <1>0, <2>3 DEF Between
<1>3. /\ f.index = f.count => next = Between
      /\ f.index # f.count =>
           /\ next.sent # 0 /\ next.count = f.count /\ next.sent = f.index
           /\ next.pages = IF f.index = 1 THEN f.body \in Pages ELSE brSending[k].pages
  BY <1>0
<1>4. next = Between \/ (next.count \in Lengths[k] /\ next.sent \in 1 .. next.count - 1)
  BY <1>0, <1>3
<1> HIDE DEF next
<1>5. /\ brSending'[k] = next /\ \A q \in MessageKeys \ {k} : brSending'[q] = brSending[q]
      /\ brSending' \in [MessageKeys -> [count : Nat, sent : Nat, pages : BOOLEAN]]
  BY <1>1, <1>2 DEF BrTypeOK
<1>6. f.index # f.count => next # Between
  BY <1>3 DEF Between
<1>7. ASSUME NEW q \in MessageKeys
      PROVE  \/ brSending'[q] = Between
             \/ brSending'[q].count \in Lengths[q] /\ brSending'[q].sent \in 1 .. brSending'[q].count - 1
  <2>1. CASE q = k
    BY <1>4, <1>5, <2>1
  <2>2. CASE q # k
    BY <1>5, <2>2, SendingFacts
  <2> QED BY <2>1, <2>2
<1> QED BY <1>3, <1>5, <1>6, <1>7

\* A key that the step does not touch.
LEMMA SameKey ==
  ASSUME NEW q \in MessageKeys, KeyInv(q),
         brSending'[q] = brSending[q], brPending'.held[q] = brPending.held[q],
         brWhole'[q] = brWhole[q], q \in brTroubled' <=> q \in brTroubled,
         Carried(q) /\ AtEnd /\ brWhole[q] # <<>> => Carried(q)' /\ AtEnd'
  PROVE  KeyInv(q)'
BY DEF KeyInv, Followed

LEMMA LostKey ==
  ASSUME NEW q \in MessageKeys, q \in brTroubled', brWhole'[q] = <<>> PROVE KeyInv(q)'
BY DEF KeyInv

LEMMA DisturbsType ==
  ASSUME BrTypeOK, NEW keys \in SUBSET MessageKeys, Disturbs(keys)
  PROVE  /\ brWhole' \in [MessageKeys -> Seq(Bodies)] /\ brTroubled' \subseteq MessageKeys
         /\ \A q \in keys : q \in brTroubled' /\ brWhole'[q] = <<>>
         /\ \A q \in MessageKeys \ keys :
              brWhole'[q] = brWhole[q] /\ (q \in brTroubled' <=> q \in brTroubled)
<1>1. <<>> \in Seq(Bodies)
  OBVIOUS
<1> QED BY <1>1 DEF Disturbs, BrTypeOK

-------------------------------------------------------------------------------
(* The steps beside the notifications.                                           *)

LEMMA NothingIsPending ==
  /\ IsPending(NothingPending) /\ \A k \in MessageKeys : NothingPending.held[k] = NoAssembly
<1>1. /\ NothingPending.order = <<>> /\ \A k \in MessageKeys : NothingPending.held[k] = NoAssembly
      /\ NothingPending.order \in Seq(MessageKeys) /\ Len(NothingPending.order) = 0
      /\ DOMAIN NothingPending.order = {}
  BY DEF NothingPending
<1>2. IsInjective(NothingPending.order)
  BY <1>1 DEF IsInjective
<1>3. NothingPending \in
        [order : Seq(MessageKeys),
         held : [MessageKeys -> (UNION {Assemblies(k) : k \in MessageKeys}) \cup {NoAssembly}]]
  <2> DEFINE H == (UNION {Assemblies(k) : k \in MessageKeys}) \cup {NoAssembly}
  <2>1. NoAssembly \in H
    OBVIOUS
  <2> HIDE DEF H
  <2>2. NothingPending \in [order : Seq(MessageKeys), held : [MessageKeys -> H]]
    BY <2>1 DEF NothingPending
  <2> QED BY <2>2 DEF H
<1>4. Len(NothingPending.order) <= MaxPending
  BY <1>1, ReassemblyAssumption
<1>5. \A k \in MessageKeys :
        NothingPending.held[k] \in
          IF \E i \in DOMAIN NothingPending.order : NothingPending.order[i] = k
            THEN Assemblies(k) ELSE {NoAssembly}
  BY <1>1
<1> QED BY <1>1, <1>2, <1>3, <1>4, <1>5 DEF IsPending

LEMMA BetweenType == Between \in [count : Nat, sent : Nat, pages : BOOLEAN]
BY DEF Between

LEMMA BrInvInit == BrInit => BrInv
<1> SUFFICES ASSUME BrInit PROVE BrInv
  OBVIOUS
<1>1. BrTypeOK
  <2>1. <<>> \in Seq(Bodies)
    OBVIOUS
  <2> QED BY <2>1, NothingIsPending, BetweenType DEF BrInit, BrTypeOK
<1>2. \A k \in MessageKeys : KeyInv(k)
  BY NothingIsPending DEF BrInit, KeyInv, Followed
<1>3. FlightInv /\ MessagesAreWhole
  BY DEF BrInit, FlightInv, MessagesAreWhole, Undisturbed
<1> QED BY <1>1, <1>2, <1>3 DEF BrInv

LEMMA LostKeeps == ASSUME BrInv, NEW k \in MessageKeys, ChunkLost(k) PROVE BrInv'
<1>0. BrTypeOK /\ brFrame = NoChunk /\ brFrame' = NoChunk /\ brPending' = brPending
      /\ brObserved' = brObserved /\ Disturbs({k})
  BY DEF BrInv, ChunkLost
<1>1. PICK f \in NextChunks(k) : Sent(f)
  BY DEF ChunkLost
<1>2. BrTypeOK'
  BY <1>0, <1>1, SentFacts, DisturbsType DEF BrTypeOK
<1>3. ASSUME NEW q \in MessageKeys PROVE KeyInv(q)'
  <2>1. CASE q = k
    BY <1>0, <2>1, DisturbsType, LostKey
  <2>2. CASE q # k
    <3>1. /\ brSending'[q] = brSending[q] /\ brWhole'[q] = brWhole[q]
          /\ q \in brTroubled' <=> q \in brTroubled
      BY <1>0, <1>1, <2>2, SentFacts, DisturbsType
    <3>2. KeyInv(q) /\ ~Carried(q)
      BY <1>0 DEF BrInv, Carried
    <3> QED BY <1>0, <3>1, <3>2, SameKey
  <2> QED BY <2>1, <2>2
<1>4. FlightInv' /\ MessagesAreWhole'
  BY <1>0 DEF FlightInv, MessagesAreWhole, Undisturbed
<1> QED BY <1>2, <1>3, <1>4 DEF BrInv

LEMMA ExpiresKeeps == ASSUME BrInv, Expires PROVE BrInv'
<1>0. BrTypeOK /\ brFrame = NoChunk /\ UNCHANGED <<brSending, brFrame, brObserved>>
      /\ IsPending(brPending)
  BY DEF BrInv, Expires, BrTypeOK
<1>1. PICK n \in DOMAIN brPending.order :
        /\ brPending' = [order |-> SubSeq(brPending.order, n + 1, Len(brPending.order)),
                         held |-> [k \in MessageKeys |->
                            IF k \in {brPending.order[i] : i \in 1..n} THEN NoAssembly
                            ELSE brPending.held[k]]]
        /\ Disturbs({brPending.order[i] : i \in 1..n})
  BY DEF Expires
<1> DEFINE order == brPending.order
           expired == {order[i] : i \in 1..n}
           later == SubSeq(order, n + 1, Len(order))
<1>2. /\ order \in Seq(MessageKeys) /\ IsInjective(order) /\ Len(order) \in Nat
      /\ Len(order) <= MaxPending /\ MaxPending \in Nat /\ n \in 1..Len(order)
  BY <1>0, <1>1, PendingType, ReassemblyAssumption
<1>3. expired \in SUBSET MessageKeys
  BY <1>2
<1>4. /\ later \in Seq(MessageKeys) /\ IsInjective(later) /\ Len(later) = Len(order) - n
      /\ \A k \in MessageKeys :
           (\E i \in DOMAIN later : later[i] = k) <=> k \notin expired /\ Waiting(brPending, k)
  <2> HIDE DEF order
  <2>1. later \in Seq(MessageKeys) /\ IsInjective(later) /\ Len(later) = Len(order) - n
    BY <1>2, BehindFacts
  <2>2. \A k \in MessageKeys : Among(later, k) <=> ~Among(SubSeq(order, 1, n), k) /\ Among(order, k)
    BY <1>2, BehindHas
  <2> HIDE DEF later
  <2>3. \A k \in MessageKeys : Among(SubSeq(order, 1, n), k) <=> k \in expired
    <3>1. DOMAIN SubSeq(order, 1, n) = 1..n /\ \A i \in 1..n : SubSeq(order, 1, n)[i] = order[i]
      BY <1>2
    <3> QED BY <3>1 DEF Among
  <2> QED BY <2>1, <2>2, <2>3 DEF order, Waiting, Among
<1>7. /\ brPending'.order = later
      /\ \A k \in MessageKeys :
           brPending'.held[k] = IF k \in expired THEN NoAssembly ELSE brPending.held[k]
  BY <1>1
<1>8. IsPending(brPending')
  <2>1. brPending' \in
          [order : Seq(MessageKeys),
           held : [MessageKeys -> (UNION {Assemblies(k) : k \in MessageKeys}) \cup {NoAssembly}]]
    <3> DEFINE H == (UNION {Assemblies(k) : k \in MessageKeys}) \cup {NoAssembly}
    <3>1. NoAssembly \in H /\ brPending.held \in [MessageKeys -> H]
      BY <1>0, PendingType
    <3> HIDE DEF H, expired, later
    <3>2. brPending' = [order |-> later, held |-> [k \in MessageKeys |->
                            IF k \in expired THEN NoAssembly ELSE brPending.held[k]]]
      BY <1>1 DEF expired, later
    <3>3. brPending' \in [order : Seq(MessageKeys), held : [MessageKeys -> H]]
      BY <1>4, <3>1, <3>2
    <3> QED BY <3>3 DEF H
  <2> HIDE DEF later, expired
  <2>2. Len(later) <= MaxPending
    BY <1>2, <1>4
  <2>3. \A k \in MessageKeys :
          brPending'.held[k] \in
            IF \E i \in DOMAIN later : later[i] = k THEN Assemblies(k) ELSE {NoAssembly}
    BY <1>0, <1>4, <1>7, HeldFacts
  <2> QED BY <1>4, <1>7, <2>1, <2>2, <2>3 DEF IsPending
<1> HIDE DEF order, expired, later
<1>9. BrTypeOK'
  <2>1. Disturbs(expired)
    BY <1>1 DEF expired, order
  <2> QED BY <1>0, <1>3, <1>8, <2>1, DisturbsType DEF BrTypeOK
<1>10. ASSUME NEW q \in MessageKeys PROVE KeyInv(q)'
  <2>1. Disturbs(expired)
    BY <1>1 DEF expired, order
  <2>2. CASE q \in expired
    BY <1>0, <1>3, <2>1, <2>2, DisturbsType, LostKey
  <2>3. CASE q \notin expired
    <3>1. /\ brSending'[q] = brSending[q] /\ brWhole'[q] = brWhole[q]
          /\ q \in brTroubled' <=> q \in brTroubled
      BY <1>0, <1>3, <2>1, <2>3, DisturbsType
    <3>2. KeyInv(q) /\ ~Carried(q) /\ brPending'.held[q] = brPending.held[q]
      BY <1>0, <1>7, <2>3 DEF BrInv, Carried
    <3> QED BY <3>1, <3>2, SameKey
  <2> QED BY <2>2, <2>3
<1>11. FlightInv' /\ MessagesAreWhole'
  BY <1>0 DEF FlightInv, MessagesAreWhole, Undisturbed
<1> QED BY <1>9, <1>10, <1>11 DEF BrInv

LEMMA ReconnectsKeeps == ASSUME BrInv, Reconnects PROVE BrInv'
<1>0. /\ brFrame' = NoChunk /\ brPending' = NothingPending /\ brTroubled' = {}
      /\ brSending' = [k \in MessageKeys |-> Between] /\ brWhole' = [k \in MessageKeys |-> <<>>]
      /\ brObserved' \in Seq(Bodies)
  BY DEF BrInv, BrTypeOK, Reconnects
<1>1. BrTypeOK'
  <2>1. <<>> \in Seq(Bodies)
    OBVIOUS
  <2> QED BY <1>0, <2>1, NothingIsPending, BetweenType DEF BrTypeOK
<1>2. \A k \in MessageKeys : KeyInv(k)'
  BY <1>0, NothingIsPending DEF KeyInv, Followed
<1>3. FlightInv' /\ MessagesAreWhole'
  BY <1>0 DEF FlightInv, MessagesAreWhole, Undisturbed
<1> QED BY <1>1, <1>2, <1>3 DEF BrInv

LEMMA FrameFacts ==
  ASSUME BrTypeOK, brFrame # NoChunk
  PROVE  /\ brFrame \in [key : MessageKeys, index : Nat, count : Nat, body : Bodies,
                         at : {"sink", "lost"}, again : BOOLEAN]
         /\ IsChunk(brFrame) /\ brFrame.key \in MessageKeys /\ brFrame.body \in Bodies
         /\ brFrame.count \in Nat \ {0} /\ brFrame.index \in 1..brFrame.count
BY DEF BrTypeOK, IsChunk

LEMMA DeliveryLostKeeps == ASSUME BrInv, DeliveryLost PROVE BrInv'
<1>0. BrTypeOK /\ brFrame.at = "sink" /\ brFrame # NoChunk
      /\ brFrame' = [brFrame EXCEPT !.at = "lost"]
      /\ UNCHANGED <<brSending, brPending, brObserved, brWhole, brTroubled>>
  BY DEF BrInv, DeliveryLost, NoChunk, history
<1>1. /\ brFrame' \in [key : MessageKeys, index : Nat, count : Nat, body : Bodies,
                       at : {"sink", "lost"}, again : BOOLEAN]
      /\ brFrame' # NoChunk /\ brFrame'.key = brFrame.key /\ brFrame'.index = brFrame.index
      /\ brFrame'.count = brFrame.count /\ brFrame'.body = brFrame.body
      /\ brFrame'.again = brFrame.again /\ brFrame'.at = "lost"
  BY <1>0, FrameFacts DEF NoChunk
<1>2. BrTypeOK'
  BY <1>0, <1>1, FrameFacts DEF BrTypeOK, IsChunk
<1>3. ASSUME NEW q \in MessageKeys PROVE KeyInv(q)'
  BY <1>0, <1>1, SameKey DEF BrInv, Carried, AtEnd
<1>4. FlightInv'
  BY <1>0, <1>1 DEF BrInv, FlightInv, AtEnd
<1>5. MessagesAreWhole'
  BY <1>0, <1>1 DEF BrInv, MessagesAreWhole, Undisturbed, Expected
<1> QED BY <1>2, <1>3, <1>4, <1>5 DEF BrInv

LEMMA DeliveredKeeps == ASSUME BrInv, Delivered PROVE BrInv'
<1>0. BrTypeOK /\ brFrame # NoChunk /\ brFrame' = NoChunk /\ brObserved' = <<>>
      /\ UNCHANGED <<brSending, brPending, brTroubled>>
      /\ brWhole' = [brWhole EXCEPT ![brFrame.key] = IF AtEnd THEN <<>> ELSE @]
  BY DEF BrInv, Delivered, NoChunk, AtEnd
<1>1. /\ brWhole' \in [MessageKeys -> Seq(Bodies)]
      /\ brWhole'[brFrame.key] = (IF AtEnd THEN <<>> ELSE brWhole[brFrame.key])
      /\ \A q \in MessageKeys \ {brFrame.key} : brWhole'[q] = brWhole[q]
  BY <1>0, FrameFacts DEF BrTypeOK
<1>2. BrTypeOK'
  BY <1>0, <1>1 DEF BrTypeOK
<1>3. ASSUME NEW q \in MessageKeys PROVE KeyInv(q)'
  <2>1. CASE q # brFrame.key
    BY <1>0, <1>1, <2>1, SameKey DEF BrInv, Carried
  <2>2. CASE q = brFrame.key /\ AtEnd
    BY <1>0, <1>1, <2>2 DEF BrInv, KeyInv, Followed, FlightInv
  <2>3. CASE q = brFrame.key /\ ~AtEnd
    <3>1. brFrame.index # 0 /\ brSending[q].sent = brFrame.index
      BY <1>0, <2>3, FrameFacts DEF BrInv, FlightInv
    <3>2. brSending[q] # Between
      BY <1>0, <3>1, SendingFacts
    <3> QED BY <1>0, <1>1, <2>3, <3>2 DEF BrInv, KeyInv, Followed
  <2> QED BY <2>1, <2>2, <2>3
<1>4. FlightInv' /\ MessagesAreWhole'
  BY <1>0 DEF FlightInv, MessagesAreWhole, Undisturbed
<1> QED BY <1>2, <1>3, <1>4 DEF BrInv

LEMMA HandledAgainKeeps == ASSUME BrInv, HandledAgain PROVE BrInv'
<1>k. PICK k \in MessageKeys : k = brFrame.key
  BY FrameFacts DEF BrInv, HandledAgain, NoChunk
<1> DEFINE w == brWhole[k]
           after == Handled(brPending, brFrame)
           gone == GivenUp(after.pending) \ {k}
           last == IF AtEnd THEN {k} ELSE {}
<1>0. /\ BrTypeOK /\ IsPending(brPending) /\ brFrame # NoChunk
      /\ brFrame' = [brFrame EXCEPT !.at = "sink", !.again = TRUE] /\ brSending' = brSending
      /\ brPending' = after.pending /\ brObserved' = after.observed
      /\ brTroubled' = brTroubled \cup gone \cup last
      /\ brWhole' = [q \in MessageKeys |-> IF q \in gone THEN <<>> ELSE brWhole[q]]
  BY <1>k DEF BrInv, BrTypeOK, HandledAgain, NoChunk, AtEnd
<1>1. /\ brFrame \in [key : MessageKeys, index : Nat, count : Nat, body : Bodies,
                       at : {"sink", "lost"}, again : BOOLEAN]
      /\ IsChunk(brFrame) /\ k \in MessageKeys /\ brFrame.body \in Bodies
      /\ brFrame.count \in Nat \ {0} /\ brFrame.index \in 1..brFrame.count
  BY <1>0, <1>k, FrameFacts
<1>2. /\ brFrame' \in [key : MessageKeys, index : Nat, count : Nat, body : Bodies,
                        at : {"sink", "lost"}, again : BOOLEAN]
      /\ brFrame' # NoChunk /\ brFrame'.key = k /\ brFrame'.index = brFrame.index
      /\ brFrame'.count = brFrame.count /\ brFrame'.body = brFrame.body /\ brFrame'.again = TRUE
  BY <1>0, <1>1, <1>k DEF NoChunk
<1>3. /\ IsPending(after.pending) /\ after.observed \in Seq(Bodies)
      /\ \A q \in MessageKeys \ {k} : after.pending.held[q] \in {brPending.held[q], NoAssembly}
  BY <1>0, <1>1, <1>k, HandledKeeps
<1>4. /\ gone \subseteq MessageKeys /\ k \notin gone /\ last \subseteq MessageKeys
      /\ \A q \in MessageKeys \ ({k} \cup gone) : after.pending.held[q] = brPending.held[q]
  BY <1>1, <1>3 DEF GivenUp, Assembly
<1>5. /\ brWhole' \in [MessageKeys -> Seq(Bodies)] /\ brTroubled' \subseteq MessageKeys
      /\ \A q \in MessageKeys : brWhole'[q] = IF q \in gone THEN <<>> ELSE brWhole[q]
  <2>1. <<>> \in Seq(Bodies)
    OBVIOUS
  <2> HIDE DEF gone, last
  <2> QED BY <1>0, <1>4, <2>1 DEF BrTypeOK
<1> HIDE DEF gone, last, after
<1>6. BrTypeOK'
  BY <1>0, <1>1, <1>2, <1>3, <1>5 DEF BrTypeOK, IsChunk
<1>7. ASSUME NEW q \in MessageKeys, q # k PROVE KeyInv(q)'
  <2>1. CASE q \in gone
    BY <1>0, <1>5, <2>1, LostKey
  <2>2. CASE q \notin gone
    <3>1. brPending'.held[q] = brPending.held[q] /\ brWhole'[q] = brWhole[q]
          /\ (q \in brTroubled' <=> q \in brTroubled)
      BY <1>0, <1>4, <1>5, <1>7, <2>2 DEF last
    <3>2. KeyInv(q) /\ ~Carried(q)
      BY <1>7, <1>k DEF BrInv, Carried
    <3> QED BY <1>0, <3>1, <3>2, SameKey
  <2> QED BY <2>1, <2>2
<1>8. /\ brWhole'[k] = w /\ (AtEnd' <=> AtEnd) /\ Carried(k)'
      /\ k \in brTroubled' <=> k \in brTroubled \/ AtEnd
  BY <1>0, <1>1, <1>2, <1>4, <1>5 DEF last, AtEnd, Carried
<1>9. FlightInv'
  <2>1. FlightInv
    BY DEF BrInv
  <2> QED BY <1>0, <1>2, <1>8, <1>k, <2>1 DEF FlightInv
<1>10. KeyInv(k)' /\ MessagesAreWhole'
  <2>1. CASE AtEnd
    BY <1>2, <1>8, <2>1 DEF KeyInv, MessagesAreWhole, AtEnd
  <2>2. CASE ~AtEnd /\ k \in brTroubled
    <3>1. w = <<>>
      BY <1>1, <2>2 DEF BrInv, KeyInv
    <3>2. Len(brWhole'[k]) # brFrame'.index
      BY <1>1, <1>2, <1>8, <3>1
    <3> QED BY <1>2, <1>8, <2>2, <3>1, <3>2 DEF KeyInv, MessagesAreWhole, Undisturbed
  <2>3. CASE ~AtEnd /\ k \notin brTroubled
    <3> DEFINE m == brSending[k]
    <3>1. m.sent = brFrame.index /\ m.count = brFrame.count /\ (m.pages => brFrame.body \in Pages)
          /\ (w # <<>> => w[brFrame.index] = brFrame.body)
      BY <1>0, <1>k, <2>3 DEF BrInv, FlightInv
    <3>2. m # Between
      BY <1>0, <1>1, <3>1, SendingFacts
    <3>3. Len(w) = m.sent /\ (m.pages <=> w[1] \in Pages)
          /\ brPending.held[k] = IF m.pages THEN NoAssembly ELSE [count |-> m.count, frames |-> w]
      BY <1>1, <2>3, <3>2 DEF BrInv, KeyInv, Followed
    <3>4. w \in Seq(Bodies) /\ w # <<>>
      BY <1>0, <1>1, <3>1, <3>3 DEF BrTypeOK
    <3> HIDE DEF m, w
    <3>5. CASE m.pages
      <4>1. after.pending.held[k] = NoAssembly /\ after.observed = <<brFrame.body>>
        BY <1>0, <1>1, <3>1, <3>3, <3>5, <1>k, PageHandled DEF after
      <4> QED BY <1>0, <1>2, <1>8, <2>3, <3>2, <3>3, <3>5, <4>1
              DEF KeyInv, Followed, MessagesAreWhole, Undisturbed, Expected, m
    <3>6. CASE ~m.pages
      <4>1. brFrame.index = 1 => brFrame.body \in Fragments
        BY <1>1, <3>1, <3>3, <3>4, <3>6 DEF Bodies
      <4>2. after.pending.held[k] = brPending.held[k] /\ after.observed = <<>>
        BY <1>0, <1>1, <2>3, <3>1, <3>3, <3>4, <3>6, <4>1, <1>k, SameHandled DEF after, AtEnd
      <4> QED BY <1>0, <1>2, <1>8, <2>3, <3>2, <3>3, <3>6, <4>2
              DEF KeyInv, Followed, MessagesAreWhole, Undisturbed, Expected, m, AtEnd
    <3> QED BY <3>5, <3>6
  <2> QED BY <2>1, <2>2, <2>3
<1>11. \A q \in MessageKeys : KeyInv(q)'
  BY <1>7, <1>10
<1> QED BY <1>6, <1>9, <1>10, <1>11 DEF BrInv

-------------------------------------------------------------------------------
(* A chunk arrives.                                                              *)

\* What becomes of the key of a chunk f that finds m sent, h held and w handled, of
\* which there are then m2, h2 and w2; the observation is o.
Kept(f, m2, h2, w2, o) ==
  /\ IF f.index = f.count
       THEN m2 = Between /\ h2 = NoAssembly
       ELSE /\ m2 # Between /\ Len(w2) = m2.sent /\ (m2.pages <=> w2[1] \in Pages)
            /\ h2 = IF m2.pages THEN NoAssembly ELSE [count |-> m2.count, frames |-> w2]
  /\ o = IF w2[1] \in Pages THEN <<f.body>> ELSE IF f.index = f.count THEN w2 ELSE <<>>

LEMMA ChunkHandledKeeps == ASSUME BrInv, NEW k \in MessageKeys, ChunkHandled(k) PROVE BrInv'
<1>f. PICK f \in NextChunks(k) :
        /\ Sent(f)
        /\ brFrame' = [key |-> f.key, index |-> f.index, count |-> f.count, body |-> f.body,
                       at |-> "sink", again |-> FALSE]
        /\ brPending' = Handled(brPending, f).pending /\ brObserved' = Handled(brPending, f).observed
        /\ Records(f, Handled(brPending, f).pending)
  BY DEF ChunkHandled
<1> DEFINE m == brSending[k]
           w == brWhole[k]
           after == Handled(brPending, f)
           gone == GivenUp(after.pending) \ {k}
           body == brWhole'[k]
<1>0. BrTypeOK /\ IsPending(brPending) /\ brFrame = NoChunk
  BY DEF BrInv, BrTypeOK, ChunkHandled
<1>1. /\ IsChunk(f) /\ f.key = k /\ f.index \in Nat /\ f.count \in Nat \ {0} /\ f.body \in Bodies
      /\ f.index \in 1..f.count /\ f.index = m.sent + 1
      /\ m = Between => f.index = 1
      /\ m # Between => f.index > 1 /\ f.count = m.count /\ (m.pages => f.body \in Pages)
  <2>1. f.count # 0
    BY <1>0, NextFacts DEF IsChunk
  <2> QED BY <1>0, <2>1, NextFacts DEF IsChunk
<1>2. /\ brFrame' \in [key : MessageKeys, index : Nat, count : Nat, body : Bodies,
                        at : {"sink", "lost"}, again : BOOLEAN]
      /\ brFrame' # NoChunk /\ brFrame'.key = k /\ brFrame'.index = f.index
      /\ brFrame'.count = f.count /\ brFrame'.body = f.body /\ brFrame'.again = FALSE
      /\ IsChunk(brFrame)'
  BY <1>f, <1>1 DEF NoChunk, IsChunk
<1>3. /\ brSending' \in [MessageKeys -> [count : Nat, sent : Nat, pages : BOOLEAN]]
      /\ \A q \in MessageKeys :
           \/ brSending'[q] = Between
           \/ brSending'[q].count \in Lengths[q] /\ brSending'[q].sent \in 1 .. brSending'[q].count - 1
      /\ \A q \in MessageKeys \ {k} : brSending'[q] = brSending[q]
      /\ f.index = f.count => brSending'[k] = Between
      /\ f.index # f.count =>
           /\ brSending'[k] # Between
           /\ brSending'[k].count = f.count /\ brSending'[k].sent = f.index
           /\ brSending'[k].pages = IF f.index = 1 THEN f.body \in Pages ELSE m.pages
  BY <1>0, <1>f, SentFacts
<1>4. /\ IsPending(after.pending) /\ after.observed \in Seq(Bodies)
      /\ \A q \in MessageKeys \ {k} : after.pending.held[q] \in {brPending.held[q], NoAssembly}
  BY <1>0, <1>1, HandledKeeps
<1>5. /\ gone \subseteq MessageKeys /\ k \notin gone
      /\ \A q \in MessageKeys \ ({k} \cup gone) : after.pending.held[q] = brPending.held[q]
  BY <1>4 DEF GivenUp, Assembly
<1>6. /\ brTroubled' = (IF BeginsOwn(f) THEN brTroubled \ {k} ELSE brTroubled) \cup gone
      /\ brWhole' = [q \in MessageKeys |->
           IF q \in gone THEN <<>>
           ELSE IF q # k THEN brWhole[q]
           ELSE IF f.index = 1 THEN IF Excused(f) THEN <<>> ELSE <<f.body>>
           ELSE IF Len(w) = f.index - 1 THEN Append(w, f.body) ELSE <<>>]
  BY <1>f, <1>1 DEF Records
<1> HIDE DEF gone
<1>7. /\ body = IF f.index = 1 THEN IF Excused(f) THEN <<>> ELSE <<f.body>>
                ELSE IF Len(w) = f.index - 1 THEN Append(w, f.body) ELSE <<>>
      /\ \A q \in MessageKeys \ {k} : brWhole'[q] = IF q \in gone THEN <<>> ELSE brWhole[q]
  BY <1>5, <1>6
<1>8. w \in Seq(Bodies) /\ <<f.body>> \in Seq(Bodies) /\ <<>> \in Seq(Bodies)
      /\ Append(w, f.body) \in Seq(Bodies)
  BY <1>0, <1>1 DEF BrTypeOK
<1>9. brWhole' \in [MessageKeys -> Seq(Bodies)] /\ brTroubled' \subseteq MessageKeys
  <2>1. ASSUME NEW q \in MessageKeys PROVE brWhole'[q] \in Seq(Bodies)
    <3>1. CASE q = k
      BY <1>7, <1>8, <3>1
    <3>2. CASE q # k
      BY <1>0, <1>7, <1>8, <3>2 DEF BrTypeOK
    <3> QED BY <3>1, <3>2
  <2>2. DOMAIN brWhole' = MessageKeys /\ brWhole' = [q \in DOMAIN brWhole' |-> brWhole'[q]]
    BY <1>6
  <2> QED BY <1>0, <1>5, <1>6, <2>1, <2>2 DEF BrTypeOK
<1> HIDE DEF after, body, w, m
<1>k. f.index = 1 /\ k \notin brTroubled => brPending.held[k] = NoAssembly
  <2>1. f.index = 1 => brSending[k] = Between
    BY <1>1 DEF m
  <2>2. KeyInv(k)
    BY DEF BrInv
  <2> QED BY <2>1, <2>2 DEF KeyInv, Followed
<1>10. brPending' = after.pending /\ brObserved' = after.observed
  BY <1>f DEF after
<1>11. BrTypeOK'
  BY <1>2, <1>3, <1>4, <1>9, <1>10 DEF BrTypeOK
<1>12. ASSUME NEW q \in MessageKeys, q # k PROVE KeyInv(q)'
  <2>1. CASE q \in gone
    BY <1>6, <1>7, <1>12, <2>1, LostKey
  <2>2. CASE q \notin gone
    <3>1. brPending'.held[q] = brPending.held[q] /\ brWhole'[q] = brWhole[q]
          /\ (q \in brTroubled' <=> q \in brTroubled) /\ brSending'[q] = brSending[q]
      BY <1>3, <1>5, <1>6, <1>7, <1>10, <1>12, <2>2
    <3>2. KeyInv(q) /\ ~Carried(q)
      BY <1>0 DEF BrInv, Carried
    <3> QED BY <3>1, <3>2, SameKey
  <2> QED BY <2>1, <2>2
<1>13. /\ Carried(k)' /\ (AtEnd' <=> f.index = f.count)
       /\ k \in brTroubled' <=> k \in brTroubled /\ ~BeginsOwn(f)
  BY <1>2, <1>5, <1>6 DEF Carried, AtEnd
\* The chunk is the last of all that have been handled, or that is disturbed.
<1>14. body # <<>> => Len(body) = f.index /\ body[f.index] = f.body
  BY <1>1, <1>7, <1>8
<1>15. FlightInv'
  <2>1. f.index # f.count /\ brSending'[k].pages => f.body \in Pages
    BY <1>1, <1>3 DEF m
  <2> QED BY <1>2, <1>3, <1>13, <1>14, <2>1 DEF FlightInv, body
\* Its message is disturbed, or followed, or it is a text of this chunk alone.
<1>16. \/ body = <<>> /\ k \in brTroubled'
       \/ body # <<>> /\ k \notin brTroubled'
          /\ Kept(f, brSending'[k], after.pending.held[k], body, after.observed)
       \/ /\ body = <<f.body>> /\ f.index = 1 /\ f.count = 1 /\ f.body \in Fragments
          /\ after.observed = body
          /\ k \in brTroubled' \/ after.pending.held[k] = NoAssembly
  <2>1. CASE f.index = 1 /\ Excused(f)
    BY <1>1, <1>7, <1>13, <2>1 DEF BeginsOwn, Excused
  <2>2. CASE f.index = 1 /\ ~Excused(f) /\ f.body \in Pages
    <3>1. after.pending.held[k] = NoAssembly /\ after.observed = <<f.body>>
      BY <1>0, <1>1, <2>2, PageHandled DEF after
    <3>2. body = <<f.body>> /\ body # <<>> /\ Len(body) = 1 /\ body[1] = f.body
      BY <1>7, <2>2
    <3>3. k \notin brTroubled'
      BY <1>13, <2>2 DEF BeginsOwn
    <3> QED BY <1>1, <1>3, <2>2, <3>1, <3>2, <3>3 DEF Kept
  <2>3. CASE f.index = 1 /\ ~Excused(f) /\ f.body \notin Pages /\ f.count = 1
    <3>1. f.body \in Fragments
      BY <1>1, <2>3 DEF Bodies
    <3>2. after.pending = brPending /\ after.observed = <<f.body>>
      BY <2>3, <3>1, LoneHandled DEF after
    <3>3. k \in brTroubled' \/ k \notin brTroubled
      BY <1>13, <2>3 DEF BeginsOwn
    <3>4. k \notin brTroubled => brPending.held[k] = NoAssembly
      BY <1>k, <2>3
    <3> QED BY <1>7, <2>3, <3>1, <3>2, <3>3, <3>4
  <2>4. CASE f.index = 1 /\ ~Excused(f) /\ f.body \notin Pages /\ f.count # 1
    <3>1. f.body \in Fragments
      BY <1>1, <2>4 DEF Bodies
    <3>2. Supersedes(Assembly(brPending, f.key), f)
      <4>1. CASE k \in brTroubled
        BY <1>1, <2>4, <3>1, <4>1 DEF Excused, TakesIn, Supersedes
      <4>2. CASE k \notin brTroubled
        <5>1. brPending.held[k] = NoAssembly
          BY <1>k, <2>4, <4>2
        <5> QED BY <1>1, <5>1 DEF Supersedes, Assembly, NoAssembly
      <4> QED BY <4>1, <4>2
    <3>3. /\ after.pending.held[k] = [count |-> f.count, frames |-> <<f.body>>]
          /\ after.observed = <<>>
      BY <1>0, <1>1, <2>4, <3>1, <3>2, FirstHandled DEF after
    <3>4. body = <<f.body>> /\ body # <<>> /\ Len(body) = 1 /\ body[1] = f.body
      BY <1>7, <2>4
    <3>5. k \notin brTroubled'
      BY <1>1, <1>13, <2>4 DEF BeginsOwn
    <3> QED BY <1>1, <1>3, <2>4, <3>3, <3>4, <3>5 DEF Kept
  <2>5. CASE f.index # 1 /\ k \in brTroubled
    <3>1. w = <<>>
      BY <1>0, <2>5 DEF BrInv, KeyInv, Carried, w
    <3>2. Len(w) # f.index - 1
      BY <1>1, <2>5, <3>1
    <3> QED BY <1>7, <1>13, <2>5, <3>2 DEF BeginsOwn
  <2>6. CASE f.index # 1 /\ k \notin brTroubled
    <3>1. m # Between /\ f.index > 1 /\ f.count = m.count /\ (m.pages => f.body \in Pages)
      BY <1>1, <2>6
    <3>2. /\ Len(w) = m.sent /\ (m.pages <=> w[1] \in Pages)
          /\ brPending.held[k] = IF m.pages THEN NoAssembly ELSE [count |-> f.count, frames |-> w]
      BY <1>1, <2>6, <3>1 DEF BrInv, KeyInv, Followed, m, w
    <3>3. Len(w) = f.index - 1 /\ f.index = Len(w) + 1 /\ w # <<>>
      BY <1>1, <1>8, <3>1, <3>2
    <3>4. body = Append(w, f.body) /\ k \notin brTroubled'
      BY <1>7, <1>13, <2>6, <3>3
    <3>5. body # <<>> /\ Len(body) = f.index /\ body[1] = w[1]
      BY <1>1, <1>8, <3>3, <3>4
    <3>6. CASE m.pages
      <4>1. after.pending.held[k] = NoAssembly /\ after.observed = <<f.body>>
        BY <1>0, <1>1, <3>1, <3>2, <3>6, PageHandled DEF after
      <4> QED BY <1>1, <1>3, <2>6, <3>2, <3>4, <3>5, <3>6, <4>1 DEF Kept
    <3>7. CASE ~m.pages
      <4>1. /\ f.index = f.count =>
                 after.pending.held[k] = NoAssembly /\ after.observed = body
            /\ f.index # f.count =>
                 /\ after.pending.held[k] = [count |-> f.count, frames |-> body]
                 /\ after.observed = <<>>
        BY <1>0, <1>1, <1>8, <3>2, <3>3, <3>4, <3>7, NextHandled DEF after
      <4> QED BY <1>1, <1>3, <2>6, <3>2, <3>4, <3>5, <3>7, <4>1 DEF Kept
    <3> QED BY <3>6, <3>7
  <2> QED BY <2>1, <2>2, <2>3, <2>4, <2>5, <2>6
<1>17. KeyInv(k)' /\ MessagesAreWhole'
  <2>0. brWhole'[k] = body
    BY DEF body
  <2>1. CASE body = <<>> /\ k \in brTroubled'
    <3>1. Len(body) # f.index
      BY <1>1, <2>1
    <3> QED BY <1>2, <2>0, <2>1, <3>1 DEF KeyInv, MessagesAreWhole, Undisturbed
  <2>2. CASE body # <<>> /\ k \notin brTroubled'
             /\ Kept(f, brSending'[k], after.pending.held[k], body, after.observed)
    <3>1. KeyInv(k)'
      BY <1>10, <1>13, <2>0, <2>2 DEF KeyInv, Followed, Kept
    <3>2. MessagesAreWhole'
      BY <1>2, <1>10, <2>0, <2>2 DEF MessagesAreWhole, Undisturbed, Expected, Kept
    <3> QED BY <3>1, <3>2
  <2>3. CASE /\ body = <<f.body>> /\ f.index = 1 /\ f.count = 1 /\ f.body \in Fragments
             /\ after.observed = body
             /\ k \in brTroubled' \/ after.pending.held[k] = NoAssembly
    <3>1. body[1] = f.body /\ f.body \notin Pages
      BY <2>3, ReassemblyAssumption
    <3>2. KeyInv(k)'
      BY <1>3, <1>10, <1>13, <2>0, <2>3 DEF KeyInv, Followed
    <3>3. MessagesAreWhole'
      BY <1>2, <1>10, <2>0, <2>3, <3>1 DEF MessagesAreWhole, Undisturbed, Expected
    <3> QED BY <3>2, <3>3
  <2> HIDE DEF body
  <2> QED BY <1>16, <2>1, <2>2, <2>3
<1>18. \A q \in MessageKeys : KeyInv(q)'
  BY <1>12, <1>17
<1> QED BY <1>11, <1>15, <1>17, <1>18 DEF BrInv

LEMMA BrInvNext == BrInv /\ [BrNext]_brVars => BrInv'
<1> SUFFICES ASSUME BrInv, [BrNext]_brVars PROVE BrInv'
  OBVIOUS
<1>1. CASE \E k \in MessageKeys : ChunkLost(k)
  BY <1>1, LostKeeps
<1>2. CASE \E k \in MessageKeys : ChunkHandled(k)
  BY <1>2, ChunkHandledKeeps
<1>3. CASE Expires
  BY <1>3, ExpiresKeeps
<1>4. CASE Reconnects
  BY <1>4, ReconnectsKeeps
<1>5. CASE DeliveryLost
  BY <1>5, DeliveryLostKeeps
<1>6. CASE HandledAgain
  BY <1>6, HandledAgainKeeps
<1>7. CASE Delivered
  BY <1>7, DeliveredKeeps
<1>8. CASE UNCHANGED brVars
  <2>1. BrTypeOK'
    BY <1>8 DEF BrInv, BrTypeOK, brVars, IsChunk
  <2>2. \A k \in MessageKeys : KeyInv(k)'
    BY <1>8 DEF BrInv, KeyInv, Followed, Carried, AtEnd, brVars
  <2>3. FlightInv' /\ MessagesAreWhole'
    BY <1>8 DEF BrInv, FlightInv, MessagesAreWhole, Undisturbed, Expected, AtEnd, brVars
  <2> QED BY <2>1, <2>2, <2>3 DEF BrInv
<1> QED BY <1>1, <1>2, <1>3, <1>4, <1>5, <1>6, <1>7, <1>8 DEF BrNext

LEMMA BrInvHolds == BrSpec => []BrInv
BY BrInvInit, BrInvNext, PTL DEF BrSpec

\* Whatever the device sends and loses and however often a delivery is cancelled and
\* repeated, _frame_assemblies holds proper parts of messages, no more of them than
\* _REASSEMBLY_MAX_MESSAGES_PER_DEVICE, each under a key that waits once.
THEOREM ReassemblyTypeCorrect == BrSpec => []BrTypeOK
<1>1. BrInv => BrTypeOK
  BY DEF BrInv
<1> QED BY <1>1, BrInvHolds, PTL

\* A message all of whose chunks _reassemble_frame is given is handed on, exactly with
\* its own chunks and exactly at its last one, but for those that MessagesAreWhole
\* excepts: given up for age or place, handled again at its end, or begun on a key that
\* such trouble, or a lost chunk, has left with chunks of another on this connection.
THEOREM MessagesKeptWhole == BrSpec => []MessagesAreWhole
<1>1. BrInv => MessagesAreWhole
  BY DEF BrInv
<1> QED BY <1>1, BrInvHolds, PTL
===============================================================================
