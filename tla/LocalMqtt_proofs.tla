-------------------------- MODULE LocalMqtt_proofs ----------------------------
(*****************************************************************************)
(* Theorems about the local MQTT transport: the FIFO of its frames           *)
(* (LocalMqttFifo) and the lifecycle of its listener (LocalMqttListener).    *)
(*****************************************************************************)
EXTENDS LocalMqttFifo, LocalMqttListener, Queues_proofs, FiniteSetTheorems

(***************************************************************************)
(* LocalMqttFifo implements SerialDelivery, for every capacity of the queue *)
(* and every number of frames, cancellations and drains.                    *)
(***************************************************************************)

-------------------------------------------------------------------------------
(* Types.                                                                    *)

\* LfTypeOK without the bound on the frame numbers, which needs the order below.
LfShape ==
  /\ lfStopping \in BOOLEAN
  /\ lfQueue \in Seq(Nat)
  /\ lfDelivery \in [at : Deliveries, item : Nat]
  /\ lfConsumer \in Consumers
  /\ lfRetired \in Nat /\ lfDrains \in 0..MaxDrains /\ lfCancels \in 0..MaxCancels
  /\ lfAccepted \in 0..MaxFrames /\ lfHanded \in Nat

\* A cancelled delivery gives its frame back to the head of the queue.
LEMMA SettledShape ==
  ASSUME LfShape
  PROVE  /\ SettledQueue \in Seq(Nat)
         /\ lfDelivery.at = "cancelled" =>
              /\ SettledQueue # <<>> /\ Len(SettledQueue) = Len(lfQueue) + 1
              /\ SettledQueue[1] = lfDelivery.item
              /\ \A i \in 1..Len(lfQueue) : SettledQueue[i + 1] = lfQueue[i]
         /\ lfDelivery.at # "cancelled" => SettledQueue = lfQueue
<1>1. <<lfDelivery.item>> \in Seq(Nat) /\ lfQueue \in Seq(Nat)
  BY DEF LfShape
<1> QED BY <1>1 DEF SettledQueue

LEMMA EnsureShape ==
  ASSUME LfShape, NEW consumer \in Consumers, EnsureConsumer(consumer)
  PROVE  lfConsumer' \in Consumers /\ lfRetired' \in Nat
BY DEF LfShape, EnsureConsumer, Consumers

LEMMA ShapeInit == LfInit => LfShape
<1> SUFFICES ASSUME LfInit PROVE LfShape
  OBVIOUS
<1>1. lfDrains \in 0..MaxDrains /\ lfCancels \in 0..MaxCancels /\ lfAccepted \in 0..MaxFrames
  BY LocalFifoAssumption DEF LfInit
<1>2. lfDelivery \in [at : Deliveries, item : Nat]
  BY DEF LfInit, NothingInDelivery, Deliveries
<1>3. lfQueue \in Seq(Nat)
  BY DEF LfInit
<1> QED BY <1>1, <1>2, <1>3 DEF LfInit, LfShape, Consumers

LEMMA ShapeNext == LfShape /\ [LfNext]_lfVars => LfShape'
<1> SUFFICES ASSUME LfShape, [LfNext]_lfVars PROVE LfShape'
  OBVIOUS
<1>0. /\ NothingInDelivery \in [at : Deliveries, item : Nat]
      /\ \A at \in Deliveries : [lfDelivery EXCEPT !.at = at] \in [at : Deliveries, item : Nat]
      /\ {"none", "created", "blocked", "done"} = Consumers /\ lfConsumer \in Consumers
  BY DEF LfShape, NothingInDelivery, Deliveries, Consumers
<1>1. CASE Enqueue
  <2>1. lfConsumer' \in Consumers /\ lfRetired' \in Nat
    BY <1>0, <1>1, EnsureShape DEF Enqueue
  <2>2. lfAccepted' \in 0..MaxFrames /\ lfQueue' \in Seq(Nat)
    BY <1>1, LocalFifoAssumption DEF Enqueue, LfShape
  <2> QED BY <1>1, <2>1, <2>2 DEF Enqueue, LfShape
<1>2. CASE ConsumerTakes
  <2>1. lfQueue' \in Seq(Nat) /\ lfDelivery'.item \in Nat
    BY <1>2, SettledShape DEF ConsumerTakes
  <2>2. lfDelivery' \in [at : Deliveries, item : Nat] /\ lfConsumer' \in Consumers
    BY <1>0, <1>2, <2>1 DEF ConsumerTakes, Deliveries
  <2> QED BY <1>2, <2>1, <2>2 DEF ConsumerTakes, LfShape
<1>3. CASE ConsumerJoins \/ ConsumerReturns
  BY <1>0, <1>3 DEF ConsumerJoins, ConsumerReturns, LfShape
<1>4. CASE ConsumerDone
  <2>1. lfConsumer' \in Consumers /\ lfRetired' \in Nat
    BY <1>0, <1>4, EnsureShape DEF ConsumerDone, LfShape
  <2> QED BY <1>4, <2>1 DEF ConsumerDone, LfShape
<1>5. CASE RetiredDone
  BY <1>0, <1>5 DEF RetiredDone, LfShape
<1>6. CASE DeliveryInvokes \/ SinkEnds
  BY <1>0, <1>6 DEF DeliveryInvokes, SinkEnds, LfShape, Deliveries
<1>7. CASE DeliveryCut \/ ConsumerCancelled
  <2>1. lfCancels' \in 0..MaxCancels
    BY <1>7, LocalFifoAssumption DEF DeliveryCut, ConsumerCancelled, LfShape
  <2> QED BY <1>0, <1>7, <2>1 DEF DeliveryCut, ConsumerCancelled, LfShape, Deliveries
<1>8. CASE DrainRound
  <2>1. lfQueue' \in Seq(Nat) /\ lfDelivery' \in [at : Deliveries, item : Nat]
    BY <1>0, <1>8, SettledShape DEF DrainRound, LfShape
  <2>2. lfConsumer' \in Consumers /\ lfRetired' \in Nat
    BY <1>0, <1>8 DEF DrainRound, LfShape
  <2>3. lfDrains' \in 0..MaxDrains
    BY <1>8, LocalFifoAssumption DEF DrainRound, LfShape
  <2> QED BY <1>8, <2>1, <2>2, <2>3 DEF DrainRound, LfShape
<1>9. CASE DrainBegins \/ DrainCancelled
  BY <1>9, LocalFifoAssumption DEF DrainBegins, DrainCancelled, LfShape
<1>10. CASE StopsAccepting \/ AcceptsAgain
  BY <1>10 DEF StopsAccepting, AcceptsAgain, LfShape
<1>11. CASE UNCHANGED lfVars
  BY <1>11 DEF lfVars, LfShape
<1> QED BY <1>1, <1>2, <1>3, <1>4, <1>5, <1>6, <1>7, <1>8, <1>9, <1>10, <1>11
        DEF LfNext, ActorStep

-------------------------------------------------------------------------------
(* Order.                                                                    *)

\* A frame in delivery that the coordinator does not have yet.
HeldBack == IF lfDelivery.at \in {"created", "cancelled"} THEN 1 ELSE 0

\* The frames handed over, held back and queued are the accepted ones, in order.
LfOrder ==
  /\ lfAccepted = lfHanded + HeldBack + Len(lfQueue)
  /\ \A i \in 1..Len(lfQueue) : lfQueue[i] = lfHanded + HeldBack + i
  /\ lfDelivery.at # "none" => lfDelivery.item = lfHanded + HeldBack /\ lfDelivery.item # 0
  /\ lfDelivery.at = "none" => lfDelivery.item = 0

LEMMA OrderInit == LfInit => LfOrder
BY DEF LfInit, LfOrder, NothingInDelivery, HeldBack

\* Settling keeps the order: what is not handed over is the settled queue.
LEMMA SettledOrder ==
  ASSUME LfShape, LfOrder, lfDelivery.at = "none" \/ DeliveryOver
  PROVE  /\ lfAccepted = lfHanded + Len(SettledQueue)
         /\ \A i \in 1..Len(SettledQueue) : SettledQueue[i] = lfHanded + i
<1>0. lfHanded \in Nat /\ Len(lfQueue) \in Nat /\ lfAccepted \in Nat
  BY LocalFifoAssumption DEF LfShape
<1>1. CASE lfDelivery.at = "cancelled"
  <2>1. /\ lfAccepted = lfHanded + 1 + Len(lfQueue) /\ lfDelivery.item = lfHanded + 1
        /\ \A i \in 1..Len(lfQueue) : lfQueue[i] = lfHanded + 1 + i
    BY <1>1 DEF LfOrder, HeldBack
  <2>2. /\ Len(SettledQueue) = Len(lfQueue) + 1 /\ SettledQueue[1] = lfDelivery.item
        /\ \A i \in 1..Len(lfQueue) : SettledQueue[i + 1] = lfQueue[i]
    BY <1>1, SettledShape
  <2>3. ASSUME NEW i \in 1..Len(SettledQueue) PROVE SettledQueue[i] = lfHanded + i
    <3>1. CASE i = 1
      BY <1>0, <2>1, <2>2, <3>1
    <3>2. CASE i # 1
      <4>1. i - 1 \in 1..Len(lfQueue) /\ (i - 1) + 1 = i
        BY <1>0, <2>2, <3>2
      <4>2. /\ SettledQueue[(i - 1) + 1] = lfQueue[i - 1]
            /\ lfQueue[i - 1] = lfHanded + 1 + (i - 1)
        BY <2>1, <2>2, <4>1
      <4> QED BY <1>0, <4>1, <4>2
    <3> QED BY <3>1, <3>2
  <2> QED BY <1>0, <2>1, <2>2, <2>3
<1>2. CASE lfDelivery.at # "cancelled"
  <2>1. SettledQueue = lfQueue /\ HeldBack = 0
    BY <1>2, SettledShape DEF DeliveryOver, HeldBack
  <2> QED BY <1>0, <2>1 DEF LfOrder
<1> QED BY <1>1, <1>2

LEMMA OrderNext == LfShape /\ LfOrder /\ [LfNext]_lfVars => LfOrder'
<1> SUFFICES ASSUME LfShape, LfOrder, [LfNext]_lfVars PROVE LfOrder'
  OBVIOUS
<1>0. /\ lfHanded \in Nat /\ lfAccepted \in Nat /\ lfQueue \in Seq(Nat) /\ Len(lfQueue) \in Nat
      /\ lfDelivery \in [at : Deliveries, item : Nat] /\ HeldBack \in Nat
  BY LocalFifoAssumption DEF LfShape, HeldBack
<1>1. CASE Enqueue
  <2>1. /\ UNCHANGED <<lfDelivery, lfHanded>> /\ lfAccepted' = lfAccepted + 1
        /\ lfQueue' = Append(lfQueue, lfAccepted + 1)
    BY <1>1 DEF Enqueue
  <2>2. HeldBack' = HeldBack /\ Len(lfQueue') = Len(lfQueue) + 1
    BY <1>0, <2>1 DEF HeldBack
  <2>3. ASSUME NEW i \in 1..Len(lfQueue') PROVE lfQueue'[i] = lfHanded + HeldBack + i
    <3>1. CASE i = Len(lfQueue) + 1
      <4>1. lfQueue'[i] = lfAccepted + 1
        BY <1>0, <2>1, <3>1
      <4> QED BY <1>0, <3>1, <4>1 DEF LfOrder
    <3>2. CASE i # Len(lfQueue) + 1
      <4>1. i \in 1..Len(lfQueue)
        BY <1>0, <2>2, <3>2
      <4>2. lfQueue'[i] = lfQueue[i]
        BY <1>0, <2>1, <4>1
      <4> QED BY <4>1, <4>2 DEF LfOrder
    <3> QED BY <3>1, <3>2
  <2> QED BY <1>0, <2>1, <2>2, <2>3 DEF LfOrder
<1>2. CASE ConsumerTakes
  <2>1. /\ SettledQueue # <<>> /\ SettledQueue \in Seq(Nat)
        /\ lfAccepted = lfHanded + Len(SettledQueue)
        /\ \A i \in 1..Len(SettledQueue) : SettledQueue[i] = lfHanded + i
    BY <1>2, SettledOrder, SettledShape DEF ConsumerTakes, ConsumerReady
  <2>2. /\ lfDelivery' = [at |-> "created", item |-> Head(SettledQueue)]
        /\ lfQueue' = Tail(SettledQueue) /\ UNCHANGED <<lfAccepted, lfHanded>>
    BY <1>2 DEF ConsumerTakes
  <2>3. HeldBack' = 1 /\ lfDelivery'.at = "created" /\ lfDelivery'.item = lfHanded + 1
    BY <2>1, <2>2 DEF HeldBack
  <2>4. /\ Len(lfQueue') = Len(SettledQueue) - 1 /\ Len(SettledQueue) \in Nat
        /\ \A i \in 1..Len(lfQueue') : lfQueue'[i] = SettledQueue[i + 1]
    BY <2>1, <2>2
  <2>5. ASSUME NEW i \in 1..Len(lfQueue') PROVE lfQueue'[i] = lfHanded + 1 + i
    BY <1>0, <2>1, <2>4
  <2> QED BY <1>0, <2>1, <2>2, <2>3, <2>4, <2>5 DEF LfOrder
<1>3. CASE ConsumerReturns
  <2>1. /\ SettledQueue = <<>> /\ lfDelivery' = NothingInDelivery
        /\ UNCHANGED <<lfQueue, lfAccepted, lfHanded>>
        /\ lfDelivery.at = "none" \/ DeliveryOver
    BY <1>3 DEF ConsumerReturns, ConsumerReady
  <2>2. lfAccepted = lfHanded /\ lfQueue = <<>>
    BY <1>0, <2>1, SettledOrder, SettledShape
  <2> QED BY <1>0, <2>1, <2>2 DEF LfOrder, HeldBack, NothingInDelivery
<1>4. CASE DeliveryInvokes
  <2>1. /\ lfDelivery.at = "created" /\ lfDelivery'.at = "sink"
        /\ lfDelivery'.item = lfDelivery.item
        /\ lfHanded' = lfHanded + 1 /\ UNCHANGED <<lfQueue, lfAccepted>>
    BY <1>0, <1>4 DEF DeliveryInvokes
  <2>2. HeldBack = 1 /\ HeldBack' = 0
    BY <2>1 DEF HeldBack
  <2> QED BY <1>0, <2>1, <2>2 DEF LfOrder
<1>5. CASE SinkEnds \/ DeliveryCut
  <2>1. /\ lfDelivery'.item = lfDelivery.item /\ lfDelivery.at # "none" /\ lfDelivery'.at # "none"
        /\ lfDelivery.at \in {"created", "cancelled"} <=> lfDelivery'.at \in {"created", "cancelled"}
        /\ UNCHANGED <<lfQueue, lfAccepted, lfHanded>>
    BY <1>0, <1>5 DEF SinkEnds, DeliveryCut
  <2>2. HeldBack' = HeldBack
    BY <2>1 DEF HeldBack
  <2> QED BY <1>0, <2>1, <2>2 DEF LfOrder
<1>6. CASE DrainRound
  <2>1. CASE DeliveryOver
    <3>1. /\ lfQueue' = SettledQueue /\ lfDelivery' = NothingInDelivery
          /\ UNCHANGED <<lfAccepted, lfHanded>>
      BY <1>6, <2>1 DEF DrainRound
    <3>2. /\ lfAccepted = lfHanded + Len(SettledQueue)
          /\ \A i \in 1..Len(SettledQueue) : SettledQueue[i] = lfHanded + i
      BY <2>1, SettledOrder
    <3>3. HeldBack' = 0 /\ lfDelivery'.at = "none" /\ lfDelivery'.item = 0
      BY <3>1 DEF HeldBack, NothingInDelivery
    <3> QED BY <1>0, <3>1, <3>2, <3>3 DEF LfOrder
  <2>2. CASE ~DeliveryOver
    <3>1. UNCHANGED <<lfQueue, lfDelivery, lfAccepted, lfHanded>>
      BY <1>6, <2>2, SettledShape DEF DrainRound, DeliveryOver
    <3> QED BY <3>1 DEF LfOrder, HeldBack
  <2> QED BY <2>1, <2>2
<1>7. CASE UNCHANGED <<lfQueue, lfDelivery, lfAccepted, lfHanded>>
  BY <1>7 DEF LfOrder, HeldBack
<1> QED BY <1>1, <1>2, <1>3, <1>4, <1>5, <1>6, <1>7
        DEF LfNext, ActorStep, ConsumerJoins, ConsumerDone, RetiredDone, ConsumerCancelled,
            DrainCancelled, StopsAccepting, DrainBegins, AcceptsAgain, lfVars

LEMMA LfInvariance == LfSpec => [](LfShape /\ LfOrder)
BY ShapeInit, ShapeNext, OrderInit, OrderNext, PTL DEF LfSpec

LEMMA LfTypeFollows == LfShape /\ LfOrder => LfTypeOK
<1> SUFFICES ASSUME LfShape, LfOrder PROVE LfTypeOK
  OBVIOUS
<1>1. /\ lfHanded \in Nat /\ Len(lfQueue) \in Nat /\ HeldBack \in Nat /\ lfQueue \in Seq(Nat)
      /\ lfAccepted \in Nat /\ lfAccepted <= MaxFrames /\ MaxFrames \in Nat
      /\ lfDelivery \in [at : Deliveries, item : Nat]
      /\ lfAccepted = lfHanded + HeldBack + Len(lfQueue)
      /\ \A i \in 1..Len(lfQueue) : lfQueue[i] = lfHanded + HeldBack + i
  BY LocalFifoAssumption DEF LfShape, LfOrder, HeldBack
<1>2. ASSUME NEW i \in 1..Len(lfQueue) PROVE lfQueue[i] \in 1..MaxFrames
  BY <1>1
<1>3. lfQueue \in Seq(1..MaxFrames)
  BY <1>1, <1>2
<1>4. lfDelivery.item \in 0..MaxFrames /\ lfHanded \in 0..MaxFrames
  BY <1>1 DEF LfOrder
<1> QED BY <1>1, <1>3, <1>4 DEF LfShape, LfTypeOK

\* The state of the local FIFO keeps its types; no more frames are handed over than
\* were accepted.
THEOREM LocalFifoTypeCorrect == LfSpec => []LfTypeOK
BY LfInvariance, LfTypeFollows, PTL

-------------------------------------------------------------------------------
(* Refinement.                                                               *)

SinkItem == IF lfDelivery.at = "sink" THEN lfDelivery.item ELSE 0

\* A step is the serial sink's Accept, Hand or Finish, or invisible to it.
LEMMA LfSerialStep ==
  ASSUME LfShape, LfOrder, [LfNext]_lfVars
  PROVE  [LocalSerial!Next]_<<lfAccepted, lfHanded, SinkItem>>
<1>0. /\ lfDelivery \in [at : Deliveries, item : Nat] /\ lfHanded \in Nat
      /\ lfDelivery.at # "none" => lfDelivery.item = lfHanded + HeldBack /\ lfDelivery.item # 0
      /\ lfAccepted = lfHanded + HeldBack + Len(lfQueue) /\ Len(lfQueue) \in Nat
  BY DEF LfOrder, LfShape
<1>1. CASE Enqueue
  BY <1>1 DEF Enqueue, LocalSerial!Next, LocalSerial!Accept, SinkItem
<1>2. CASE DeliveryInvokes
  <2>1. /\ lfDelivery.at = "created" /\ lfDelivery'.at = "sink"
        /\ lfDelivery'.item = lfDelivery.item
        /\ lfHanded' = lfHanded + 1 /\ lfAccepted' = lfAccepted
    BY <1>0, <1>2 DEF DeliveryInvokes
  <2>2. SinkItem = 0 /\ SinkItem' = lfHanded + 1 /\ lfHanded < lfAccepted
    BY <1>0, <2>1 DEF SinkItem, HeldBack
  <2> QED BY <2>1, <2>2 DEF LocalSerial!Next, LocalSerial!Hand, SinkItem
<1>3. CASE SinkEnds
  <2>1. SinkItem # 0 /\ SinkItem' = 0 /\ UNCHANGED <<lfAccepted, lfHanded>>
    BY <1>0, <1>3 DEF SinkEnds, SinkItem
  <2> QED BY <2>1 DEF LocalSerial!Next, LocalSerial!Finish, SinkItem
<1>4. CASE DeliveryCut
  BY <1>0, <1>4 DEF DeliveryCut, SinkItem
<1>5. CASE ConsumerTakes \/ ConsumerReturns
  BY <1>5 DEF ConsumerTakes, ConsumerReturns, ConsumerReady, DeliveryOver, NothingInDelivery,
              SinkItem
<1>6. CASE DrainRound
  <2>1. lfDelivery' = IF DeliveryOver THEN NothingInDelivery ELSE lfDelivery
    BY <1>6 DEF DrainRound
  <2> QED BY <1>6, <2>1 DEF DrainRound, DeliveryOver, NothingInDelivery, SinkItem
<1>7. CASE UNCHANGED <<lfDelivery, lfAccepted, lfHanded>>
  BY <1>7 DEF SinkItem
<1> QED BY <1>1, <1>2, <1>3, <1>4, <1>5, <1>6, <1>7
        DEF LfNext, ActorStep, ConsumerJoins, ConsumerDone, RetiredDone, ConsumerCancelled,
            DrainCancelled, StopsAccepting, DrainBegins, AcceptsAgain, lfVars

\* The coordinator gets the local frames one at a time, in order, each at most once.
THEOREM LocalFifoRefines == LfSpec => LocalFifoSpec
<1>1. LfInit => LocalSerial!Init
  BY DEF LfInit, LocalSerial!Init, NothingInDelivery
<1>2. LfShape /\ LfOrder /\ [LfNext]_lfVars => [LocalSerial!Next]_<<lfAccepted, lfHanded, SinkItem>>
  BY LfSerialStep
<1> QED BY <1>1, <1>2, LfInvariance, PTL DEF LfSpec, LocalFifoSpec, LocalSerial!Spec, SinkItem

(***************************************************************************)
(* Theorems about LocalMqttListener, for any numbers of coordinators,       *)
(* starters, clients and settings.                                          *)
(***************************************************************************)

-------------------------------------------------------------------------------
(* Types.                                                                    *)

StarterType ==
  [at : {"none", "loop", "lock", "stop", "start", "detach", "undo"},
   kind : {"layer5", "options"}, c : ListenerOwners \cup {Nobody},
   k : Clients \cup {Nobody}, want : Settings, res : Outcomes, cancelled : BOOLEAN]
EntryType ==
  [at : {"off", "on", "unload", "options", "stop", "ending"},
   c : ListenerOwners \cup {Nobody}, k : Clients \cup {Nobody}, res : Outcomes]
CleanupType ==
  [at : {"none", "loop", "tasks", "stop", "sleep"}, k : Clients \cup {Nobody},
   res : Outcomes, todo : SUBSET Clients, kept : SUBSET Clients,
   seen : SUBSET Clients, tasks : SUBSET Starters]
ClientType == [runs : BOOLEAN, settings : Settings]
StopType == {"none", "running", "ok", "failed"}

LmTypes ==
  /\ lmEntry \in EntryType
  /\ lmAttached \in Clients \cup {Nobody} /\ lmCurrent \in Clients \cup {Nobody}
  /\ lmWanted \in Settings /\ lmPending \in BOOLEAN
  /\ lmStarter \in [Starters -> StarterType]
  /\ lmLock \in Seq(Starters)
  /\ lmClient \in [Clients -> ClientType]
  /\ lmStop \in [Clients -> StopType]
  /\ lmDeferred \subseteq Clients /\ lmStale \subseteq Starters
  /\ lmRestart \in BOOLEAN
  /\ lmCleanup \in CleanupType

\* The types, and that a task that awaits a stop knows its client.
Placed ==
  /\ \A s \in Starters :
       lmStarter[s].at \in {"stop", "start", "detach", "undo"} => lmStarter[s].k \in Clients
  /\ lmEntry.at = "stop" => lmEntry.k \in Clients
  /\ lmCleanup.at = "stop" => lmCleanup.k \in Clients

LEMMA LmTypesOK == LmTypes <=> LmTypeOK
BY DEF LmTypes, LmTypeOK, StarterType, EntryType, CleanupType, ClientType, StopType

LEMMA RecordTypes ==
  /\ NoStarter \in StarterType /\ NoStarter.at = "none" /\ NoStarter.k = Nobody
  /\ NoStarter.c = Nobody /\ NoStarter.cancelled = FALSE
  /\ NoCleanup \in CleanupType /\ NoCleanup.at = "none" /\ NoCleanup.k = Nobody
  /\ NoCleanup.todo = {} /\ NoCleanup.kept = {} /\ NoCleanup.seen = {} /\ NoCleanup.tasks = {}
BY ListenerAssumption DEF NoStarter, NoCleanup, StarterType, CleanupType, Outcomes

LEMMA TypesInit == LmInit => LmTypes /\ Placed
<1> SUFFICES ASSUME LmInit PROVE LmTypes /\ Placed
  OBVIOUS
<1>1. lmEntry \in EntryType
  BY DEF LmInit, EntryType, Outcomes
<1>2. lmStarter \in [Starters -> StarterType] /\ lmCleanup \in CleanupType
  BY RecordTypes DEF LmInit
<1>3. lmClient \in [Clients -> ClientType] /\ lmStop \in [Clients -> StopType]
  BY ListenerAssumption DEF LmInit, ClientType, StopType
<1>4. LmTypes
  <2>1. lmLock \in Seq(Starters) /\ lmWanted \in Settings /\ lmPending \in BOOLEAN
    BY EmptySeq DEF LmInit
  <2>2. lmDeferred \subseteq Clients /\ lmStale \subseteq Starters /\ lmRestart \in BOOLEAN
    BY DEF LmInit
  <2> QED BY <1>1, <1>2, <1>3, <2>1, <2>2 DEF LmInit, LmTypes
<1>5. Placed
  BY RecordTypes DEF LmInit, Placed
<1> QED BY <1>4, <1>5

-------------------------------------------------------------------------------
(* The operations that several tasks share.                                  *)

\* Whoever leaves the lock leaves the others in it, and the holder at its head.
LEMMA LockLeft ==
  ASSUME LmTypes, NEW s \in Starters
  PROVE  /\ Left(lmLock, s) \in Seq(Starters)
         /\ \A t \in Starters \ {s} :
              /\ (\E i \in DOMAIN lmLock : lmLock[i] = t) =>
                   \E i \in DOMAIN Left(lmLock, s) : Left(lmLock, s)[i] = t
              /\ lmLock # <<>> /\ lmLock[1] = t =>
                   Left(lmLock, s) # <<>> /\ Left(lmLock, s)[1] = t
<1>1. lmLock \in Seq(Starters)
  BY DEF LmTypes
<1> QED BY <1>1, LeftType, LeftStays, LeftHead

\* One starter changed to another record of the type.
LEMMA EndsFacts ==
  ASSUME LmTypes, NEW s \in Starters, Ends(s)
  PROVE  /\ lmLock' = Left(lmLock, s) /\ lmLock' \in Seq(Starters)
         /\ lmStarter' \in [Starters -> StarterType]
         /\ \A t \in Starters \ {s} : lmStarter'[t] = lmStarter[t]
         /\ lmStarter'[s].at \in {"none", "loop"}
<1> DEFINE r == lmStarter[s]
           again == [r EXCEPT !.at = "loop", !.k = Nobody, !.want = NoListener, !.res = "wait"]
<1>1. r \in StarterType /\ lmStarter \in [Starters -> StarterType]
  BY DEF LmTypes
<1>2. again \in StarterType /\ again.at = "loop"
  BY <1>1, ListenerAssumption DEF StarterType, Outcomes
<1>3. \/ lmStarter' = [lmStarter EXCEPT ![s] = again]
      \/ lmStarter' = [lmStarter EXCEPT ![s] = NoStarter]
  BY DEF Ends
<1>4. lmLock' = Left(lmLock, s)
  BY DEF Ends
<1> HIDE DEF again
<1> QED BY <1>1, <1>2, <1>3, <1>4, RecordTypes, LockLeft

LEMMA CancelledFacts ==
  ASSUME LmTypes, NEW ts
  PROVE  /\ Cancelled(ts) \in [Starters -> StarterType]
         /\ \A t \in Starters :
              /\ Cancelled(ts)[t].at = lmStarter[t].at /\ Cancelled(ts)[t].c = lmStarter[t].c
              /\ Cancelled(ts)[t].k = lmStarter[t].k /\ Cancelled(ts)[t].res = lmStarter[t].res
<1>1. ASSUME NEW t \in Starters
      PROVE  /\ Cancelled(ts)[t] \in StarterType
             /\ Cancelled(ts)[t].at = lmStarter[t].at /\ Cancelled(ts)[t].c = lmStarter[t].c
             /\ Cancelled(ts)[t].k = lmStarter[t].k /\ Cancelled(ts)[t].res = lmStarter[t].res
  <2>1. lmStarter[t] \in StarterType
    BY DEF LmTypes
  <2>2. /\ [lmStarter[t] EXCEPT !.cancelled = TRUE] \in StarterType
        /\ [lmStarter[t] EXCEPT !.cancelled = TRUE].at = lmStarter[t].at
        /\ [lmStarter[t] EXCEPT !.cancelled = TRUE].c = lmStarter[t].c
        /\ [lmStarter[t] EXCEPT !.cancelled = TRUE].k = lmStarter[t].k
        /\ [lmStarter[t] EXCEPT !.cancelled = TRUE].res = lmStarter[t].res
    BY <2>1 DEF StarterType
  <2> QED BY <2>1, <2>2 DEF Cancelled
<1> QED BY <1>1 DEF Cancelled

LEMMA ScheduleCleanupFacts ==
  ASSUME LmTypes, ScheduleCleanup
  PROVE  /\ lmCleanup' \in CleanupType /\ lmCleanup'.at # "none"
         /\ lmCleanup.at # "none" => lmCleanup' = lmCleanup
         /\ lmCleanup.at = "none" => /\ lmCleanup'.at = "loop"
                                     /\ lmCleanup'.seen = {} /\ lmCleanup'.todo = {}
                                     /\ lmCleanup'.kept = {}
<1>1. [NoCleanup EXCEPT !.at = "loop"] \in CleanupType
      /\ [NoCleanup EXCEPT !.at = "loop"].at = "loop" /\ [NoCleanup EXCEPT !.at = "loop"].seen = {}
      /\ [NoCleanup EXCEPT !.at = "loop"].todo = {} /\ [NoCleanup EXCEPT !.at = "loop"].kept = {}
  BY RecordTypes DEF CleanupType
<1> QED BY <1>1 DEF LmTypes, ScheduleCleanup

LEMMA StopFacts ==
  ASSUME LmTypes, NEW k \in Clients
  PROVE  /\ StopCleared(k) \in [Clients -> StopType]
         /\ \A j \in Clients : StopCleared(k)[j] = "ok" => lmStop[j] = "ok"
         /\ StopTask(k) => /\ lmStop' \in [Clients -> StopType]
                           /\ \A j \in Clients : lmStop'[j] = "ok" => lmStop[j] = "ok"
         /\ SeenAtOnce(k) \in Outcomes /\ (SeenAtOnce(k) = "ok" => lmStop[k] = "ok")
BY DEF LmTypes, StopCleared, StopTask, SeenAtOnce, StopType, Outcomes

LEMMA ListenerNowType == LmTypes => ListenerNow \in Clients \cup {Nobody}
BY DEF LmTypes, ListenerNow

Leaves(s) ==
  /\ lmLock' = Left(lmLock, s)
  /\ \A t \in Starters \ {s} : lmStarter'[t] = lmStarter[t]
  /\ lmStarter'[s].at \in {"none", "loop"}

\* What is left of a starter that goes on to another await.
GoesOn(s, at, k) ==
  /\ \A t \in Starters \ {s} : lmStarter'[t] = lmStarter[t]
  /\ lmStarter'[s].at = at /\ lmStarter'[s].k = k /\ lmStarter'[s].c = lmStarter[s].c

\* A starter that starts leaves without a client, or with a fresh one that runs or
\* that it stops again.
LEMMA StartsFacts ==
  ASSUME LmTypes, NEW s \in Starters, NEW want \in Settings,
         NEW stops \in [Clients -> StopType], StartsListener(s, want, stops)
  PROVE  /\ lmStarter' \in [Starters -> StarterType] /\ lmLock' \in Seq(Starters)
         /\ lmStop' \in [Clients -> StopType] /\ lmClient' \in [Clients -> ClientType]
         /\ lmAttached' \in Clients \cup {Nobody} /\ lmCurrent' \in Clients \cup {Nobody}
         /\ lmRestart' \in BOOLEAN
         /\ \A j \in Clients : lmStop'[j] = "ok" => stops[j] = "ok"
         /\ \/ Leaves(s) /\ UNCHANGED lmClient /\ lmAttached' = Nobody /\ lmCurrent' = Nobody
            \/ \E k \in FreshClients :
                 /\ lmLock' = lmLock /\ lmCurrent' = k
                 /\ \/ /\ GoesOn(s, "start", k) /\ lmAttached' = k /\ lmStop' = stops
                       /\ \A j \in Clients : lmClient'[j].runs = (lmClient[j].runs \/ j = k)
                    \/ /\ GoesOn(s, "detach", k) /\ lmStarter'[s].res = "wait"
                       /\ lmAttached' = Nobody /\ UNCHANGED lmClient
<1>0. /\ lmStarter \in [Starters -> StarterType] /\ lmStarter[s] \in StarterType
      /\ lmClient \in [Clients -> ClientType]
  BY DEF LmTypes
<1>1. CASE want = NoListener
  <2>1. Ends(s) /\ UNCHANGED lmClient /\ lmAttached' = Nobody /\ lmCurrent' = Nobody
        /\ lmStop' = stops /\ lmRestart' = FALSE
    BY <1>1 DEF StartsListener
  <2> QED BY <1>0, <2>1, EndsFacts DEF Leaves
<1>2. CASE want # NoListener
  <2>1. PICK k \in FreshClients :
          /\ lmCurrent' = k
          /\ \/ /\ lmAttached' = k
                /\ lmClient' = [lmClient EXCEPT ![k] = [runs |-> TRUE, settings |-> want]]
                /\ lmStarter' = [lmStarter EXCEPT ![s].at = "start", ![s].k = k]
                /\ lmStop' = stops
             \/ /\ lmAttached' = Nobody
                /\ lmStarter' = [lmStarter EXCEPT ![s].at = "detach", ![s].k = k,
                                                  ![s].res = "wait"]
                /\ lmStop' = [stops EXCEPT ![k] = "running"]
                /\ UNCHANGED lmClient
    BY <1>2 DEF StartsListener
  <2>2. k \in Clients
    BY DEF FreshClients
  <2>3. lmLock' = lmLock /\ lmRestart' = lmRestart
    BY <1>2 DEF StartsListener
  <2>4. CASE lmAttached' = k /\ lmStop' = stops
             /\ lmClient' = [lmClient EXCEPT ![k] = [runs |-> TRUE, settings |-> want]]
             /\ lmStarter' = [lmStarter EXCEPT ![s].at = "start", ![s].k = k]
    <3> DEFINE new == [lmStarter[s] EXCEPT !.at = "start", !.k = k]
    <3>1. new \in StarterType /\ new.at = "start" /\ new.k = k /\ new.c = lmStarter[s].c
      BY <1>0, <2>2 DEF StarterType
    <3>2. lmStarter' = [lmStarter EXCEPT ![s] = new]
      BY <2>4
    <3> HIDE DEF new
    <3>3. lmStarter' \in [Starters -> StarterType] /\ GoesOn(s, "start", k)
      BY <1>0, <3>1, <3>2 DEF GoesOn
    <3>4. lmClient' \in [Clients -> ClientType]
          /\ \A j \in Clients : lmClient'[j].runs = (lmClient[j].runs \/ j = k)
      BY <1>0, <2>2, <2>4 DEF ClientType
    <3> QED BY <2>1, <2>2, <2>3, <2>4, <3>3, <3>4 DEF LmTypes
  <2>5. CASE /\ lmAttached' = Nobody /\ UNCHANGED lmClient
             /\ lmStarter' = [lmStarter EXCEPT ![s].at = "detach", ![s].k = k, ![s].res = "wait"]
             /\ lmStop' = [stops EXCEPT ![k] = "running"]
    <3> DEFINE new == [lmStarter[s] EXCEPT !.at = "detach", !.k = k, !.res = "wait"]
    <3>1. new \in StarterType /\ new.at = "detach" /\ new.k = k /\ new.c = lmStarter[s].c
          /\ new.res = "wait"
      BY <1>0, <2>2 DEF StarterType, Outcomes
    <3>2. lmStarter' = [lmStarter EXCEPT ![s] = new]
      BY <2>5
    <3> HIDE DEF new
    <3>3. lmStarter' \in [Starters -> StarterType] /\ GoesOn(s, "detach", k)
          /\ lmStarter'[s].res = "wait"
      BY <1>0, <3>1, <3>2 DEF GoesOn
    <3>4. /\ lmStop' \in [Clients -> StopType]
          /\ \A j \in Clients : lmStop'[j] = "ok" => stops[j] = "ok"
      BY <2>2, <2>5 DEF StopType
    <3> QED BY <1>0, <2>1, <2>2, <2>3, <2>5, <3>3, <3>4 DEF LmTypes
  <2> QED BY <2>1, <2>4, <2>5
<1> QED BY <1>1, <1>2

LEMMA DetachesFacts ==
  ASSUME LmTypes, NEW s \in Starters, NEW stage \in {"detach", "undo"},
         lmStarter[s].k \in Clients, Detaches(s, stage)
  PROVE  /\ lmStarter' \in [Starters -> StarterType] /\ lmStop' \in [Clients -> StopType]
         /\ lmAttached' = Without(lmStarter[s].k, lmAttached)
         /\ \A j \in Clients : lmStop'[j] = "ok" => lmStop[j] = "ok"
         /\ GoesOn(s, stage, lmStarter[s].k)
         /\ lmStarter'[s].res = "ok" => lmStop[lmStarter[s].k] = "ok"
<1> DEFINE r == lmStarter[s]
           new == [r EXCEPT !.at = stage, !.res = SeenAtOnce(r.k), !.cancelled = FALSE]
<1>1. r \in StarterType /\ lmStarter \in [Starters -> StarterType] /\ SeenAtOnce(r.k) \in Outcomes
  BY StopFacts DEF LmTypes
<1>2. new \in StarterType /\ new.at = stage /\ new.k = r.k /\ new.c = r.c
      /\ new.res = SeenAtOnce(r.k)
  BY <1>1 DEF StarterType
<1>3. lmStarter' = [lmStarter EXCEPT ![s] = new]
  BY DEF Detaches
<1> HIDE DEF new
<1>4. lmStarter' \in [Starters -> StarterType] /\ GoesOn(s, stage, r.k)
      /\ lmStarter'[s].res = SeenAtOnce(r.k)
  BY <1>1, <1>2, <1>3 DEF GoesOn
<1> QED BY <1>1, <1>4, StopFacts DEF Detaches

\* The cleanup stops the next client of its pass, or the pass is over.
LEMMA PassFacts ==
  ASSUME LmTypes, NEW todo \in SUBSET Clients, NEW kept \in SUBSET Clients,
         NEW seen \in SUBSET Clients, NEW stops \in [Clients -> StopType],
         CleanupPass(todo, kept, seen, stops)
  PROVE  /\ lmCleanup' \in CleanupType /\ lmStop' \in [Clients -> StopType]
         /\ lmDeferred' \subseteq Clients
         /\ \A j \in Clients : lmStop'[j] = "ok" => stops[j] = "ok"
         /\ \/ \E k \in todo :
                 /\ lmCleanup'.at = "stop" /\ lmCleanup'.k = k
                 /\ lmCleanup'.res = "ok" => lmStop[k] = "ok"
                 /\ lmCleanup'.todo = todo \ {k}
                 /\ lmCleanup'.kept = kept /\ lmCleanup'.seen = seen
                 /\ UNCHANGED lmDeferred
            \/ /\ todo = {} /\ lmDeferred' = (lmDeferred \ seen) \cup kept
               /\ lmCleanup'.at \in {"sleep", "loop"}
               /\ lmCleanup'.todo = {} /\ lmCleanup'.kept = {} /\ lmCleanup'.seen = {}
<1>1. CASE todo # {}
  <2> DEFINE k == CHOOSE j \in todo : TRUE
             new == [NoCleanup EXCEPT !.at = "stop", !.k = k, !.res = SeenAtOnce(k),
                                      !.todo = todo \ {k}, !.kept = kept, !.seen = seen]
  <2>1. k \in todo /\ k \in Clients
    BY <1>1
  <2>2. /\ lmStop' = [stops EXCEPT ![k] = IF @ = "none" THEN "running" ELSE @]
        /\ lmCleanup' = new /\ UNCHANGED lmDeferred
    BY <1>1 DEF CleanupPass
  <2> HIDE DEF k
  <2>3. SeenAtOnce(k) \in Outcomes /\ (SeenAtOnce(k) = "ok" => lmStop[k] = "ok")
    BY <2>1, StopFacts
  <2>4. /\ new \in CleanupType /\ new.at = "stop" /\ new.k = k /\ new.res = SeenAtOnce(k)
        /\ new.todo = todo \ {k} /\ new.kept = kept /\ new.seen = seen
    BY <2>1, <2>3, RecordTypes DEF CleanupType
  <2>5. lmStop' \in [Clients -> StopType] /\ \A j \in Clients : lmStop'[j] = "ok" => stops[j] = "ok"
    BY <2>1, <2>2 DEF StopType
  <2> QED BY <2>1, <2>2, <2>3, <2>4, <2>5 DEF LmTypes
<1>2. CASE todo = {}
  <2>1. /\ lmStop' = stops /\ lmDeferred' = (lmDeferred \ seen) \cup kept
        /\ \/ lmCleanup' = [NoCleanup EXCEPT !.at = "sleep"]
           \/ lmCleanup' = [NoCleanup EXCEPT !.at = "loop"]
    BY <1>2 DEF CleanupPass
  <2>2. /\ lmCleanup' \in CleanupType /\ lmCleanup'.at \in {"sleep", "loop"}
        /\ lmCleanup'.todo = {} /\ lmCleanup'.kept = {} /\ lmCleanup'.seen = {}
    BY <2>1, RecordTypes DEF CleanupType
  <2> QED BY <1>2, <2>1, <2>2 DEF LmTypes
<1> QED BY <1>1, <1>2

-------------------------------------------------------------------------------
(* The inductive invariant.                                                  *)

\* A starter that has taken the lock and has not left it.
Busy == {"stop", "start", "detach", "undo"}

\* Whoever has asked for the lock is in it, and whoever works is its holder.
LockKnown == \A s \in Starters : lmStarter[s].at \in Busy \cup {"lock"} =>
               \E i \in DOMAIN lmLock : lmLock[i] = s
LockHeld  == \A s \in Starters : lmStarter[s].at \in Busy => lmLock # <<>> /\ lmLock[1] = s

\* What is known to have stopped does not run again.
StopsSeen ==
  /\ \A k \in Clients : lmStop[k] = "ok" => ~lmClient[k].runs
  /\ \A s \in Starters : lmStarter[s].at \in {"stop", "detach", "undo"} /\ lmStarter[s].res = "ok"
       => ~lmClient[lmStarter[s].k].runs
  /\ lmEntry.at = "stop" /\ lmEntry.res = "ok" => ~lmClient[lmEntry.k].runs
  /\ lmCleanup.at = "stop" /\ lmCleanup.res = "ok" => ~lmClient[lmCleanup.k].runs

\* The cleanup lives while anything is deferred, and its pass keeps what still runs.
PassKnown ==
  /\ lmDeferred # {} => lmCleanup.at # "none"
  /\ lmCleanup.seen \subseteq lmDeferred
  /\ lmCleanup.kept \subseteq lmCleanup.seen /\ lmCleanup.todo \subseteq lmCleanup.seen
  /\ lmCleanup.at = "stop" => lmCleanup.k \in lmCleanup.seen
  /\ \A k \in lmCleanup.seen : lmClient[k].runs =>
       lmCleanup.at = "stop" /\ k \in lmCleanup.todo \cup lmCleanup.kept \cup {lmCleanup.k}

\* Who has a client that runs in hand.
HeldByEntry(k) == \/ lmEntry.at \in {"on", "unload", "options"} /\ k = ListenerNow
                  \/ lmEntry.at = "stop" /\ k = lmEntry.k
HeldByStarter(k) == \E s \in Starters : lmStarter[s].at \in Busy /\ lmStarter[s].k = k
AllHeld == \A k \in Clients : lmClient[k].runs =>
             k \in lmDeferred \/ HeldByEntry(k) \/ HeldByStarter(k)

\* A starter whose coordinator still owns the entry works on the entry's client.
Hands == \A s \in Starters : Owns(lmStarter[s].c) =>
           /\ lmStarter[s].at = "stop" => lmDeferred = {} /\ ListenerNow = lmStarter[s].k
           /\ lmStarter[s].at = "start" => ListenerNow = lmStarter[s].k

AtMostOne == \A j, k \in Clients : lmClient[j].runs /\ lmClient[k].runs => j = k

Structure == LockKnown /\ LockHeld /\ StopsSeen /\ PassKnown /\ AllHeld /\ Hands /\ AtMostOne
LmInvariant == LmTypes /\ Placed /\ Structure

LEMMA StructureInit == LmInit => Structure
<1> SUFFICES ASSUME LmInit PROVE Structure
  OBVIOUS
<1>1. \A s \in Starters : lmStarter[s].at = "none"
  BY RecordTypes DEF LmInit
<1>2. \A k \in Clients : ~lmClient[k].runs
  BY DEF LmInit
<1>3. LockKnown /\ LockHeld /\ Hands
  BY <1>1 DEF LockKnown, LockHeld, Hands, Busy
<1>4. StopsSeen
  BY <1>1, <1>2, RecordTypes DEF LmInit, StopsSeen
<1>5. PassKnown
  BY RecordTypes DEF LmInit, PassKnown
<1>6. AllHeld /\ AtMostOne
  BY <1>2 DEF AllHeld, AtMostOne
<1> QED BY <1>3, <1>4, <1>5, <1>6 DEF Structure

\* The cleanup goes on as it was, or has just been started.
CleanupKept ==
  \/ lmCleanup' = lmCleanup
  \/ /\ lmCleanup.at = "none" /\ lmCleanup'.at = "loop"
     /\ lmCleanup'.seen = {} /\ lmCleanup'.todo = {} /\ lmCleanup'.kept = {}

\* A starter ends its work: the client it had in hand has stopped, is deferred, or is
\* the entry's; nobody else is disturbed.
LEMMA LeavingKeeps ==
  ASSUME LmInvariant, LmTypes', NEW s \in Starters, Leaves(s), lmStarter'[s].at \in {"none", "loop"},
         lmClient' = lmClient, lmEntry' = lmEntry, CleanupKept,
         \A j \in Clients : lmStop'[j] = "ok" => lmStop[j] = "ok",
         lmDeferred \subseteq lmDeferred', lmDeferred' # {} => lmCleanup'.at # "none",
         \A j \in Clients : j = ListenerNow /\ lmClient[j].runs /\ j \notin lmDeferred'
                              => ListenerNow' = j,
         \A j \in Clients : lmStarter[s].at \in Busy /\ j = lmStarter[s].k /\ lmClient[j].runs
                              => j \in lmDeferred' \/ HeldByEntry(j)',
         lmStarter[s].at \in Busy \/ (lmDeferred' = lmDeferred /\ ListenerNow' = ListenerNow)
  PROVE  Placed' /\ Structure'
<1>0. /\ \A t \in Starters \ {s} : lmStarter'[t] = lmStarter[t]
      /\ lmStarter'[s].at \notin Busy \cup {"lock"}
  BY DEF Leaves, Busy
<1>1. LockKnown' /\ LockHeld'
  <2>1. \A t \in Starters \ {s} :
          /\ (\E i \in DOMAIN lmLock : lmLock[i] = t) => \E i \in DOMAIN lmLock' : lmLock'[i] = t
          /\ lmLock # <<>> /\ lmLock[1] = t => lmLock' # <<>> /\ lmLock'[1] = t
    BY LockLeft DEF Leaves, LmInvariant
  <2> QED BY <1>0, <2>1 DEF LmInvariant, Structure, LockKnown, LockHeld
<1>2. Placed'
  BY <1>0 DEF LmInvariant, Placed, CleanupKept, Busy
<1>3. StopsSeen'
  BY <1>0 DEF LmInvariant, Structure, StopsSeen, CleanupKept, Busy
<1>4. PassKnown'
  BY DEF LmInvariant, Structure, PassKnown, CleanupKept
<1>5. AllHeld'
  <2> SUFFICES ASSUME NEW k \in Clients, lmClient[k].runs
               PROVE  k \in lmDeferred' \/ HeldByEntry(k)' \/ HeldByStarter(k)'
    BY DEF AllHeld
  <2>1. k \in lmDeferred \/ HeldByEntry(k) \/ HeldByStarter(k)
    BY DEF LmInvariant, Structure, AllHeld
  <2>2. CASE HeldByEntry(k)
    BY <2>2 DEF HeldByEntry
  <2>3. CASE HeldByStarter(k)
    <3>1. PICK t \in Starters : lmStarter[t].at \in Busy /\ lmStarter[t].k = k
      BY <2>3 DEF HeldByStarter
    <3>2. CASE t = s
      BY <3>1, <3>2
    <3>3. CASE t # s
      BY <1>0, <3>1, <3>3 DEF HeldByStarter
    <3> QED BY <3>2, <3>3
  <2> QED BY <2>1, <2>2, <2>3
<1>6. Hands'
  <2>1. CASE lmStarter[s].at \in Busy
    <3>1. \A t \in Starters : lmStarter'[t].at \notin Busy
      BY <1>0, <2>1 DEF LmInvariant, Structure, LockHeld
    <3> QED BY <3>1 DEF Hands, Busy
  <2>2. CASE lmDeferred' = lmDeferred /\ ListenerNow' = ListenerNow
    BY <1>0, <2>2 DEF LmInvariant, Structure, Hands, Owns, Busy
  <2> QED BY <2>1, <2>2
<1>7. AtMostOne'
  BY DEF LmInvariant, Structure, AtMostOne
<1> QED BY <1>1, <1>2, <1>3, <1>4, <1>5, <1>6, <1>7 DEF Structure

\* The holder of the lock goes on with a client.
LEMMA GoingOnKeeps ==
  ASSUME LmInvariant, LmTypes', NEW s \in Starters, NEW at \in Busy, NEW k \in Clients,
         GoesOn(s, at, k), lmLock' = lmLock, lmLock # <<>>, lmLock[1] = s,
         lmClient' = lmClient, lmEntry' = lmEntry, lmCleanup' = lmCleanup,
         lmDeferred' = lmDeferred,
         \A j \in Clients : lmStop'[j] = "ok" => lmStop[j] = "ok",
         lmStarter'[s].res = "ok" => lmStop[k] = "ok" \/ ~lmClient[k].runs,
         \A j \in Clients : j = ListenerNow => ListenerNow' = j \/ j = k,
         lmStarter[s].at \in Busy => lmStarter[s].k = k,
         at = "stop" => lmDeferred = {} /\ ListenerNow' = k,
         at # "start"
  PROVE  Placed' /\ Structure'
<1>0. /\ \A t \in Starters \ {s} : lmStarter'[t] = lmStarter[t]
      /\ lmStarter'[s].at = at /\ lmStarter'[s].k = k /\ lmStarter'[s].c = lmStarter[s].c
  BY DEF GoesOn
<1>1. LockKnown' /\ LockHeld'
  <2>1. \E i \in DOMAIN lmLock : lmLock[i] = s
    BY DEF LmInvariant, LmTypes
  <2> QED BY <1>0, <2>1 DEF LmInvariant, Structure, LockKnown, LockHeld
<1>2. Placed'
  BY <1>0 DEF LmInvariant, Placed, Busy
<1>3. StopsSeen'
  <2>1. lmStarter'[s].res = "ok" => ~lmClient[k].runs
    BY DEF LmInvariant, Structure, StopsSeen
  <2> QED BY <1>0, <2>1 DEF LmInvariant, Structure, StopsSeen
<1>4. PassKnown'
  BY DEF LmInvariant, Structure, PassKnown
<1>5. AllHeld'
  <2> SUFFICES ASSUME NEW j \in Clients, lmClient[j].runs
               PROVE  j \in lmDeferred' \/ HeldByEntry(j)' \/ HeldByStarter(j)'
    BY DEF AllHeld
  <2>1. j \in lmDeferred \/ HeldByEntry(j) \/ HeldByStarter(j)
    BY DEF LmInvariant, Structure, AllHeld
  <2>0. HeldByStarter(k)'
    BY <1>0 DEF HeldByStarter
  <2>2. CASE HeldByEntry(j)
    BY <2>0, <2>2 DEF HeldByEntry
  <2>3. CASE HeldByStarter(j)
    BY <1>0, <2>0, <2>3 DEF HeldByStarter
  <2> QED BY <2>1, <2>2, <2>3
<1>6. Hands'
  <2>1. \A t \in Starters \ {s} : lmStarter'[t].at \notin Busy
    BY <1>0 DEF LmInvariant, Structure, LockHeld
  <2> QED BY <1>0, <2>1 DEF Hands, Busy, LmInvariant
<1>7. AtMostOne'
  BY DEF LmInvariant, Structure, AtMostOne
<1> QED BY <1>1, <1>2, <1>3, <1>4, <1>5, <1>6, <1>7 DEF Structure

-------------------------------------------------------------------------------
(* The steps of a starter.                                                   *)

LEMMA BeginsKeeps ==
  ASSUME LmInvariant, NEW s \in Starters, StarterBegins(s) PROVE LmInvariant'
<1>0. /\ lmStarter \in [Starters -> StarterType] /\ lmLock \in Seq(Starters)
      /\ lmStarter[s] \in StarterType /\ lmStarter[s].at = "loop"
  BY DEF LmInvariant, LmTypes, StarterBegins
<1>3. (\A t \in Starters \ {s} : lmStarter'[t] = lmStarter[t]) /\ lmStarter'[s].at \notin Busy
        => AllHeld'
  <2> SUFFICES ASSUME \A t \in Starters \ {s} : lmStarter'[t] = lmStarter[t],
                      NEW k \in Clients, lmClient[k].runs
               PROVE  k \in lmDeferred' \/ HeldByEntry(k)' \/ HeldByStarter(k)'
    BY DEF AllHeld, StarterBegins
  <2>1. k \in lmDeferred \/ HeldByEntry(k) \/ HeldByStarter(k)
    BY DEF LmInvariant, Structure, AllHeld
  <2>2. CASE k \in lmDeferred \/ HeldByEntry(k)
    BY <2>2 DEF HeldByEntry, ListenerNow, StarterBegins
  <2>3. CASE HeldByStarter(k)
    <3>1. PICK t \in Starters : lmStarter[t].at \in Busy /\ lmStarter[t].k = k
      BY <2>3 DEF HeldByStarter
    <3>2. t # s
      BY <1>0, <3>1 DEF Busy
    <3> QED BY <3>1, <3>2 DEF HeldByStarter
  <2> QED BY <2>1, <2>2, <2>3
<1>1. CASE lmLock' = lmLock /\ lmStarter' = [lmStarter EXCEPT ![s] = NoStarter]
           /\ lmPending' = lmPending
  <2>1. LmTypes'
    BY <1>0, <1>1, RecordTypes DEF LmInvariant, LmTypes, StarterBegins
  <2>2. /\ \A t \in Starters \ {s} : lmStarter'[t] = lmStarter[t]
        /\ lmStarter'[s].at = "none"
    BY <1>0, <1>1, RecordTypes
  <2>3. LockKnown' /\ LockHeld' /\ Placed' /\ StopsSeen' /\ Hands'
    <3>1. LockKnown' /\ LockHeld'
      BY <1>1, <2>2 DEF LmInvariant, Structure, LockKnown, LockHeld, Busy
    <3>2. Placed' /\ StopsSeen' /\ Hands'
      BY <1>0, <2>2 DEF LmInvariant, Structure, Placed, StopsSeen, Hands, Owns, ListenerNow,
                        StarterBegins
    <3> QED BY <3>1, <3>2
  <2>4. PassKnown' /\ AtMostOne'
    BY DEF LmInvariant, Structure, PassKnown, AtMostOne, StarterBegins
  <2>5. AllHeld'
    BY <1>3, <2>2 DEF Busy
  <2> QED BY <2>1, <2>3, <2>4, <2>5 DEF LmInvariant, Structure
<1>2. CASE /\ lmLock' = Append(lmLock, s) /\ lmPending' = (lmPending /\ lmStarter[s].kind # "options")
           /\ lmStarter' = [lmStarter EXCEPT ![s].at = "lock"]
  <2> DEFINE new == [lmStarter[s] EXCEPT !.at = "lock"]
  <2>0. new \in StarterType /\ new.at = "lock" /\ lmStarter' = [lmStarter EXCEPT ![s] = new]
    BY <1>0, <1>2 DEF StarterType
  <2> HIDE DEF new
  <2>1. LmTypes'
    <3>1. lmPending' \in BOOLEAN
      BY <1>2
    <3>2. lmStarter' \in [Starters -> StarterType]
      BY <1>0, <2>0
    <3>3. lmLock' \in Seq(Starters)
      BY <1>0, <1>2
    <3> QED BY <3>1, <3>2, <3>3 DEF LmInvariant, LmTypes, StarterBegins
  <2>2. /\ \A t \in Starters \ {s} : lmStarter'[t] = lmStarter[t]
        /\ lmStarter'[s].at = "lock"
    BY <1>0, <2>0
  <2>3. /\ Len(lmLock') = Len(lmLock) + 1 /\ Len(lmLock) \in Nat /\ lmLock'[Len(lmLock) + 1] = s
        /\ \A i \in 1..Len(lmLock) : lmLock'[i] = lmLock[i]
        /\ DOMAIN lmLock = 1..Len(lmLock) /\ DOMAIN lmLock' = 1..Len(lmLock')
    BY <1>0, <1>2
  <2>4. LockKnown'
    <3> SUFFICES ASSUME NEW t \in Starters, lmStarter'[t].at \in Busy \cup {"lock"}
                 PROVE  \E i \in DOMAIN lmLock' : lmLock'[i] = t
      BY DEF LockKnown
    <3>1. CASE t = s
      BY <2>3, <3>1
    <3>2. CASE t # s
      <4>1. PICK i \in DOMAIN lmLock : lmLock[i] = t
        BY <2>2, <3>2 DEF LmInvariant, Structure, LockKnown
      <4>2. i \in DOMAIN lmLock' /\ lmLock'[i] = t
        BY <2>3, <4>1
      <4> QED BY <4>2
    <3> QED BY <3>1, <3>2
  <2>5. LockHeld'
    <3> SUFFICES ASSUME NEW t \in Starters, lmStarter'[t].at \in Busy
                 PROVE  lmLock' # <<>> /\ lmLock'[1] = t
      BY DEF LockHeld
    <3>1. lmLock # <<>> /\ lmLock[1] = t
      BY <2>2 DEF LmInvariant, Structure, LockHeld, Busy
    <3>2. 1 \in 1..Len(lmLock)
      BY <1>0, <3>1
    <3>3. lmLock' # <<>>
      BY <2>1, <2>3 DEF LmTypes
    <3> QED BY <2>3, <3>1, <3>2, <3>3
  <2>6. Placed' /\ StopsSeen' /\ Hands'
    BY <1>0, <2>2 DEF LmInvariant, Structure, Placed, StopsSeen, Hands,
                          Owns, ListenerNow, StarterBegins
  <2>7. PassKnown' /\ AtMostOne'
    BY DEF LmInvariant, Structure, PassKnown, AtMostOne, StarterBegins
  <2>8. AllHeld'
    BY <1>3, <2>2 DEF Busy
  <2> QED BY <2>1, <2>4, <2>5, <2>6, <2>7, <2>8 DEF LmInvariant, Structure
<1> QED BY <1>1, <1>2 DEF StarterBegins

\* Who is at the head of the lock, or works, is its holder.
LEMMA Holder ==
  ASSUME LmInvariant, NEW s \in Starters,
         HoldsListenerLock(s) \/ lmStarter[s].at \in Busy
  PROVE  /\ lmLock # <<>> /\ lmLock[1] = s
         /\ \A t \in Starters \ {s} : lmStarter[t].at \notin Busy
<1>1. lmLock # <<>> /\ lmLock[1] = s
  BY DEF HoldsListenerLock, LmInvariant, LmTypes, Structure, LockHeld, LockKnown
<1> QED BY <1>1 DEF LmInvariant, Structure, LockHeld

LEMMA MustNotStartKeeps ==
  ASSUME LmInvariant, NEW s \in Starters, MustNotStart(s) PROVE LmInvariant'
<1>0. LmTypes /\ lmStarter[s].at = "lock"
  BY DEF LmInvariant, MustNotStart, HoldsListenerLock
<1>1. /\ Ends(s) /\ lmClient' = lmClient /\ lmEntry' = lmEntry /\ lmDeferred' = lmDeferred
      /\ lmStop' = lmStop /\ lmAttached' = lmAttached /\ lmCurrent' = lmCurrent
      /\ lmWanted' = lmWanted /\ lmPending' = lmPending /\ lmStale' = lmStale
  BY DEF MustNotStart
<1>2. lmStarter' \in [Starters -> StarterType] /\ lmLock' \in Seq(Starters) /\ Leaves(s)
  BY <1>0, <1>1, EndsFacts DEF Leaves
<1>3. /\ CleanupKept /\ lmCleanup' \in CleanupType /\ lmRestart' \in BOOLEAN
      /\ lmDeferred # {} => lmCleanup'.at # "none"
  <2>1. CASE UNCHANGED <<lmRestart, lmCleanup>>
    BY <1>0, <2>1 DEF CleanupKept, LmTypes, LmInvariant, Structure, PassKnown
  <2>2. CASE lmRestart' = (lmWanted # NoListener) /\ ScheduleCleanup
    BY <1>0, <2>2, ScheduleCleanupFacts DEF CleanupKept
  <2> QED BY <2>1, <2>2 DEF MustNotStart
<1>4. LmTypes'
  BY <1>0, <1>1, <1>2, <1>3 DEF LmTypes
<1>5. ListenerNow' = ListenerNow
  BY <1>1 DEF ListenerNow
<1>6. lmStarter[s].at \notin Busy /\ lmStarter'[s].at \in {"none", "loop"}
  BY <1>0, <1>2 DEF Busy, Leaves
<1>7. Placed' /\ Structure'
  BY <1>1, <1>2, <1>3, <1>4, <1>5, <1>6, LeavingKeeps
<1> QED BY <1>4, <1>7 DEF LmInvariant

LEMMA KeepsListenerKeeps ==
  ASSUME LmInvariant, NEW s \in Starters, KeepsListener(s) PROVE LmInvariant'
<1>0. LmTypes /\ lmStarter[s].at = "lock"
  BY DEF LmInvariant, KeepsListener, MayStart, HoldsListenerLock
<1>1. /\ Ends(s) /\ lmClient' = lmClient /\ lmEntry' = lmEntry /\ lmDeferred' = lmDeferred
      /\ lmStop' = lmStop /\ lmAttached' = ListenerNow /\ lmCurrent' = lmCurrent
      /\ lmWanted' = lmWanted /\ lmPending' = lmPending /\ lmStale' = lmStale
      /\ lmRestart' = lmRestart /\ lmCleanup' = lmCleanup /\ ListenerNow # Nobody
  BY DEF KeepsListener
<1>2. lmStarter' \in [Starters -> StarterType] /\ lmLock' \in Seq(Starters) /\ Leaves(s)
  BY <1>0, <1>1, EndsFacts DEF Leaves
<1>3. CleanupKept /\ (lmDeferred # {} => lmCleanup'.at # "none")
  BY <1>1 DEF CleanupKept, LmInvariant, Structure, PassKnown
<1>4. LmTypes'
  BY <1>0, <1>1, <1>2, ListenerNowType DEF LmTypes
<1>5. ListenerNow' = ListenerNow
  BY <1>1 DEF ListenerNow
<1>6. lmStarter[s].at \notin Busy /\ lmStarter'[s].at \in {"none", "loop"}
  BY <1>0, <1>2 DEF Busy, Leaves
<1>7. Placed' /\ Structure'
  BY <1>1, <1>2, <1>3, <1>4, <1>5, <1>6, LeavingKeeps
<1> QED BY <1>4, <1>7 DEF LmInvariant

LEMMA StopsListenerKeeps ==
  ASSUME LmInvariant, NEW s \in Starters, StopsListener(s) PROVE LmInvariant'
<1> DEFINE k == ListenerNow
           new == [lmStarter[s] EXCEPT !.at = "stop", !.k = k, !.want = lmWanted,
                                       !.res = SeenAtOnce(k)]
<1>0. /\ LmTypes /\ lmStarter[s].at = "lock" /\ k \in Clients /\ lmDeferred = {}
      /\ HoldsListenerLock(s)
  BY ListenerNowType DEF LmInvariant, StopsListener, MayStart, HoldsListenerLock
<1>1. /\ StopTask(k) /\ lmClient' = lmClient /\ lmEntry' = lmEntry /\ lmDeferred' = lmDeferred
      /\ lmAttached' = lmAttached /\ lmCurrent' = lmCurrent /\ lmLock' = lmLock
      /\ lmWanted' = lmWanted /\ lmPending' = lmPending /\ lmStale' = lmStale
      /\ lmRestart' = lmRestart /\ lmCleanup' = lmCleanup
      /\ lmStarter' = [lmStarter EXCEPT ![s] = new]
  BY DEF StopsListener
<1>2. /\ lmStop' \in [Clients -> StopType] /\ \A j \in Clients : lmStop'[j] = "ok" => lmStop[j] = "ok"
      /\ SeenAtOnce(k) \in Outcomes /\ (SeenAtOnce(k) = "ok" => lmStop[k] = "ok")
  BY <1>0, <1>1, StopFacts
<1>3. ListenerNow' = k
  BY <1>1 DEF ListenerNow
<1> HIDE DEF k
<1>4. /\ new \in StarterType /\ new.at = "stop" /\ new.k = k /\ new.c = lmStarter[s].c
      /\ new.res = SeenAtOnce(k)
  BY <1>0, <1>2 DEF LmTypes, StarterType
<1> HIDE DEF new
<1>5. /\ lmStarter' \in [Starters -> StarterType] /\ GoesOn(s, "stop", k)
      /\ lmStarter'[s].res = "ok" => lmStop[k] = "ok"
  BY <1>0, <1>1, <1>2, <1>4 DEF LmTypes, GoesOn
<1>6. LmTypes'
  BY <1>0, <1>1, <1>2, <1>5 DEF LmTypes
<1>7. lmLock # <<>> /\ lmLock[1] = s /\ lmStarter[s].at \notin Busy /\ "stop" \in Busy
  BY <1>0, Holder DEF Busy
<1>8. \A j \in Clients : j = ListenerNow => ListenerNow' = j \/ j = k
  BY DEF k
<1>9. Placed' /\ Structure'
  BY <1>0, <1>1, <1>2, <1>3, <1>5, <1>6, <1>7, <1>8, GoingOnKeeps
<1> QED BY <1>6, <1>9 DEF LmInvariant

\* No client runs when a starter may start one.
LEMMA NoneRuns ==
  ASSUME LmInvariant, NEW s \in Starters, Owns(lmStarter[s].c),
         \/ HoldsListenerLock(s) /\ lmDeferred = {} /\ ListenerNow = Nobody
         \/ lmStarter[s].at = "stop" /\ lmStarter[s].res = "ok"
  PROVE  \A k \in Clients : ~lmClient[k].runs
<1> SUFFICES ASSUME NEW k \in Clients, lmClient[k].runs PROVE FALSE
  OBVIOUS
<1>1. k \in lmDeferred \/ HeldByEntry(k) \/ HeldByStarter(k)
  BY DEF LmInvariant, Structure, AllHeld
<1>2. \A t \in Starters \ {s} : lmStarter[t].at \notin Busy
  BY Holder DEF Busy
<1>3. lmEntry.at = "on"
  BY DEF Owns
<1>4. CASE HoldsListenerLock(s) /\ lmDeferred = {} /\ ListenerNow = Nobody
  <2>1. lmStarter[s].at \notin Busy
    BY <1>4 DEF HoldsListenerLock, Busy
  <2>2. ~HeldByStarter(k)
    BY <1>2, <2>1 DEF HeldByStarter
  <2> QED BY <1>1, <1>3, <1>4, <2>2, ListenerAssumption DEF HeldByEntry
<1>5. CASE lmStarter[s].at = "stop" /\ lmStarter[s].res = "ok"
  <2>1. lmDeferred = {} /\ ListenerNow = lmStarter[s].k
    BY <1>5 DEF LmInvariant, Structure, Hands
  <2>2. ~lmClient[lmStarter[s].k].runs
    BY <1>5 DEF LmInvariant, Structure, StopsSeen
  <2>3. HeldByStarter(k) => k = lmStarter[s].k
    BY <1>2 DEF HeldByStarter
  <2> QED BY <1>1, <1>3, <2>1, <2>2, <2>3 DEF HeldByEntry
<1> QED BY <1>4, <1>5

LEMMA StartingKeeps ==
  ASSUME LmInvariant, NEW s \in Starters, NEW want \in Settings,
         NEW stops \in [Clients -> StopType], StartsListener(s, want, stops),
         \A j \in Clients : stops[j] = "ok" => lmStop[j] = "ok",
         lmEntry' = lmEntry, lmWanted' = lmWanted, lmPending' = lmPending,
         lmDeferred' = lmDeferred, lmStale' = lmStale, lmCleanup' = lmCleanup,
         Owns(lmStarter[s].c),
         \/ HoldsListenerLock(s) /\ lmDeferred = {} /\ ListenerNow = Nobody
         \/ lmStarter[s].at = "stop" /\ lmStarter[s].res = "ok"
  PROVE  LmInvariant'
<1> DEFINE SetsOut(k) ==
       /\ lmLock' = lmLock /\ lmCurrent' = k
       /\ \/ /\ GoesOn(s, "start", k) /\ lmAttached' = k /\ lmStop' = stops
             /\ \A j \in Clients : lmClient'[j].runs = (lmClient[j].runs \/ j = k)
          \/ /\ GoesOn(s, "detach", k) /\ lmStarter'[s].res = "wait"
             /\ lmAttached' = Nobody /\ UNCHANGED lmClient
<1>0. LmTypes
  BY DEF LmInvariant
<1>1. /\ lmStarter' \in [Starters -> StarterType] /\ lmLock' \in Seq(Starters)
      /\ lmStop' \in [Clients -> StopType] /\ lmClient' \in [Clients -> ClientType]
      /\ lmAttached' \in Clients \cup {Nobody} /\ lmCurrent' \in Clients \cup {Nobody}
      /\ lmRestart' \in BOOLEAN
      /\ \A j \in Clients : lmStop'[j] = "ok" => lmStop[j] = "ok"
      /\ \/ Leaves(s) /\ UNCHANGED lmClient /\ lmAttached' = Nobody /\ lmCurrent' = Nobody
         \/ \E k \in FreshClients : SetsOut(k)
  BY <1>0, StartsFacts
<1> HIDE DEF SetsOut
<1>2. LmTypes'
  BY <1>0, <1>1 DEF LmTypes
<1>3. \A k \in Clients : ~lmClient[k].runs
  BY NoneRuns
<1>4. /\ lmLock # <<>> /\ lmLock[1] = s
      /\ \A t \in Starters \ {s} : lmStarter[t].at \notin Busy
  BY Holder DEF Busy
<1>5. CASE Leaves(s) /\ UNCHANGED lmClient /\ lmAttached' = Nobody /\ lmCurrent' = Nobody
  <2>1. CleanupKept /\ (lmDeferred # {} => lmCleanup'.at # "none")
    BY DEF CleanupKept, LmInvariant, Structure, PassKnown
  <2>2. ListenerNow' = Nobody
    BY <1>5 DEF ListenerNow
  <2>3. lmStarter[s].at \in Busy \/ (lmDeferred' = lmDeferred /\ ListenerNow' = ListenerNow)
    BY <2>2 DEF Busy
  <2>4. lmStarter'[s].at \in {"none", "loop"}
    BY <1>5 DEF Leaves
  <2>5. Placed' /\ Structure'
    BY <1>1, <1>2, <1>3, <1>5, <2>1, <2>3, <2>4, LeavingKeeps
  <2> QED BY <1>2, <2>5 DEF LmInvariant
<1>6. ASSUME NEW k \in FreshClients, SetsOut(k) PROVE LmInvariant'
  <2>0. /\ k \in Clients /\ lmStop[k] = "none" /\ k # lmEntry.k /\ k # lmCleanup.k
        /\ k \notin lmCleanup.seen
    BY DEF FreshClients
  <2>1. /\ \A t \in Starters \ {s} : lmStarter'[t] = lmStarter[t]
        /\ lmStarter'[s].at \in {"start", "detach"} /\ lmStarter'[s].k = k
        /\ lmStarter'[s].c = lmStarter[s].c
        /\ lmStarter'[s].at = "start" => ListenerNow' = k
        /\ lmStarter'[s].at = "detach" => lmStarter'[s].res = "wait"
    BY <1>6, <2>0, ListenerAssumption DEF SetsOut, GoesOn, ListenerNow
  <2>2. \A j \in Clients : lmClient'[j].runs => j = k
    BY <1>3, <1>6 DEF SetsOut
  <2>3. \A t \in Starters \ {s} : lmStarter'[t].at \notin Busy
    BY <1>4, <2>1
  <2>4. LockKnown' /\ LockHeld'
    <3>1. \E i \in DOMAIN lmLock : lmLock[i] = s
      BY <1>0, <1>4 DEF LmTypes
    <3>2. lmLock' = lmLock
      BY <1>6 DEF SetsOut
    <3> QED BY <1>4, <2>1, <2>3, <3>1, <3>2 DEF LmInvariant, Structure, LockKnown, LockHeld
  <2>5. Placed'
    BY <2>0, <2>1 DEF LmInvariant, Placed
  <2>6. StopsSeen'
    <3>1. \A j \in Clients : lmStop'[j] = "ok" => ~lmClient'[j].runs
      BY <1>1, <2>0, <2>2
    <3>2. \A t \in Starters :
            lmStarter'[t].at \in {"stop", "detach", "undo"} /\ lmStarter'[t].res = "ok" => FALSE
      BY <2>1, <2>3 DEF Busy
    <3>3. lmEntry.at = "stop" => ~lmClient'[lmEntry.k].runs
      BY <2>0, <2>2 DEF LmInvariant, Placed
    <3>4. lmCleanup.at = "stop" => ~lmClient'[lmCleanup.k].runs
      BY <2>0, <2>2 DEF LmInvariant, Placed
    <3> QED BY <3>1, <3>2, <3>3, <3>4 DEF StopsSeen
  <2>7. PassKnown'
    <3>1. \A j \in lmCleanup.seen : ~lmClient'[j].runs
      BY <1>0, <2>0, <2>2 DEF LmTypes, CleanupType
    <3> QED BY <3>1 DEF LmInvariant, Structure, PassKnown
  <2>8. AllHeld' /\ AtMostOne'
    BY <2>1, <2>2 DEF AllHeld, AtMostOne, HeldByStarter, Busy
  <2>9. Hands'
    BY <2>1, <2>3 DEF Hands, Busy
  <2> QED BY <1>2, <2>4, <2>5, <2>6, <2>7, <2>8, <2>9 DEF LmInvariant, Structure
<1> QED BY <1>1, <1>5, <1>6

LEMMA StartsAnewKeeps ==
  ASSUME LmInvariant, NEW s \in Starters, StartsAnew(s) PROVE LmInvariant'
<1>1. lmWanted \in Settings /\ lmStop \in [Clients -> StopType]
  BY DEF LmInvariant, LmTypes
<1> QED BY <1>1, StartingKeeps DEF StartsAnew, MayStart

-------------------------------------------------------------------------------
LEMMA ListenerStoppedKeeps ==
  ASSUME LmInvariant, NEW s \in Starters, ListenerStopped(s) PROVE LmInvariant'
<1> DEFINE k == lmStarter[s].k
<1>0. /\ LmTypes /\ lmStarter[s].at = "stop" /\ lmStarter[s].res = "ok" /\ k \in Clients
      /\ lmStarter[s].want \in Settings
  BY DEF LmInvariant, ListenerStopped, Placed, LmTypes, StarterType
<1>1. /\ lmEntry' = lmEntry /\ lmWanted' = lmWanted /\ lmPending' = lmPending
      /\ lmDeferred' = lmDeferred /\ lmStale' = lmStale /\ lmCleanup' = lmCleanup
  BY DEF ListenerStopped
<1>2. /\ StopCleared(k) \in [Clients -> StopType]
      /\ \A j \in Clients : StopCleared(k)[j] = "ok" => lmStop[j] = "ok"
  BY <1>0, StopFacts
<1>3. CASE Owns(lmStarter[s].c)
  <2>1. StartsListener(s, lmStarter[s].want, StopCleared(k))
    BY <1>3 DEF ListenerStopped
  <2> HIDE DEF k
  <2> QED BY <1>0, <1>1, <1>2, <1>3, <2>1, StartingKeeps
<1>4. CASE ~Owns(lmStarter[s].c)
  <2>1. /\ lmStop' = StopCleared(k) /\ lmCurrent' = Without(k, lmCurrent)
        /\ lmAttached' = Without(k, lmAttached) /\ Ends(s)
        /\ lmClient' = lmClient /\ lmRestart' = lmRestart
    BY <1>4 DEF ListenerStopped, ClearStop
  <2>2. lmStarter' \in [Starters -> StarterType] /\ lmLock' \in Seq(Starters) /\ Leaves(s)
    BY <1>0, <2>1, EndsFacts DEF Leaves
  <2>3. LmTypes'
    BY <1>0, <1>1, <1>2, <2>1, <2>2 DEF LmTypes, Without
  <2>4. CleanupKept /\ (lmDeferred # {} => lmCleanup'.at # "none")
    BY <1>1 DEF CleanupKept, LmInvariant, Structure, PassKnown
  <2>5. ~lmClient[k].runs
    BY <1>0 DEF LmInvariant, Structure, StopsSeen
  <2>6. \A j \in Clients : j = ListenerNow /\ lmClient[j].runs => ListenerNow' = j
    BY <2>1, <2>5, ListenerAssumption DEF ListenerNow, Without
  <2>7. lmStarter[s].at \in Busy /\ lmStarter'[s].at \in {"none", "loop"}
    BY <1>0, <2>2 DEF Busy, Leaves
  <2>8. Placed' /\ Structure'
    BY <1>1, <1>2, <2>1, <2>2, <2>3, <2>4, <2>5, <2>6, <2>7, LeavingKeeps
  <2> QED BY <2>3, <2>8 DEF LmInvariant
<1> QED BY <1>3, <1>4

\* A starter that does not see its client stop leaves it to the cleanup.
LEMMA DeferringKeeps ==
  ASSUME LmInvariant, NEW s \in Starters, lmStarter[s].at \in Busy,
         Defer(lmStarter[s].k), ScheduleCleanup, Ends(s), lmRestart' \in BOOLEAN,
         lmStop' \in [Clients -> StopType],
         \A j \in Clients : lmStop'[j] = "ok" => lmStop[j] = "ok",
         lmEntry' = lmEntry, lmWanted' = lmWanted, lmPending' = lmPending,
         lmClient' = lmClient, lmStale' = lmStale
  PROVE  LmInvariant'
<1> DEFINE k == lmStarter[s].k
<1>0. LmTypes /\ k \in Clients
  BY DEF LmInvariant, Placed, Busy
<1>1. /\ lmDeferred' = lmDeferred \cup {k} /\ lmCurrent' = Without(k, lmCurrent)
      /\ lmAttached' = Without(k, lmAttached)
  BY DEF Defer
<1>2. lmStarter' \in [Starters -> StarterType] /\ lmLock' \in Seq(Starters) /\ Leaves(s)
  BY <1>0, EndsFacts DEF Leaves
<1>3. CleanupKept /\ lmCleanup' \in CleanupType /\ lmCleanup'.at # "none"
  BY <1>0, ScheduleCleanupFacts DEF CleanupKept
<1>4. LmTypes'
  BY <1>0, <1>1, <1>2, <1>3 DEF LmTypes, Without
<1>5. \A j \in Clients : j = ListenerNow /\ j \notin lmDeferred' => ListenerNow' = j
  BY <1>1, ListenerAssumption DEF ListenerNow, Without
<1>6. lmStarter'[s].at \in {"none", "loop"} /\ lmDeferred \subseteq lmDeferred'
      /\ k \in lmDeferred'
  BY <1>1, <1>2 DEF Leaves
<1>7. Placed' /\ Structure'
  BY <1>2, <1>3, <1>4, <1>5, <1>6, LeavingKeeps
<1> QED BY <1>4, <1>7 DEF LmInvariant

LEMMA ListenerNotStoppedKeeps ==
  ASSUME LmInvariant, NEW s \in Starters, ListenerNotStopped(s) PROVE LmInvariant'
<1>0. LmTypes /\ lmStarter[s].at \in Busy /\ lmStarter[s].k \in Clients
  BY DEF LmInvariant, ListenerNotStopped, Placed, Busy
<1>1. /\ lmStop' \in [Clients -> StopType]
      /\ \A j \in Clients : lmStop'[j] = "ok" => lmStop[j] = "ok"
  BY <1>0, StopFacts DEF ListenerNotStopped, ClearStop, LmTypes
<1>2. lmRestart' \in BOOLEAN
  BY DEF ListenerNotStopped
<1> QED BY <1>0, <1>1, <1>2, DeferringKeeps DEF ListenerNotStopped

LEMMA DetachingKeeps ==
  ASSUME LmInvariant, NEW s \in Starters, NEW stage \in {"detach", "undo"},
         lmStarter[s].at = "start", Detaches(s, stage), lmLock' = lmLock,
         lmEntry' = lmEntry, lmCurrent' = lmCurrent, lmWanted' = lmWanted,
         lmPending' = lmPending, lmClient' = lmClient, lmDeferred' = lmDeferred,
         lmStale' = lmStale, lmRestart' = lmRestart, lmCleanup' = lmCleanup
  PROVE  LmInvariant'
<1> DEFINE k == lmStarter[s].k
<1>0. LmTypes /\ k \in Clients /\ lmStarter[s].at \in Busy
  BY DEF LmInvariant, Placed, Busy
<1>1. /\ lmStarter' \in [Starters -> StarterType] /\ lmStop' \in [Clients -> StopType]
      /\ lmAttached' = Without(k, lmAttached)
      /\ \A j \in Clients : lmStop'[j] = "ok" => lmStop[j] = "ok"
      /\ GoesOn(s, stage, k)
      /\ lmStarter'[s].res = "ok" => lmStop[k] = "ok"
  BY <1>0, DetachesFacts
<1>2. LmTypes'
  BY <1>0, <1>1 DEF LmTypes, Without
<1>3. \A j \in Clients : j = ListenerNow => ListenerNow' = j \/ j = k
  BY <1>1 DEF ListenerNow, Without
<1>4. lmLock # <<>> /\ lmLock[1] = s
  BY <1>0, Holder
<1>5. stage \in Busy /\ stage # "stop" /\ stage # "start"
  BY DEF Busy
<1> HIDE DEF k
<1>6. lmStarter[s].at \in Busy => lmStarter[s].k = k
  BY DEF k
<1>7. Placed' /\ Structure'
  BY <1>0, <1>1, <1>2, <1>3, <1>4, <1>5, <1>6, GoingOnKeeps
<1> QED BY <1>2, <1>7 DEF LmInvariant

LEMMA ListenerStartedKeeps ==
  ASSUME LmInvariant, NEW s \in Starters, ListenerStarted(s) PROVE LmInvariant'
<1> DEFINE k == lmStarter[s].k
<1>0. LmTypes /\ k \in Clients /\ lmStarter[s].at = "start" /\ lmStarter[s].at \in Busy
  BY DEF LmInvariant, Placed, Busy, ListenerStarted
<1>1. CASE Owns(lmStarter[s].c)
  <2>1. /\ Ends(s) /\ lmAttached' = lmAttached /\ lmStop' = lmStop /\ lmEntry' = lmEntry
        /\ lmCurrent' = lmCurrent /\ lmWanted' = lmWanted /\ lmPending' = lmPending
        /\ lmClient' = lmClient /\ lmDeferred' = lmDeferred /\ lmStale' = lmStale
        /\ lmRestart' = lmRestart /\ lmCleanup' = lmCleanup
    BY <1>1 DEF ListenerStarted
  <2>2. lmStarter' \in [Starters -> StarterType] /\ lmLock' \in Seq(Starters) /\ Leaves(s)
    BY <1>0, <2>1, EndsFacts DEF Leaves
  <2>3. LmTypes'
    BY <1>0, <2>1, <2>2 DEF LmTypes
  <2>4. CleanupKept /\ (lmDeferred # {} => lmCleanup'.at # "none")
    BY <2>1 DEF CleanupKept, LmInvariant, Structure, PassKnown
  <2>5. ListenerNow' = ListenerNow
    BY <2>1 DEF ListenerNow
  <2>6. ListenerNow = k /\ lmEntry.at = "on"
    BY <1>0, <1>1 DEF LmInvariant, Structure, Hands, Owns
  <2>7. \A j \in Clients : j = k => HeldByEntry(j)'
    BY <2>1, <2>5, <2>6 DEF HeldByEntry
  <2>8. lmStarter'[s].at \in {"none", "loop"}
    BY <2>2 DEF Leaves
  <2>9. Placed' /\ Structure'
    BY <1>0, <2>1, <2>2, <2>3, <2>4, <2>5, <2>7, <2>8, LeavingKeeps
  <2> QED BY <2>3, <2>9 DEF LmInvariant
<1>2. CASE ~Owns(lmStarter[s].c)
  BY <1>0, <1>2, DetachingKeeps DEF ListenerStarted
<1> QED BY <1>1, <1>2

LEMMA DetachedKeeps ==
  ASSUME LmInvariant, NEW s \in Starters, Detached(s) PROVE LmInvariant'
<1> DEFINE k == lmStarter[s].k
<1>0. /\ LmTypes /\ k \in Clients /\ lmStarter[s].at \in {"detach", "undo"}
      /\ lmStarter[s].at \in Busy
  BY DEF LmInvariant, Placed, Busy, Detached
<1>1. /\ Ends(s) /\ lmEntry' = lmEntry /\ lmWanted' = lmWanted /\ lmPending' = lmPending
      /\ lmClient' = lmClient /\ lmStale' = lmStale
  BY DEF Detached
<1>2. CASE /\ lmStarter[s].res = "ok" /\ ClearStop(k) /\ lmCurrent' = Without(k, lmCurrent)
           /\ UNCHANGED <<lmAttached, lmDeferred, lmRestart, lmCleanup>>
  <2>1. /\ lmStop' \in [Clients -> StopType]
        /\ \A j \in Clients : lmStop'[j] = "ok" => lmStop[j] = "ok"
    BY <1>0, <1>2, StopFacts DEF ClearStop
  <2>2. lmStarter' \in [Starters -> StarterType] /\ lmLock' \in Seq(Starters) /\ Leaves(s)
    BY <1>0, <1>1, EndsFacts DEF Leaves
  <2>3. LmTypes'
    BY <1>0, <1>1, <1>2, <2>1, <2>2 DEF LmTypes, Without
  <2>4. CleanupKept /\ (lmDeferred # {} => lmCleanup'.at # "none")
    BY <1>2 DEF CleanupKept, LmInvariant, Structure, PassKnown
  <2>5. ~lmClient[k].runs
    BY <1>0, <1>2 DEF LmInvariant, Structure, StopsSeen
  <2>6. \A j \in Clients : j = ListenerNow /\ lmClient[j].runs => ListenerNow' = j
    BY <1>2, <2>5, ListenerAssumption DEF ListenerNow, Without
  <2>7. lmStarter'[s].at \in {"none", "loop"}
    BY <2>2 DEF Leaves
  <2>8. Placed' /\ Structure'
    BY <1>0, <1>1, <1>2, <2>1, <2>2, <2>3, <2>4, <2>5, <2>6, <2>7, LeavingKeeps
  <2> QED BY <2>3, <2>8 DEF LmInvariant
<1>3. CASE /\ lmStarter[s].res \in {"wait", "failed"} /\ StopNotSeen(k) /\ ScheduleCleanup
           /\ IF lmStarter[s].res = "failed" THEN ClearStop(k) ELSE UNCHANGED lmStop
  <2>1. /\ lmStop' \in [Clients -> StopType]
        /\ \A j \in Clients : lmStop'[j] = "ok" => lmStop[j] = "ok"
    BY <1>0, <1>3, StopFacts DEF ClearStop, LmTypes
  <2> QED BY <1>0, <1>1, <1>3, <2>1, DeferringKeeps DEF StopNotSeen
<1> QED BY <1>2, <1>3 DEF Detached

LEMMA StarterCancelledKeeps ==
  ASSUME LmInvariant, NEW s \in Starters, StarterCancelled(s) PROVE LmInvariant'
<1>0. LmTypes
  BY DEF LmInvariant
<1>1. /\ lmEntry' = lmEntry /\ lmWanted' = lmWanted /\ lmPending' = lmPending
      /\ lmClient' = lmClient /\ lmStale' = lmStale
  BY DEF StarterCancelled
<1>2. CASE /\ lmStarter[s].at \in {"loop", "lock"} /\ Ends(s)
           /\ UNCHANGED <<lmAttached, lmCurrent, lmStop, lmDeferred, lmRestart, lmCleanup>>
  <2>2. lmStarter' \in [Starters -> StarterType] /\ lmLock' \in Seq(Starters) /\ Leaves(s)
    BY <1>0, <1>2, EndsFacts DEF Leaves
  <2>3. LmTypes'
    BY <1>0, <1>1, <1>2, <2>2 DEF LmTypes
  <2>4. CleanupKept /\ (lmDeferred # {} => lmCleanup'.at # "none")
    BY <1>2 DEF CleanupKept, LmInvariant, Structure, PassKnown
  <2>5. ListenerNow' = ListenerNow
    BY <1>2 DEF ListenerNow
  <2>6. lmStarter[s].at \notin Busy /\ lmStarter'[s].at \in {"none", "loop"}
    BY <1>2, <2>2 DEF Leaves, Busy
  <2>7. Placed' /\ Structure'
    BY <1>1, <1>2, <2>2, <2>3, <2>4, <2>5, <2>6, LeavingKeeps
  <2> QED BY <2>3, <2>7 DEF LmInvariant
<1>3. CASE /\ lmStarter[s].at = "start" /\ Detaches(s, "undo")
           /\ UNCHANGED <<lmLock, lmCurrent, lmDeferred, lmRestart, lmCleanup>>
  BY <1>1, <1>3, DetachingKeeps
<1>4. CASE /\ lmStarter[s].at \in {"stop", "detach", "undo"} /\ StopNotSeen(lmStarter[s].k)
           /\ ScheduleCleanup /\ Ends(s) /\ UNCHANGED lmStop
  BY <1>0, <1>1, <1>4, DeferringKeeps DEF StopNotSeen, LmTypes, Busy
<1> QED BY <1>2, <1>3, <1>4 DEF StarterCancelled

-------------------------------------------------------------------------------
(* The steps of the entry.                                                   *)

\* No starter that has asked for the lock is touched.
StartersKept ==
  \A t \in Starters :
    \/ lmStarter'[t].at = lmStarter[t].at /\ lmStarter'[t].c = lmStarter[t].c
         /\ lmStarter'[t].k = lmStarter[t].k /\ lmStarter'[t].res = lmStarter[t].res
    \/ lmStarter[t].at = "none" /\ lmStarter'[t].at = "loop"

\* Steps that leave the starters and the clients as they are.
LEMMA AsideKeeps ==
  ASSUME LmInvariant, StartersKept, lmLock' = lmLock, lmClient' = lmClient
  PROVE  /\ LockKnown' /\ LockHeld' /\ AtMostOne'
         /\ \A s \in Starters : lmStarter'[s].at \in Busy => lmStarter'[s].k \in Clients
         /\ \A s \in Starters :
              lmStarter'[s].at \in {"stop", "detach", "undo"} /\ lmStarter'[s].res = "ok"
                => ~lmClient[lmStarter'[s].k].runs
         /\ \A k \in Clients : HeldByStarter(k) => HeldByStarter(k)'
<1>1. LockKnown' /\ LockHeld' /\ AtMostOne'
  <2>1. \A s \in Starters : lmStarter'[s].at \in Busy \cup {"lock"} =>
          lmStarter'[s].at = lmStarter[s].at
    BY DEF StartersKept, Busy
  <2> QED BY <2>1 DEF LmInvariant, Structure, LockKnown, LockHeld, AtMostOne
<1>2. \A s \in Starters : lmStarter'[s].at \in Busy => lmStarter'[s].k \in Clients
  BY DEF StartersKept, LmInvariant, Placed, Busy
<1>3. \A s \in Starters : lmStarter'[s].at \in {"stop", "detach", "undo"} /\ lmStarter'[s].res = "ok"
                            => ~lmClient[lmStarter'[s].k].runs
  BY DEF StartersKept, LmInvariant, Structure, StopsSeen
<1>4. ASSUME NEW k \in Clients, HeldByStarter(k) PROVE HeldByStarter(k)'
  <2>1. PICK t \in Starters : lmStarter[t].at \in Busy /\ lmStarter[t].k = k
    BY <1>4 DEF HeldByStarter
  <2>2. lmStarter'[t].at = lmStarter[t].at /\ lmStarter'[t].k = k
    BY <2>1 DEF StartersKept, Busy
  <2> QED BY <2>1, <2>2 DEF HeldByStarter
<1> QED BY <1>1, <1>2, <1>3, <1>4

\* One starter is made, or none.
LEMMA NewStarter ==
  ASSUME LmTypes, NEW s \in FreshStarters, NEW r \in StarterType, r.at = "loop",
         lmStarter' = [lmStarter EXCEPT ![s] = r]
  PROVE  lmStarter' \in [Starters -> StarterType] /\ StartersKept
<1>1. s \in Starters /\ lmStarter[s].at = "none"
  BY DEF FreshStarters
<1> QED BY <1>1 DEF LmTypes, StartersKept

LEMMA SetupKeeps == ASSUME LmInvariant, ListenerSetup PROVE LmInvariant'
<1>1. PICK c \in FreshOwners, s \in FreshStarters :
        /\ lmEntry' = [lmEntry EXCEPT !.at = "on", !.c = c]
        /\ lmStarter' = [lmStarter EXCEPT ![s] = [NoStarter EXCEPT !.at = "loop", !.c = c]]
  BY DEF ListenerSetup
<1> DEFINE r == [NoStarter EXCEPT !.at = "loop", !.c = c]
<1>2. c \in ListenerOwners /\ (\A t \in Starters : lmStarter[t].c # c) /\ s \in Starters
  BY DEF FreshOwners, FreshStarters
<1>3. r \in StarterType /\ r.at = "loop" /\ r.c = c
  BY <1>2, RecordTypes DEF StarterType
<1> HIDE DEF r
<1>4. lmStarter' \in [Starters -> StarterType] /\ StartersKept
  BY <1>1, <1>3, NewStarter DEF LmInvariant, r
<1>5. /\ lmAttached' = lmAttached /\ lmCurrent' = lmCurrent /\ lmWanted' = lmWanted
      /\ lmPending' = lmPending /\ lmLock' = lmLock /\ lmClient' = lmClient /\ lmStop' = lmStop
      /\ lmDeferred' = lmDeferred /\ lmStale' = lmStale /\ lmRestart' = lmRestart
      /\ lmCleanup' = lmCleanup /\ lmEntry.at = "off"
  BY DEF ListenerSetup
<1>6. lmEntry' \in EntryType /\ lmEntry'.at = "on" /\ lmEntry'.c = c
  BY <1>1, <1>2 DEF LmInvariant, LmTypes, EntryType
<1>7. LmTypes'
  BY <1>4, <1>5, <1>6 DEF LmInvariant, LmTypes
<1>8. LockKnown' /\ LockHeld' /\ AtMostOne'
  BY <1>4, <1>5, AsideKeeps
<1>9. Placed' /\ StopsSeen' /\ PassKnown'
  <2>0. lmEntry'.at # "stop"
    BY <1>6
  <2>1. Placed'
    BY <1>4, <1>5, <2>0, AsideKeeps DEF LmInvariant, Placed, Busy
  <2>2. StopsSeen'
    BY <1>4, <1>5, <2>0, AsideKeeps DEF LmInvariant, Structure, StopsSeen
  <2>3. PassKnown'
    BY <1>5 DEF LmInvariant, Structure, PassKnown
  <2> QED BY <2>1, <2>2, <2>3
<1>10. AllHeld'
  BY <1>4, <1>5, AsideKeeps DEF LmInvariant, Structure, AllHeld, HeldByEntry
<1>11. Hands'
  <2>1. \A t \in Starters : lmStarter'[t].at \in {"stop", "start"} => lmStarter'[t].c # c
    BY <1>2, <1>4 DEF StartersKept
  <2> QED BY <1>6, <2>1 DEF Hands, Owns
<1> QED BY <1>7, <1>8, <1>9, <1>10, <1>11 DEF LmInvariant, Structure

LEMMA ScheduleOptionsFacts ==
  ASSUME LmTypes, ScheduleOptions
  PROVE  lmPending' \in BOOLEAN /\ lmStarter' \in [Starters -> StarterType] /\ StartersKept
<1>1. CASE UNCHANGED lmStarter
  BY <1>1 DEF LmTypes, ScheduleOptions, StartersKept
<1>2. ASSUME NEW s \in FreshStarters,
             lmStarter' = [lmStarter EXCEPT ![s] =
                [NoStarter EXCEPT !.at = "loop", !.kind = "options", !.c = lmEntry.c]]
      PROVE  lmPending' \in BOOLEAN /\ lmStarter' \in [Starters -> StarterType] /\ StartersKept
  <2> DEFINE r == [NoStarter EXCEPT !.at = "loop", !.kind = "options", !.c = lmEntry.c]
  <2>1. r \in StarterType /\ r.at = "loop"
    BY RecordTypes DEF StarterType, LmTypes, EntryType
  <2> HIDE DEF r
  <2>2. lmStarter' = [lmStarter EXCEPT ![s] = r]
    BY <1>2 DEF r
  <2> QED BY <2>1, <2>2, NewStarter DEF ScheduleOptions
<1> QED BY <1>1, <1>2 DEF ScheduleOptions

\* Steps that change no more than what is asked for and who is to look at it.
LEMMA AskingKeeps ==
  ASSUME LmInvariant, lmPending' \in BOOLEAN, lmStarter' \in [Starters -> StarterType],
         lmWanted' \in Settings, lmRestart' \in BOOLEAN, lmStale' \subseteq Starters,
         StartersKept, lmEntry' \in EntryType, lmEntry'.c = lmEntry.c, lmEntry'.k = lmEntry.k,
         \/ lmEntry' = lmEntry
         \/ lmEntry.at \in {"on", "unload"} /\ lmEntry'.at \in {"unload", "options"},
         lmAttached' = lmAttached, lmCurrent' = lmCurrent, lmLock' = lmLock,
         lmClient' = lmClient, lmStop' = lmStop, lmDeferred' = lmDeferred,
         lmCleanup' \in CleanupType,
         \/ lmCleanup' = lmCleanup
         \/ /\ lmCleanup.at \in {"loop", "tasks", "sleep"} /\ lmCleanup'.at # "stop"
            /\ lmCleanup'.seen = {} /\ lmCleanup'.todo = {} /\ lmCleanup'.kept = {}
            /\ lmDeferred # {} => lmCleanup'.at # "none"
  PROVE  LmInvariant'
<1>1. LmTypes'
  BY DEF LmInvariant, LmTypes
<1>2. LockKnown' /\ LockHeld' /\ AtMostOne'
  BY AsideKeeps
<1>3. Placed'
  BY AsideKeeps DEF LmInvariant, Placed, Busy
<1>4. StopsSeen'
  BY AsideKeeps DEF LmInvariant, Structure, StopsSeen
<1>5. PassKnown'
  BY DEF LmInvariant, Structure, PassKnown
<1>6. AllHeld'
  <2> SUFFICES ASSUME NEW k \in Clients, lmClient[k].runs
               PROVE  k \in lmDeferred' \/ HeldByEntry(k)' \/ HeldByStarter(k)'
    BY DEF AllHeld
  <2>1. k \in lmDeferred \/ HeldByEntry(k) \/ HeldByStarter(k)
    BY DEF LmInvariant, Structure, AllHeld
  <2>2. HeldByEntry(k) => HeldByEntry(k)'
    BY DEF HeldByEntry, ListenerNow
  <2> QED BY <2>1, <2>2, AsideKeeps
<1>7. Hands'
  BY DEF StartersKept, LmInvariant, Structure, Hands, Owns, ListenerNow
<1> QED BY <1>1, <1>2, <1>3, <1>4, <1>5, <1>6, <1>7 DEF LmInvariant, Structure

LEMMA CancelledKept ==
  ASSUME LmTypes, NEW ts, lmStarter' = Cancelled(ts)
  PROVE  lmStarter' \in [Starters -> StarterType] /\ StartersKept
BY CancelledFacts DEF StartersKept

LEMMA OptionsChangedKeeps == ASSUME LmInvariant, OptionsChanged PROVE LmInvariant'
<1>1. lmPending' \in BOOLEAN /\ lmStarter' \in [Starters -> StarterType] /\ StartersKept
  <2>1. CASE ScheduleOptions
    BY <2>1, ScheduleOptionsFacts DEF LmInvariant
  <2>2. CASE UNCHANGED <<lmPending, lmStarter>>
    BY <2>2 DEF LmInvariant, LmTypes, StartersKept
  <2> QED BY <2>1, <2>2 DEF OptionsChanged
<1> QED BY <1>1, AskingKeeps DEF OptionsChanged, LmInvariant, LmTypes

LEMMA UnloadFencesKeeps == ASSUME LmInvariant, UnloadFences PROVE LmInvariant'
<1>1. lmStarter' \in [Starters -> StarterType] /\ StartersKept
  BY CancelledKept DEF LmInvariant, UnloadFences
<1>2. lmEntry' \in EntryType /\ lmEntry'.at = "unload" /\ lmEntry'.c = lmEntry.c
      /\ lmEntry'.k = lmEntry.k /\ lmEntry.at = "on"
  BY DEF LmInvariant, LmTypes, EntryType, UnloadFences
<1> QED BY <1>1, <1>2, AskingKeeps DEF UnloadFences, LmInvariant, LmTypes

LEMMA UnloadCancelsKeeps == ASSUME LmInvariant, UnloadCancelsOptions PROVE LmInvariant'
<1>1. lmStarter' \in [Starters -> StarterType] /\ StartersKept
  BY CancelledKept DEF LmInvariant, UnloadCancelsOptions
<1>2. lmEntry' \in EntryType /\ lmEntry'.at = "options" /\ lmEntry'.c = lmEntry.c
      /\ lmEntry'.k = lmEntry.k /\ lmEntry.at = "unload"
  BY DEF LmInvariant, LmTypes, EntryType, UnloadCancelsOptions
<1>3. lmStale' \subseteq Starters
  BY DEF LmInvariant, LmTypes, UnloadCancelsOptions, StartersOf
<1> QED BY <1>1, <1>2, <1>3, AskingKeeps DEF UnloadCancelsOptions, LmInvariant, LmTypes

LEMMA UnloadStopsKeeps == ASSUME LmInvariant, UnloadStopsListener PROVE LmInvariant'
<1> DEFINE k == ListenerNow
<1>0. /\ LmTypes /\ lmEntry.at = "options" /\ k \in Clients \cup {Nobody}
      /\ lmEntry \in EntryType
  BY ListenerNowType DEF LmInvariant, LmTypes, UnloadStopsListener
<1>1. /\ lmAttached' = lmAttached /\ lmCurrent' = lmCurrent /\ lmWanted' = lmWanted
      /\ lmStarter' = lmStarter /\ lmLock' = lmLock /\ lmClient' = lmClient
      /\ lmDeferred' = lmDeferred /\ lmRestart' = lmRestart /\ lmCleanup' = lmCleanup
      /\ lmPending' = FALSE /\ lmStale' \subseteq Starters
  BY <1>0 DEF UnloadStopsListener, LmTypes, StartersOf
<1>2. /\ lmEntry' \in EntryType /\ lmStop' \in [Clients -> StopType]
      /\ \A j \in Clients : lmStop'[j] = "ok" => lmStop[j] = "ok"
      /\ \/ k = Nobody /\ lmEntry'.at = "ending"
         \/ /\ k \in Clients /\ lmEntry'.at = "stop" /\ lmEntry'.k = k
            /\ lmEntry'.res = "ok" => lmStop[k] = "ok"
  <2>1. CASE k = Nobody
    BY <1>0, <2>1 DEF UnloadStopsListener, EntryType, LmTypes
  <2>2. CASE k # Nobody
    <3>1. /\ lmEntry' = [lmEntry EXCEPT !.at = "stop", !.k = k, !.res = SeenAtOnce(k)]
          /\ StopTask(k)
      BY <2>2 DEF UnloadStopsListener
    <3> HIDE DEF k
    <3> QED BY <1>0, <2>2, <3>1, StopFacts DEF EntryType
  <2> QED BY <2>1, <2>2
<1>3. StartersKept
  BY <1>1 DEF StartersKept
<1>4. LmTypes'
  BY <1>0, <1>1, <1>2 DEF LmTypes
<1>5. LockKnown' /\ LockHeld' /\ AtMostOne'
  BY <1>1, <1>3, AsideKeeps
<1> HIDE DEF k
<1>6. Placed'
  BY <1>1, <1>2, <1>3, AsideKeeps DEF LmInvariant, Placed, Busy
<1>7. StopsSeen'
  BY <1>1, <1>2 DEF LmInvariant, Structure, StopsSeen
<1>8. PassKnown'
  BY <1>1 DEF LmInvariant, Structure, PassKnown
<1>9. AllHeld'
  <2> SUFFICES ASSUME NEW j \in Clients, lmClient[j].runs
               PROVE  j \in lmDeferred' \/ HeldByEntry(j)' \/ HeldByStarter(j)'
    BY <1>1 DEF AllHeld
  <2>1. j \in lmDeferred \/ HeldByEntry(j) \/ HeldByStarter(j)
    BY DEF LmInvariant, Structure, AllHeld
  <2>2. HeldByEntry(j) => HeldByEntry(j)'
    BY <1>0, <1>2, ListenerAssumption DEF HeldByEntry, k
  <2> QED BY <1>1, <1>3, <2>1, <2>2, AsideKeeps
<1>10. Hands'
  BY <1>2 DEF Hands, Owns
<1> QED BY <1>4, <1>5, <1>6, <1>7, <1>8, <1>9, <1>10 DEF LmInvariant, Structure

LEMMA UnloadSeesKeeps == ASSUME LmInvariant, UnloadSeesStop PROVE LmInvariant'
<1> DEFINE k == lmEntry.k
<1>0. /\ LmTypes /\ lmEntry.at = "stop" /\ k \in Clients /\ lmEntry \in EntryType
  BY DEF LmInvariant, LmTypes, Placed, UnloadSeesStop
<1>1. /\ lmWanted' = lmWanted /\ lmPending' = lmPending /\ lmStarter' = lmStarter
      /\ lmLock' = lmLock /\ lmClient' = lmClient /\ lmStale' = lmStale
      /\ lmEntry' \in EntryType /\ lmEntry'.at = "ending"
  BY <1>0 DEF UnloadSeesStop, EntryType, Outcomes
<1>2. /\ lmStop' \in [Clients -> StopType] /\ lmRestart' \in BOOLEAN
      /\ \A j \in Clients : lmStop'[j] = "ok" => lmStop[j] = "ok"
      /\ lmCleanup' \in CleanupType /\ CleanupKept
      /\ lmAttached' \in Clients \cup {Nobody} /\ lmCurrent' \in Clients \cup {Nobody}
      /\ lmDeferred' \subseteq Clients /\ lmDeferred \subseteq lmDeferred'
      /\ lmDeferred' # {} => lmCleanup'.at # "none"
      /\ lmClient[k].runs => k \in lmDeferred'
  <2>1. CASE /\ lmEntry.res = "ok" /\ ClearStop(k) /\ lmCurrent' = Without(k, lmCurrent)
             /\ UNCHANGED <<lmAttached, lmDeferred, lmRestart, lmCleanup>>
    <3>1. ~lmClient[k].runs
      BY <1>0, <2>1 DEF LmInvariant, Structure, StopsSeen
    <3>2. lmDeferred' # {} => lmCleanup'.at # "none"
      BY <2>1 DEF LmInvariant, Structure, PassKnown
    <3> QED BY <1>0, <2>1, <3>1, <3>2, StopFacts DEF ClearStop, CleanupKept, LmTypes, Without
  <2>2. CASE /\ lmEntry.res \in {"wait", "failed"} /\ StopNotSeen(k) /\ ScheduleCleanup
             /\ IF lmEntry.res = "failed" THEN ClearStop(k) ELSE UNCHANGED lmStop
    <3>1. /\ lmStop' \in [Clients -> StopType]
          /\ \A j \in Clients : lmStop'[j] = "ok" => lmStop[j] = "ok"
      BY <1>0, <2>2, StopFacts DEF ClearStop, LmTypes
    <3>2. lmCleanup' \in CleanupType /\ CleanupKept /\ lmCleanup'.at # "none"
      BY <1>0, <2>2, ScheduleCleanupFacts DEF CleanupKept
    <3> QED BY <1>0, <2>2, <3>1, <3>2 DEF StopNotSeen, Defer, LmTypes, Without
  <2> QED BY <2>1, <2>2 DEF UnloadSeesStop
<1>3. StartersKept
  BY <1>1 DEF StartersKept
<1>4. LmTypes'
  BY <1>0, <1>1, <1>2 DEF LmTypes
<1>5. LockKnown' /\ LockHeld' /\ AtMostOne'
  BY <1>1, <1>3, AsideKeeps
<1>6. Placed'
  BY <1>1, <1>2, <1>3, AsideKeeps DEF LmInvariant, Placed, Busy, CleanupKept
<1>7. StopsSeen'
  BY <1>1, <1>2 DEF LmInvariant, Structure, StopsSeen, CleanupKept
<1>8. PassKnown'
  BY <1>1, <1>2 DEF LmInvariant, Structure, PassKnown, CleanupKept
<1>9. AllHeld'
  <2> SUFFICES ASSUME NEW j \in Clients, lmClient[j].runs
               PROVE  j \in lmDeferred' \/ HeldByEntry(j)' \/ HeldByStarter(j)'
    BY <1>1 DEF AllHeld
  <2>1. j \in lmDeferred \/ HeldByEntry(j) \/ HeldByStarter(j)
    BY DEF LmInvariant, Structure, AllHeld
  <2>2. HeldByEntry(j) => j \in lmDeferred'
    BY <1>0, <1>2 DEF HeldByEntry
  <2> QED BY <1>1, <1>2, <1>3, <2>1, <2>2, AsideKeeps
<1>10. Hands'
  BY <1>1 DEF Hands, Owns
<1> QED BY <1>4, <1>5, <1>6, <1>7, <1>8, <1>9, <1>10 DEF LmInvariant, Structure

LEMMA UnloadEndsKeeps == ASSUME LmInvariant, UnloadEnds PROVE LmInvariant'
<1>0. LmTypes /\ lmEntry.at = "ending"
  BY DEF LmInvariant, UnloadEnds
<1>1. /\ lmCurrent' = lmCurrent /\ lmWanted' = lmWanted /\ lmPending' = lmPending
      /\ lmLock' = lmLock /\ lmClient' = lmClient /\ lmStop' = lmStop
      /\ lmDeferred' = lmDeferred /\ lmStale' = lmStale /\ lmRestart' = lmRestart
      /\ lmAttached' = Nobody /\ lmEntry' \in EntryType /\ lmEntry'.at = "off"
  BY <1>0 DEF UnloadEnds, LmTypes, EntryType
<1>2. lmStarter' \in [Starters -> StarterType] /\ StartersKept
  BY <1>0, CancelledKept DEF UnloadEnds
<1>3. lmCleanup' \in CleanupType /\ CleanupKept /\ (lmDeferred # {} => lmCleanup'.at # "none")
  <2>1. CASE ScheduleCleanup
    BY <1>0, <2>1, ScheduleCleanupFacts DEF CleanupKept
  <2>2. CASE UNCHANGED lmCleanup
    BY <1>0, <2>2 DEF LmTypes, CleanupKept, LmInvariant, Structure, PassKnown
  <2> QED BY <2>1, <2>2 DEF UnloadEnds
<1>4. LmTypes'
  BY <1>0, <1>1, <1>2, <1>3 DEF LmTypes
<1>5. LockKnown' /\ LockHeld' /\ AtMostOne'
  BY <1>1, <1>2, AsideKeeps
<1>6. Placed'
  BY <1>1, <1>2, <1>3, AsideKeeps DEF LmInvariant, Placed, Busy, CleanupKept
<1>7. StopsSeen'
  BY <1>1, <1>2, <1>3, AsideKeeps DEF LmInvariant, Structure, StopsSeen, CleanupKept
<1>8. PassKnown'
  BY <1>1, <1>3 DEF LmInvariant, Structure, PassKnown, CleanupKept
<1>9. AllHeld'
  <2> SUFFICES ASSUME NEW j \in Clients, lmClient[j].runs
               PROVE  j \in lmDeferred' \/ HeldByEntry(j)' \/ HeldByStarter(j)'
    BY <1>1 DEF AllHeld
  <2>1. j \in lmDeferred \/ HeldByStarter(j)
    BY <1>0 DEF LmInvariant, Structure, AllHeld, HeldByEntry
  <2> QED BY <1>1, <1>2, <2>1, AsideKeeps
<1>10. Hands'
  BY <1>1 DEF Hands, Owns
<1> QED BY <1>4, <1>5, <1>6, <1>7, <1>8, <1>9, <1>10 DEF LmInvariant, Structure

-------------------------------------------------------------------------------
(* The steps of the cleanup task and of the clients.                         *)

LEMMA CleanupLooksKeeps == ASSUME LmInvariant, CleanupLooks PROVE LmInvariant'
<1>1. lmStarter' \in [Starters -> StarterType] /\ StartersKept
  BY CancelledKept DEF LmInvariant, CleanupLooks
<1>2. lmCleanup' \in CleanupType /\ lmCleanup.at = "loop" /\ lmCleanup'.at = "tasks"
      /\ lmCleanup'.seen = {} /\ lmCleanup'.todo = {} /\ lmCleanup'.kept = {}
  BY RecordTypes DEF LmInvariant, LmTypes, CleanupType, CleanupLooks
<1> QED BY <1>1, <1>2, AskingKeeps DEF CleanupLooks, LmInvariant, LmTypes

LEMMA CleanupAwakesKeeps == ASSUME LmInvariant, CleanupAwakes PROVE LmInvariant'
<1>1. /\ lmCleanup' \in CleanupType /\ lmCleanup.at = "sleep" /\ lmCleanup'.at = "loop"
      /\ lmCleanup'.seen = lmCleanup.seen /\ lmCleanup'.todo = lmCleanup.todo
      /\ lmCleanup'.kept = lmCleanup.kept
  BY DEF LmInvariant, LmTypes, CleanupType, CleanupAwakes
<1>2. /\ lmEntry' = lmEntry /\ lmAttached' = lmAttached /\ lmCurrent' = lmCurrent
      /\ lmStarter' = lmStarter /\ lmLock' = lmLock /\ lmClient' = lmClient /\ lmStop' = lmStop
      /\ lmDeferred' = lmDeferred
  BY DEF CleanupAwakes
<1>3. LmTypes'
  BY <1>1 DEF LmInvariant, LmTypes, CleanupAwakes
<1>4. LockKnown' /\ LockHeld' /\ AtMostOne' /\ StopsSeen' /\ Placed'
  BY <1>1, <1>2 DEF LmInvariant, Structure, LockKnown, LockHeld, AtMostOne, StopsSeen, Placed
<1>5. PassKnown'
  BY <1>1, <1>2 DEF LmInvariant, Structure, PassKnown
<1>6. AllHeld' /\ Hands'
  BY <1>2 DEF LmInvariant, Structure, AllHeld, Hands, HeldByEntry, HeldByStarter, Owns, ListenerNow
<1> QED BY <1>3, <1>4, <1>5, <1>6 DEF LmInvariant, Structure

LEMMA CleanupEndsKeeps == ASSUME LmInvariant, CleanupEnds PROVE LmInvariant'
<1>1. lmPending' \in BOOLEAN /\ lmStarter' \in [Starters -> StarterType] /\ StartersKept
  <2>1. CASE ScheduleOptions
    BY <2>1, ScheduleOptionsFacts DEF LmInvariant
  <2>2. CASE UNCHANGED <<lmPending, lmStarter>>
    BY <2>2 DEF LmInvariant, LmTypes, StartersKept
  <2> QED BY <2>1, <2>2 DEF CleanupEnds
<1>2. lmCleanup' \in CleanupType /\ lmCleanup.at = "loop" /\ lmCleanup'.at = "none"
      /\ lmCleanup'.seen = {} /\ lmCleanup'.todo = {} /\ lmCleanup'.kept = {} /\ lmDeferred = {}
  BY RecordTypes DEF CleanupEnds
<1> QED BY <1>1, <1>2, AskingKeeps DEF CleanupEnds, LmInvariant, LmTypes

\* A pass that has in todo and kept whatever still runs of what it has seen.
LEMMA PassKeeps ==
  ASSUME LmInvariant, NEW todo \in SUBSET Clients, NEW kept \in SUBSET Clients,
         NEW seen \in SUBSET Clients, NEW stops \in [Clients -> StopType],
         CleanupPass(todo, kept, seen, stops),
         \A j \in Clients : stops[j] = "ok" => lmStop[j] = "ok",
         todo \subseteq seen, kept \subseteq seen, seen \subseteq lmDeferred,
         \A j \in seen : lmClient[j].runs => j \in todo \cup kept,
         lmStale' \subseteq Starters, lmRestart' \in BOOLEAN,
         lmEntry' = lmEntry, lmAttached' = lmAttached, lmCurrent' = lmCurrent,
         lmWanted' = lmWanted, lmPending' = lmPending, lmStarter' = lmStarter,
         lmLock' = lmLock, lmClient' = lmClient
  PROVE  LmInvariant'
<1>0. LmTypes
  BY DEF LmInvariant
<1>1. /\ lmCleanup' \in CleanupType /\ lmStop' \in [Clients -> StopType]
      /\ lmDeferred' \subseteq Clients
      /\ \A j \in Clients : lmStop'[j] = "ok" => stops[j] = "ok"
      /\ \/ \E k \in todo :
              /\ lmCleanup'.at = "stop" /\ lmCleanup'.k = k
              /\ lmCleanup'.res = "ok" => lmStop[k] = "ok"
              /\ lmCleanup'.todo = todo \ {k}
              /\ lmCleanup'.kept = kept /\ lmCleanup'.seen = seen
              /\ UNCHANGED lmDeferred
         \/ /\ todo = {} /\ lmDeferred' = (lmDeferred \ seen) \cup kept
            /\ lmCleanup'.at \in {"sleep", "loop"}
            /\ lmCleanup'.todo = {} /\ lmCleanup'.kept = {} /\ lmCleanup'.seen = {}
  BY <1>0, PassFacts
<1>2. LmTypes'
  BY <1>1 DEF LmInvariant, LmTypes
<1>9. \A j \in Clients : lmStop'[j] = "ok" => lmStop[j] = "ok"
  BY <1>1
<1>3. LockKnown' /\ LockHeld' /\ AtMostOne'
  BY DEF LmInvariant, Structure, LockKnown, LockHeld, AtMostOne
<1>4. /\ lmCleanup'.at = "stop" => /\ lmCleanup'.k \in Clients
                                   /\ lmCleanup'.res = "ok" => lmStop[lmCleanup'.k] = "ok"
      /\ lmDeferred' \subseteq lmDeferred
      /\ \A j \in lmDeferred : lmClient[j].runs => j \in lmDeferred'
  BY <1>1
<1>5. Placed' /\ StopsSeen'
  BY <1>4, <1>9 DEF LmInvariant, Structure, Placed, StopsSeen
<1>6. PassKnown'
  BY <1>1 DEF PassKnown
<1>7. AllHeld'
  <2> SUFFICES ASSUME NEW k \in Clients, lmClient[k].runs
               PROVE  k \in lmDeferred' \/ HeldByEntry(k)' \/ HeldByStarter(k)'
    BY DEF AllHeld
  <2>1. k \in lmDeferred \/ HeldByEntry(k) \/ HeldByStarter(k)
    BY DEF LmInvariant, Structure, AllHeld
  <2>2. (HeldByEntry(k) => HeldByEntry(k)') /\ (HeldByStarter(k) => HeldByStarter(k)')
    BY DEF HeldByEntry, HeldByStarter, ListenerNow
  <2> QED BY <1>4, <2>1, <2>2
<1>8. Hands'
  BY <1>4 DEF LmInvariant, Structure, Hands, Owns, ListenerNow
<1> QED BY <1>2, <1>3, <1>5, <1>6, <1>7, <1>8 DEF LmInvariant, Structure

LEMMA CleanupStopsKeeps == ASSUME LmInvariant, CleanupStops PROVE LmInvariant'
<1>1. lmDeferred \in SUBSET Clients /\ lmStop \in [Clients -> StopType]
      /\ lmStale' \subseteq Starters /\ lmRestart' \in BOOLEAN
  BY DEF LmInvariant, LmTypes, CleanupStops
<1> QED BY <1>1, PassKeeps DEF CleanupStops

LEMMA CleanupSeesTasksKeeps == ASSUME LmInvariant, CleanupSeesTasks PROVE LmInvariant'
<1> DEFINE alive == {s \in lmCleanup.tasks : lmStarter[s].at # "none"}
<1>1. /\ lmDeferred \in SUBSET Clients /\ lmStop \in [Clients -> StopType]
      /\ lmStale' \subseteq Starters /\ lmRestart' \in BOOLEAN
  BY DEF LmInvariant, LmTypes, CleanupSeesTasks, CleanupType
<1>2. CASE alive # {}
  <2>1. /\ lmStop' = lmStop /\ lmDeferred' = lmDeferred /\ StartersKept
        /\ lmCleanup' = [NoCleanup EXCEPT !.at = "sleep"] /\ lmCleanup.at = "tasks"
    BY <1>2 DEF CleanupSeesTasks, StartersKept
  <2>2. lmCleanup' \in CleanupType /\ lmCleanup'.at = "sleep"
        /\ lmCleanup'.seen = {} /\ lmCleanup'.todo = {} /\ lmCleanup'.kept = {}
    BY <2>1, RecordTypes DEF CleanupType
  <2> QED BY <1>1, <2>1, <2>2, AskingKeeps DEF CleanupSeesTasks, LmInvariant, LmTypes
<1>3. CASE alive = {}
  <2>1. CleanupPass(lmDeferred, {}, lmDeferred, lmStop)
    BY <1>3 DEF CleanupSeesTasks
  <2> QED BY <1>1, <2>1, PassKeeps DEF CleanupSeesTasks
<1> QED BY <1>2, <1>3

LEMMA CleanupSeesStopKeeps == ASSUME LmInvariant, CleanupSeesStop PROVE LmInvariant'
<1> DEFINE k == lmCleanup.k
<1>0. /\ LmTypes /\ lmCleanup \in CleanupType /\ lmCleanup.at = "stop" /\ k \in Clients
      /\ k \in lmCleanup.seen
  BY DEF LmInvariant, LmTypes, Placed, CleanupSeesStop, Structure, PassKnown
<1>1. /\ lmCleanup.seen \in SUBSET Clients /\ lmCleanup.todo \in SUBSET Clients
      /\ lmCleanup.kept \in SUBSET Clients /\ lmCleanup.kept \cup {k} \in SUBSET Clients
  BY <1>0 DEF CleanupType
<1>2. /\ lmCleanup.todo \subseteq lmCleanup.seen /\ lmCleanup.kept \subseteq lmCleanup.seen
      /\ lmCleanup.seen \subseteq lmDeferred
      /\ \A j \in lmCleanup.seen : lmClient[j].runs => j \in lmCleanup.todo \cup lmCleanup.kept \cup {k}
  BY DEF LmInvariant, Structure, PassKnown
<1>3. /\ StopCleared(k) \in [Clients -> StopType] /\ lmStop \in [Clients -> StopType]
      /\ \A j \in Clients : StopCleared(k)[j] = "ok" => lmStop[j] = "ok"
  BY <1>0, StopFacts DEF LmTypes
<1>4. /\ lmEntry' = lmEntry /\ lmAttached' = lmAttached /\ lmCurrent' = lmCurrent
      /\ lmWanted' = lmWanted /\ lmPending' = lmPending /\ lmStarter' = lmStarter
      /\ lmLock' = lmLock /\ lmClient' = lmClient
      /\ lmStale' \subseteq Starters /\ lmRestart' \in BOOLEAN
  BY <1>0 DEF CleanupSeesStop, LmTypes
<1>5. CASE /\ lmCleanup.res = "ok"
           /\ CleanupPass(lmCleanup.todo, lmCleanup.kept, lmCleanup.seen, StopCleared(k))
  <2>1. ~lmClient[k].runs
    BY <1>0, <1>5 DEF LmInvariant, Structure, StopsSeen
  <2>2. \A j \in lmCleanup.seen : lmClient[j].runs => j \in lmCleanup.todo \cup lmCleanup.kept
    BY <1>2, <2>1
  <2> HIDE DEF k
  <2> QED BY <1>1, <1>2, <1>3, <1>4, <1>5, <2>2, PassKeeps
<1>6. CASE CleanupPass(lmCleanup.todo, lmCleanup.kept \cup {k}, lmCleanup.seen, StopCleared(k))
  BY <1>0, <1>1, <1>2, <1>3, <1>4, <1>6, PassKeeps
<1>7. CASE CleanupPass(lmCleanup.todo, lmCleanup.kept \cup {k}, lmCleanup.seen, lmStop)
  BY <1>0, <1>1, <1>2, <1>3, <1>4, <1>7, PassKeeps
<1> QED BY <1>5, <1>6, <1>7 DEF CleanupSeesStop

LEMMA StopEndsKeeps ==
  ASSUME LmInvariant, NEW k \in Clients, NEW o \in {"ok", "failed"}, StopEnds(k, o)
  PROVE  LmInvariant'
<1>0. LmTypes /\ lmStop[k] = "running"
  BY DEF LmInvariant, StopEnds
<1>1. /\ lmAttached' = lmAttached /\ lmCurrent' = lmCurrent /\ lmWanted' = lmWanted
      /\ lmPending' = lmPending /\ lmLock' = lmLock /\ lmDeferred' = lmDeferred
      /\ lmStale' = lmStale
  BY DEF StopEnds
<1>2. lmStop' \in [Clients -> StopType] /\ lmStop'[k] = o
      /\ \A j \in Clients \ {k} : lmStop'[j] = lmStop[j]
  BY <1>0 DEF StopEnds, LmTypes, StopType
<1>3. lmClient' \in [Clients -> ClientType]
      /\ (\A j \in Clients \ {k} : lmClient'[j] = lmClient[j])
      /\ lmClient'[k].runs = (lmClient[k].runs /\ o # "ok")
  <2> DEFINE new == [lmClient[k] EXCEPT !.runs = @ /\ o # "ok"]
  <2>1. new \in ClientType /\ new.runs = (lmClient[k].runs /\ o # "ok")
    BY <1>0 DEF LmTypes, ClientType
  <2>2. lmClient' = [lmClient EXCEPT ![k] = new]
    BY DEF StopEnds
  <2> HIDE DEF new
  <2> QED BY <1>0, <2>1, <2>2 DEF LmTypes
<1>4. /\ \A j \in Clients : lmClient'[j].runs => lmClient[j].runs
      /\ o = "ok" => ~lmClient'[k].runs
  BY <1>3
<1>5. ASSUME NEW s \in Starters
      PROVE  /\ lmStarter'[s] \in StarterType
             /\ lmStarter'[s].at = lmStarter[s].at /\ lmStarter'[s].c = lmStarter[s].c
             /\ lmStarter'[s].k = lmStarter[s].k
             /\ \/ lmStarter'[s].res = lmStarter[s].res
                \/ lmStarter[s].k = k /\ lmStarter'[s].res = o
  <2> DEFINE new == [lmStarter[s] EXCEPT !.res = o]
  <2>1. /\ new \in StarterType /\ new.at = lmStarter[s].at /\ new.c = lmStarter[s].c
        /\ new.k = lmStarter[s].k /\ new.res = o /\ lmStarter[s] \in StarterType
    BY <1>0 DEF LmTypes, StarterType, Outcomes
  <2>2. \/ lmStarter[s].k = k /\ lmStarter'[s] = new
        \/ lmStarter'[s] = lmStarter[s]
    BY DEF StopEnds
  <2> HIDE DEF new
  <2> QED BY <2>1, <2>2
<1>6. lmStarter' \in [Starters -> StarterType]
  BY <1>5 DEF StopEnds
<1>7. /\ lmEntry' \in EntryType /\ lmEntry'.at = lmEntry.at /\ lmEntry'.c = lmEntry.c
      /\ lmEntry'.k = lmEntry.k
      /\ lmEntry'.res = lmEntry.res \/ (lmEntry.k = k /\ lmEntry'.res = o)
  BY <1>0 DEF StopEnds, LmTypes, EntryType, Outcomes
<1>8. /\ lmCleanup' \in CleanupType /\ lmCleanup'.at = lmCleanup.at /\ lmCleanup'.k = lmCleanup.k
      /\ lmCleanup'.seen = lmCleanup.seen /\ lmCleanup'.todo = lmCleanup.todo
      /\ lmCleanup'.kept = lmCleanup.kept
      /\ lmCleanup'.res = lmCleanup.res \/ (lmCleanup.k = k /\ lmCleanup'.res = o)
  BY <1>0 DEF StopEnds, LmTypes, CleanupType, Outcomes
<1>9. LmTypes'
  <2>1. lmRestart' \in BOOLEAN
    BY DEF StopEnds
  <2> QED BY <1>0, <1>1, <1>2, <1>3, <1>6, <1>7, <1>8, <2>1 DEF LmTypes
<1>10. LockKnown' /\ LockHeld' /\ Placed'
  BY <1>1, <1>5, <1>7, <1>8 DEF LmInvariant, Structure, LockKnown, LockHeld, Placed
<1>11. StopsSeen'
  <2>1. \A j \in Clients : lmStop'[j] = "ok" => ~lmClient'[j].runs
    BY <1>2, <1>4 DEF LmInvariant, Structure, StopsSeen
  <2>2. \A s \in Starters :
          lmStarter'[s].at \in {"stop", "detach", "undo"} /\ lmStarter'[s].res = "ok"
            => ~lmClient'[lmStarter'[s].k].runs
    BY <1>4, <1>5 DEF LmInvariant, Structure, StopsSeen, Placed
  <2>3. lmEntry'.at = "stop" /\ lmEntry'.res = "ok" => ~lmClient'[lmEntry'.k].runs
    BY <1>4, <1>7 DEF LmInvariant, Structure, StopsSeen, Placed
  <2>4. lmCleanup'.at = "stop" /\ lmCleanup'.res = "ok" => ~lmClient'[lmCleanup'.k].runs
    BY <1>4, <1>8 DEF LmInvariant, Structure, StopsSeen, Placed
  <2> QED BY <2>1, <2>2, <2>3, <2>4 DEF StopsSeen
<1>12. PassKnown'
  <2>1. \A j \in lmCleanup.seen : lmClient'[j].runs => lmClient[j].runs
    BY <1>0, <1>4 DEF LmTypes, CleanupType
  <2> QED BY <1>1, <1>8, <2>1 DEF LmInvariant, Structure, PassKnown
<1>13. AllHeld' /\ AtMostOne' /\ Hands'
  <2>1. ASSUME NEW j \in Clients, lmClient'[j].runs
        PROVE  j \in lmDeferred' \/ HeldByEntry(j)' \/ HeldByStarter(j)'
    <3>1. j \in lmDeferred \/ HeldByEntry(j) \/ HeldByStarter(j)
      BY <1>4, <2>1 DEF LmInvariant, Structure, AllHeld
    <3>2. (HeldByEntry(j) => HeldByEntry(j)') /\ (HeldByStarter(j) => HeldByStarter(j)')
      BY <1>1, <1>5, <1>7 DEF HeldByEntry, HeldByStarter, ListenerNow
    <3> QED BY <1>1, <3>1, <3>2
  <2>2. AtMostOne'
    BY <1>4 DEF LmInvariant, Structure, AtMostOne
  <2>3. Hands'
    BY <1>1, <1>5, <1>7 DEF LmInvariant, Structure, Hands, Owns, ListenerNow
  <2> QED BY <2>1, <2>2, <2>3 DEF AllHeld
<1> QED BY <1>9, <1>10, <1>11, <1>12, <1>13 DEF LmInvariant, Structure

LEMMA ListenerDiesKeeps ==
  ASSUME LmInvariant, NEW k \in Clients, ListenerDies(k) PROVE LmInvariant'
<1>1. lmClient' \in [Clients -> ClientType]
      /\ \A j \in Clients : lmClient'[j].runs => lmClient[j].runs
  BY DEF ListenerDies, LmInvariant, LmTypes, ClientType
<1>2. /\ lmEntry' = lmEntry /\ lmAttached' = lmAttached /\ lmCurrent' = lmCurrent
      /\ lmStarter' = lmStarter /\ lmLock' = lmLock /\ lmStop' = lmStop
      /\ lmDeferred' = lmDeferred /\ lmCleanup' = lmCleanup
  BY DEF ListenerDies
<1>3. LmTypes'
  BY <1>1 DEF LmInvariant, LmTypes, ListenerDies
<1>4. LockKnown' /\ LockHeld' /\ Placed' /\ Hands'
  BY <1>2 DEF LmInvariant, Structure, LockKnown, LockHeld, Placed, Hands, Owns, ListenerNow
<1>5. StopsSeen' /\ AtMostOne'
  BY <1>1, <1>2 DEF LmInvariant, Structure, StopsSeen, AtMostOne, Placed
<1>6. PassKnown'
  <2>1. \A j \in lmCleanup.seen : lmClient'[j].runs => lmClient[j].runs
    BY <1>1 DEF LmInvariant, LmTypes, CleanupType
  <2> QED BY <1>2, <2>1 DEF LmInvariant, Structure, PassKnown
<1>7. AllHeld'
  BY <1>1, <1>2 DEF LmInvariant, Structure, AllHeld, HeldByEntry, HeldByStarter, ListenerNow
<1> QED BY <1>3, <1>4, <1>5, <1>6, <1>7 DEF LmInvariant, Structure

-------------------------------------------------------------------------------
(* The theorems.                                                             *)

LEMMA LmInvariantNext == LmInvariant /\ [LmNext]_lmVars => LmInvariant'
<1> SUFFICES ASSUME LmInvariant, [LmNext]_lmVars PROVE LmInvariant'
  OBVIOUS
<1>1. ASSUME NEW s \in Starters, StarterStep(s) PROVE LmInvariant'
  BY <1>1, BeginsKeeps, MustNotStartKeeps, KeepsListenerKeeps, StopsListenerKeeps,
     StartsAnewKeeps, ListenerStoppedKeeps, ListenerNotStoppedKeeps, ListenerStartedKeeps,
     DetachedKeeps, StarterCancelledKeeps
     DEF StarterStep
<1>2. CASE ListenerSetup \/ OptionsChanged \/ UnloadFences
  BY <1>2, SetupKeeps, OptionsChangedKeeps, UnloadFencesKeeps
<1>3. CASE UnloadStep
  BY <1>3, UnloadCancelsKeeps, UnloadStopsKeeps, UnloadSeesKeeps, UnloadEndsKeeps DEF UnloadStep
<1>4. CASE CleanupStep
  BY <1>4, CleanupLooksKeeps, CleanupStopsKeeps, CleanupSeesTasksKeeps, CleanupSeesStopKeeps,
     CleanupAwakesKeeps, CleanupEndsKeeps
     DEF CleanupStep
<1>5. ASSUME NEW k \in Clients, ListenerDies(k) PROVE LmInvariant'
  BY <1>5, ListenerDiesKeeps
<1>6. ASSUME NEW k \in Clients, NEW o \in {"ok", "failed"}, StopEnds(k, o) PROVE LmInvariant'
  BY <1>6, StopEndsKeeps
<1>7. CASE UNCHANGED lmVars
  <2>1. /\ lmEntry' = lmEntry /\ lmAttached' = lmAttached /\ lmCurrent' = lmCurrent
        /\ lmWanted' = lmWanted /\ lmPending' = lmPending /\ lmStarter' = lmStarter
        /\ lmLock' = lmLock /\ lmClient' = lmClient /\ lmStop' = lmStop
        /\ lmDeferred' = lmDeferred /\ lmStale' = lmStale /\ lmRestart' = lmRestart
        /\ lmCleanup' = lmCleanup
    BY <1>7 DEF lmVars
  <2>2. LmTypes' /\ Placed'
    BY <2>1 DEF LmInvariant, LmTypes, Placed
  <2>3. LockKnown' /\ LockHeld' /\ StopsSeen' /\ PassKnown' /\ AtMostOne'
    BY <2>1 DEF LmInvariant, Structure, LockKnown, LockHeld, StopsSeen, PassKnown, AtMostOne
  <2>4. AllHeld' /\ Hands'
    BY <2>1 DEF LmInvariant, Structure, AllHeld, Hands, HeldByEntry, HeldByStarter, Owns,
                ListenerNow
  <2> QED BY <2>2, <2>3, <2>4 DEF LmInvariant, Structure
<1> QED BY <1>1, <1>2, <1>3, <1>4, <1>5, <1>6, <1>7 DEF LmNext

LEMMA LmInvariantHolds == LmSpec => []LmInvariant
<1>1. LmInit => LmInvariant
  BY TypesInit, StructureInit DEF LmInvariant
<1> QED BY <1>1, LmInvariantNext, PTL DEF LmSpec

\* At most one runs, and one that runs is in somebody's hands.
LEMMA OneListenerFollows == LmInvariant => OneListener
<1> SUFFICES ASSUME LmInvariant PROVE OneListener
  OBVIOUS
<1> DEFINE running == {k \in Clients : lmClient[k].runs}
<1>1. Cardinality(running) <= 1
  <2>1. CASE running = {}
    <3>1. Cardinality({}) = 0
      BY FS_EmptySet
    <3> QED BY <2>1, <3>1
  <2>2. CASE running # {}
    <3>1. PICK k \in running : TRUE
      BY <2>2
    <3>2. running = {k}
      BY <3>1 DEF LmInvariant, Structure, AtMostOne
    <3>3. Cardinality({k}) = 1
      BY FS_Singleton
    <3> QED BY <3>2, <3>3
  <2> QED BY <2>1, <2>2
<1>2. ASSUME NEW k \in Clients, lmClient[k].runs
      PROVE  \/ k \in lmDeferred /\ lmCleanup.at # "none"
             \/ lmEntry.at # "off" /\ k \in {ListenerNow, lmEntry.k}
             \/ \E s \in Starters : lmStarter[s].at # "none" /\ lmStarter[s].k = k
  <2>1. k \in lmDeferred \/ HeldByEntry(k) \/ HeldByStarter(k)
    BY <1>2 DEF LmInvariant, Structure, AllHeld
  <2>2. k \in lmDeferred => lmCleanup.at # "none"
    BY DEF LmInvariant, Structure, PassKnown
  <2> QED BY <2>1, <2>2 DEF HeldByEntry, HeldByStarter, Busy
<1> QED BY <1>1, <1>2 DEF OneListener

\* Every step of every task writes values of the declared types: the options, the
\* records of the runtime bucket, the lock's queue and what each task has in hand.
THEOREM ListenerTypeCorrect == LmSpec => []LmTypeOK
<1>1. LmInvariant => LmTypeOK
  BY LmTypesOK DEF LmInvariant
<1> QED BY <1>1, LmInvariantHolds, PTL

\* However reloads, changed options, cancelled starts, stops that hang or raise and
\* passes of the cleanup overlap, one local MQTT client runs at most, and one that runs
\* is the loaded entry's or has a task that will stop it (OneListener).
THEOREM OneListenerAtATime == LmSpec => []OneListener
BY LmInvariantHolds, OneListenerFollows, PTL
===============================================================================
