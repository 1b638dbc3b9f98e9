------------------------- MODULE CloudMqttFifo_proofs -------------------------
(***************************************************************************)
(* Theorems about CloudMqttFifo, for every number of frames and of         *)
(* cancellations.                                                          *)
(***************************************************************************)
EXTENDS CloudMqttFifo, TLAPS

-----------------------------------------------------------------------------
(* Shape: the types without the bound on the frame numbers, which needs the *)
(* order of the frames below.                                               *)

Shape ==
    /\ stopping \in BOOLEAN
    /\ queue \in Seq(Nat)
    /\ delivery \in [at : DeliveryStates, item : Nat]
    /\ consumer \in ConsumerStates
    /\ retired \in Nat
    /\ drain \in {"none", "tasks", "waiting", "returned"}
    /\ cancels \in 0..MaxCancels
    /\ accepted \in 0..MaxFrames
    /\ handed \in Nat

\* Settling a delivery puts its frame at the head of the queue, or drops it.
LEMMA SettledType ==
    ASSUME Shape
    PROVE  /\ SettledQueue \in Seq(Nat)
           /\ delivery.at = "cancelled" =>
                /\ SettledQueue # <<>> /\ Len(SettledQueue) = Len(queue) + 1
                /\ SettledQueue[1] = delivery.item
                /\ \A i \in 1..Len(queue) : SettledQueue[i + 1] = queue[i]
           /\ delivery.at # "cancelled" => SettledQueue = queue
<1>1. <<delivery.item>> \in Seq(Nat) /\ queue \in Seq(Nat)
  BY DEF Shape
<1> QED BY <1>1 DEF SettledQueue

\* Only ConsumerTakes and DrainRound move frames into a delivery or out of it.
LEMMA EnsureType ==
    ASSUME Shape, NEW q, NEW d, NEW c \in ConsumerStates, Ensure(q, d, c)
    PROVE  consumer' \in ConsumerStates /\ retired' \in Nat
BY DEF Shape, Ensure, ConsumerStates

LEMMA ShapeInit == Init => Shape
<1> SUFFICES ASSUME Init PROVE Shape
  OBVIOUS
<1>1. queue \in Seq(Nat)
  BY DEF Init
<1>2. cancels \in 0..MaxCancels /\ accepted \in 0..MaxFrames
  BY FifoAssumption DEF Init
<1>3. delivery \in [at : DeliveryStates, item : Nat]
  BY DEF Init, NoDelivery, DeliveryStates
<1>4. /\ stopping \in BOOLEAN /\ consumer \in ConsumerStates /\ retired \in Nat
      /\ handed \in Nat /\ drain \in {"none", "tasks", "waiting", "returned"}
  BY DEF Init, ConsumerStates
<1> QED BY <1>1, <1>2, <1>3, <1>4 DEF Shape

LEMMA ShapeNext == Shape /\ [Next]_vars => Shape'
<1> SUFFICES ASSUME Shape, [Next]_vars PROVE Shape'
  OBVIOUS
<1>0. /\ NoDelivery \in [at : DeliveryStates, item : Nat]
      /\ \A at \in DeliveryStates : [delivery EXCEPT !.at = at] \in [at : DeliveryStates, item : Nat]
      /\ "none" \in ConsumerStates /\ consumer \in ConsumerStates
  BY DEF Shape, NoDelivery, DeliveryStates, ConsumerStates
<1>1. CASE Accept
  <2>1. consumer' \in ConsumerStates /\ retired' \in Nat
    BY <1>0, <1>1, EnsureType DEF Accept
  <2>2. accepted' \in 0..MaxFrames /\ queue' \in Seq(Nat)
    BY <1>1, FifoAssumption DEF Accept, Shape
  <2> QED BY <1>1, <2>1, <2>2 DEF Accept, Shape
<1>2. CASE ConsumerTakes
  <2>1. queue' \in Seq(Nat) /\ delivery'.item \in Nat
    BY <1>2, SettledType DEF ConsumerTakes
  <2>2. delivery' \in [at : DeliveryStates, item : Nat] /\ consumer' \in ConsumerStates
    BY <1>2, <2>1 DEF ConsumerTakes, DeliveryStates, ConsumerStates
  <2> QED BY <1>2, <2>1, <2>2 DEF ConsumerTakes, Shape
<1>3. CASE ConsumerJoins \/ ConsumerReturns
  BY <1>0, <1>3 DEF ConsumerJoins, ConsumerReturns, Shape, ConsumerStates
<1>4. CASE ConsumerDone
  <2>1. consumer' \in ConsumerStates /\ retired' \in Nat
    BY <1>0, <1>4, EnsureType DEF ConsumerDone, Shape
  <2> QED BY <1>4, <2>1 DEF ConsumerDone, Shape
<1>5. CASE RetiredConsumerDone
  BY <1>5 DEF RetiredConsumerDone, Shape, ConsumerStates
<1>6. CASE DeliveryStep
  BY <1>0, <1>6 DEF DeliveryStep, DeliveryBegins, CallbackBegins, CallbackEnds, Shape,
                    DeliveryStates
<1>7. CASE Cancellation
  <2>1. cancels' \in 0..MaxCancels
    BY <1>7, FifoAssumption DEF Cancellation, DeliveryCancelled, ConsumerCancelled,
                                CallbackCancelled, Cancel, Shape
  <2> QED BY <1>0, <1>7, <2>1 DEF Cancellation, DeliveryCancelled, ConsumerCancelled,
                CallbackCancelled, Shape, DeliveryStates, ConsumerStates
<1>8. CASE StopBegins \/ StopFails \/ Restart
  BY <1>8 DEF StopBegins, StopFails, Restart, Shape
<1>9. CASE DrainRound
  <2>1. queue' \in Seq(Nat) /\ delivery' \in [at : DeliveryStates, item : Nat]
    BY <1>0, <1>9, SettledType DEF DrainRound, Shape
  <2>2. retired' \in Nat /\ consumer' \in ConsumerStates
    BY <1>9 DEF DrainRound, DrainConsumer, Drained, Shape, ConsumerStates
  <2>3. drain' \in {"none", "tasks", "waiting", "returned"}
    BY <1>9 DEF DrainRound
  <2> QED BY <1>9, <2>1, <2>2, <2>3 DEF DrainRound, Shape
<1>10. CASE UNCHANGED vars
  BY <1>10 DEF vars, Shape
<1> QED BY <1>1, <1>2, <1>3, <1>4, <1>5, <1>6, <1>7, <1>8, <1>9, <1>10 DEF Next, ConsumerStep

-----------------------------------------------------------------------------
(* Order.                                                                   *)

\* Every frame has a number from 1 on, so a frame inside its callback is not 0.
ItemNumbered == delivery.at # "none" => delivery.item # 0
NothingHeld == delivery.at = "none" => delivery.item = 0

OrderInv == AcceptedOrder /\ ItemNumbered /\ NothingHeld

LEMMA OrderInit == Init => OrderInv
BY DEF Init, OrderInv, AcceptedOrder, ItemNumbered, NothingHeld, NoDelivery, Held

\* Settling keeps the order: the frames not handed out are the settled queue.
LEMMA SettledOrder ==
    ASSUME Shape, AcceptedOrder, delivery.at = "none" \/ Finished(delivery)
    PROVE  /\ accepted = handed + Len(SettledQueue)
           /\ \A i \in 1..Len(SettledQueue) : SettledQueue[i] = handed + i
<1>0. handed \in Nat /\ Len(queue) \in Nat /\ accepted \in Nat
  BY FifoAssumption DEF Shape
<1>1. CASE delivery.at = "cancelled"
  <2>1. accepted = handed + 1 + Len(queue) /\ delivery.item = handed + 1
        /\ \A i \in 1..Len(queue) : queue[i] = handed + 1 + i
    BY <1>1 DEF AcceptedOrder, Held
  <2>2. /\ Len(SettledQueue) = Len(queue) + 1 /\ SettledQueue[1] = delivery.item
        /\ \A i \in 1..Len(queue) : SettledQueue[i + 1] = queue[i]
    BY <1>1, SettledType
  <2>3. ASSUME NEW i \in 1..Len(SettledQueue) PROVE SettledQueue[i] = handed + i
    <3>1. CASE i = 1
      BY <1>0, <2>1, <2>2, <3>1
    <3>2. CASE i # 1
      <4>1. i - 1 \in 1..Len(queue) /\ (i - 1) + 1 = i
        BY <1>0, <2>2, <3>2
      <4>2. SettledQueue[(i - 1) + 1] = queue[i - 1] /\ queue[i - 1] = handed + 1 + (i - 1)
        BY <2>1, <2>2, <4>1
      <4> QED BY <1>0, <4>1, <4>2
    <3> QED BY <3>1, <3>2
  <2> QED BY <1>0, <2>1, <2>2, <2>3
<1>2. CASE delivery.at # "cancelled"
  <2>1. SettledQueue = queue /\ Held = 0
    BY <1>2, SettledType DEF Finished, Held
  <2> QED BY <1>0, <2>1 DEF AcceptedOrder
<1> QED BY <1>1, <1>2

LEMMA OrderNext == Shape /\ OrderInv /\ [Next]_vars => OrderInv'
<1> SUFFICES ASSUME Shape, OrderInv, [Next]_vars PROVE OrderInv'
  OBVIOUS
<1>0. /\ handed \in Nat /\ accepted \in Nat /\ queue \in Seq(Nat) /\ Len(queue) \in Nat
      /\ delivery \in [at : DeliveryStates, item : Nat]
      /\ AcceptedOrder /\ ItemNumbered /\ NothingHeld
  BY FifoAssumption DEF Shape, OrderInv
<1> USE DEF OrderInv
<1>1. CASE Accept
  <2>1. /\ UNCHANGED <<delivery, handed>> /\ accepted' = accepted + 1
        /\ queue' = Append(queue, accepted + 1)
    BY <1>1 DEF Accept
  <2>2. Held' = Held /\ Held \in Nat
    BY <2>1 DEF Held
  <2>3. Len(queue') = Len(queue) + 1
    BY <1>0, <2>1
  <2>4. ASSUME NEW i \in 1..Len(queue') PROVE queue'[i] = handed + Held + i
    <3>1. CASE i = Len(queue) + 1
      <4>1. queue'[i] = accepted + 1
        BY <1>0, <2>1, <3>1
      <4> QED BY <1>0, <2>2, <3>1, <4>1 DEF AcceptedOrder
    <3>2. CASE i # Len(queue) + 1
      <4>1. i \in 1..Len(queue)
        BY <1>0, <2>3, <3>2
      <4>2. queue'[i] = queue[i]
        BY <1>0, <2>1, <4>1
      <4> QED BY <4>1, <4>2 DEF AcceptedOrder
    <3> QED BY <3>1, <3>2
  <2> QED BY <1>0, <2>1, <2>2, <2>3, <2>4 DEF AcceptedOrder, ItemNumbered, NothingHeld
<1>2. CASE ConsumerTakes
  <2>1. /\ SettledQueue # <<>> /\ SettledQueue \in Seq(Nat)
        /\ accepted = handed + Len(SettledQueue)
        /\ \A i \in 1..Len(SettledQueue) : SettledQueue[i] = handed + i
    BY <1>0, <1>2, SettledOrder, SettledType DEF ConsumerTakes, ConsumerReady
  <2>2. /\ delivery' = [at |-> "created", item |-> Head(SettledQueue)]
        /\ queue' = Tail(SettledQueue) /\ UNCHANGED <<accepted, handed>>
    BY <1>2 DEF ConsumerTakes
  <2>3. Held' = 1 /\ delivery'.item = handed + 1
    BY <2>1, <2>2 DEF Held
  <2>4. Len(queue') = Len(SettledQueue) - 1 /\ Len(SettledQueue) \in Nat
        /\ \A i \in 1..Len(queue') : queue'[i] = SettledQueue[i + 1]
    BY <2>1, <2>2
  <2>5. ASSUME NEW i \in 1..Len(queue') PROVE queue'[i] = handed + 1 + i
    BY <1>0, <2>1, <2>4
  <2> QED BY <1>0, <2>1, <2>2, <2>3, <2>4, <2>5 DEF AcceptedOrder, ItemNumbered, NothingHeld
<1>3. CASE ConsumerReturns
  <2>1. SettledQueue = <<>> /\ delivery' = NoDelivery /\ UNCHANGED <<queue, accepted, handed>>
        /\ (delivery.at = "none" \/ Finished(delivery))
    BY <1>3 DEF ConsumerReturns, ConsumerReady
  <2>2. accepted = handed /\ queue = <<>>
    BY <1>0, <2>1, SettledOrder, SettledType
  <2> QED BY <1>0, <2>1, <2>2 DEF AcceptedOrder, ItemNumbered, NothingHeld, Held, NoDelivery
<1>4. CASE DeliveryBegins
  <2>1. /\ delivery.at = "created" /\ delivery'.at = "invoked"
        /\ delivery'.item = delivery.item
        /\ handed' = handed + 1 /\ UNCHANGED <<queue, accepted>>
    BY <1>0, <1>4 DEF DeliveryBegins
  <2>2. Held = 1 /\ Held' = 0
    BY <2>1 DEF Held
  <2> QED BY <1>0, <2>1, <2>2 DEF AcceptedOrder, ItemNumbered, NothingHeld
<1>5. CASE CallbackBegins \/ CallbackEnds \/ DeliveryCancelled \/ CallbackCancelled
  <2>1. /\ delivery'.item = delivery.item /\ delivery.at # "none" /\ delivery'.at # "none"
        /\ delivery.at \in {"created", "cancelled"} <=> delivery'.at \in {"created", "cancelled"}
        /\ UNCHANGED <<queue, accepted, handed>>
    BY <1>0, <1>5 DEF CallbackBegins, CallbackEnds, DeliveryCancelled, CallbackCancelled
  <2>2. Held' = Held
    BY <2>1 DEF Held
  <2> QED BY <1>0, <2>1, <2>2 DEF AcceptedOrder, ItemNumbered, NothingHeld
<1>6. CASE DrainRound
  <2>1. CASE Finished(delivery)
    <3>1. /\ queue' = SettledQueue /\ delivery' = NoDelivery /\ UNCHANGED <<accepted, handed>>
      BY <1>6, <2>1 DEF DrainRound
    <3>2. /\ accepted = handed + Len(SettledQueue)
          /\ \A i \in 1..Len(SettledQueue) : SettledQueue[i] = handed + i
      BY <1>0, <2>1, SettledOrder
    <3>3. Held' = 0 /\ delivery'.at = "none" /\ delivery'.item = 0
      BY <3>1 DEF Held, NoDelivery
    <3> QED BY <1>0, <3>1, <3>2, <3>3 DEF AcceptedOrder, ItemNumbered, NothingHeld, NoDelivery
  <2>2. CASE ~Finished(delivery)
    BY <1>0, <1>6, <2>2 DEF DrainRound, AcceptedOrder, ItemNumbered, NothingHeld, Held
  <2> QED BY <2>1, <2>2
<1>7. CASE UNCHANGED <<queue, delivery, accepted, handed>>
  BY <1>0, <1>7 DEF AcceptedOrder, ItemNumbered, NothingHeld, Held
<1> QED BY <1>1, <1>2, <1>3, <1>4, <1>5, <1>6, <1>7
        DEF Next, ConsumerStep, DeliveryStep, Cancellation, ConsumerJoins, ConsumerDone,
            RetiredConsumerDone, ConsumerCancelled, StopBegins, StopFails, Restart, vars

LEMMA OrderedShape == Spec => [](Shape /\ OrderInv)
BY ShapeInit, ShapeNext, OrderInit, OrderNext, PTL DEF Spec

\* The FIFO's state keeps its types: in particular no more frames are handed out
\* than the bound on the accepted ones.
THEOREM TypeCorrect == Spec => []TypeOK
<1>1. Shape /\ OrderInv => TypeOK
  <2> SUFFICES ASSUME Shape, OrderInv PROVE TypeOK
    OBVIOUS
  <2>1. /\ handed \in Nat /\ Len(queue) \in Nat /\ Held \in Nat /\ queue \in Seq(Nat)
        /\ accepted \in Nat /\ accepted <= MaxFrames /\ MaxFrames \in Nat
        /\ delivery \in [at : DeliveryStates, item : Nat]
        /\ accepted = handed + Held + Len(queue)
        /\ \A i \in 1..Len(queue) : queue[i] = handed + Held + i
    BY FifoAssumption DEF Shape, OrderInv, AcceptedOrder, Held
  <2>2. ASSUME NEW i \in 1..Len(queue) PROVE queue[i] \in Frame
    BY <2>1 DEF Frame
  <2>3. queue \in Seq(Frame)
    BY <2>1, <2>2
  <2>4. delivery.item \in 0..MaxFrames
    <3>1. CASE delivery.at # "none"
      BY <2>1, <3>1 DEF OrderInv, AcceptedOrder
    <3>2. CASE delivery.at = "none"
      BY <2>1, <3>2 DEF OrderInv, NothingHeld
    <3> QED BY <3>1, <3>2
  <2>5. handed \in 0..MaxFrames
    BY <2>1
  <2> QED BY <2>1, <2>3, <2>4, <2>5 DEF Shape, TypeOK
<1> QED BY <1>1, OrderedShape, PTL

\* The frames handed out, held and queued are always the accepted ones, in order.
THEOREM OrderKept == Spec => []AcceptedOrder
<1>1. OrderInv => AcceptedOrder
  BY DEF OrderInv
<1> QED BY <1>1, ShapeInit, ShapeNext, OrderInit, OrderNext, PTL DEF Spec

-----------------------------------------------------------------------------
(* Wake-ups and the drain of a stop.                                        *)

\* A stop in progress, or one that returned, holds _stopping up to the restart.
DrainIsStop == drain # "none" => stopping

WakeInv == DrainIsStop /\ NoStrandedFrames /\ StopDrains

LEMMA WakeInit == Init => WakeInv
BY DEF Init, WakeInv, DrainIsStop, NoStrandedFrames, StopDrains, Work, NoDelivery

\* Whoever calls _ensure_message_consumer leaves no work without a consumer.
LEMMA EnsureWakes ==
    ASSUME NEW q, NEW d, NEW c \in ConsumerStates, Ensure(q, d, c)
    PROVE  Work(q, d) => consumer' # "none"
BY DEF Ensure, ConsumerStates

LEMMA WakeNext == Shape /\ OrderInv /\ WakeInv /\ [Next]_vars => WakeInv'
<1> SUFFICES ASSUME Shape, OrderInv, WakeInv, [Next]_vars PROVE WakeInv'
  OBVIOUS
<1>0. /\ DrainIsStop /\ NoStrandedFrames /\ StopDrains
      /\ consumer \in ConsumerStates /\ "none" \in ConsumerStates
      /\ retired \in Nat /\ handed \in Nat
      /\ delivery \in [at : DeliveryStates, item : Nat]
  BY DEF WakeInv, Shape, ConsumerStates
<1> USE DEF WakeInv, Work
<1>1. CASE Accept
  <2>1. ~stopping /\ drain = "none" /\ UNCHANGED <<stopping, drain, delivery>>
    BY <1>0, <1>1 DEF Accept, DrainIsStop
  <2>2. Work(queue', delivery) => consumer' # "none"
    BY <1>0, <1>1, EnsureWakes DEF Accept
  <2> QED BY <2>1, <2>2 DEF DrainIsStop, NoStrandedFrames, StopDrains
<1>2. CASE ConsumerJoins \/ ConsumerTakes \/ ConsumerReturns
  <2>1. consumer # "none" /\ drain # "returned" /\ consumer' # "none"
        /\ UNCHANGED <<stopping, drain>>
    BY <1>0, <1>2 DEF ConsumerJoins, ConsumerTakes, ConsumerReturns, ConsumerReady, StopDrains
  <2> QED BY <1>0, <2>1 DEF DrainIsStop, NoStrandedFrames, StopDrains
<1>3. CASE ConsumerDone
  <2>1. drain # "returned" /\ UNCHANGED <<stopping, drain, queue, delivery>>
    BY <1>0, <1>3 DEF ConsumerDone, StopDrains
  <2>2. ~stopping /\ Work(queue, delivery) => consumer' # "none"
    BY <1>0, <1>3, EnsureWakes DEF ConsumerDone
  <2> QED BY <1>0, <2>1, <2>2 DEF DrainIsStop, NoStrandedFrames, StopDrains
<1>4. CASE RetiredConsumerDone
  <2>1. UNCHANGED <<stopping, drain, queue, delivery, accepted, handed>>
    BY <1>4 DEF RetiredConsumerDone
  <2>2. stopping => consumer' = consumer
    BY <1>4 DEF RetiredConsumerDone
  <2>3. ~stopping /\ Work(queue, delivery) => consumer' # "none"
    BY <1>4 DEF RetiredConsumerDone
  <2> QED BY <1>0, <2>1, <2>2, <2>3 DEF DrainIsStop, NoStrandedFrames, StopDrains
<1>5. CASE DeliveryStep \/ DeliveryCancelled \/ CallbackCancelled
  <2>1. /\ delivery.at # "none" /\ delivery'.at # "none"
        /\ UNCHANGED <<stopping, drain, queue, consumer, retired>>
    BY <1>0, <1>5 DEF DeliveryStep, DeliveryBegins, CallbackBegins, CallbackEnds,
                      DeliveryCancelled, CallbackCancelled
  <2> QED BY <1>0, <2>1 DEF DrainIsStop, NoStrandedFrames, StopDrains
<1>6. CASE ConsumerCancelled
  BY <1>0, <1>6 DEF ConsumerCancelled, DrainIsStop, NoStrandedFrames, StopDrains
<1>7. CASE StopBegins \/ StopFails
  BY <1>0, <1>7 DEF StopBegins, StopFails, DrainIsStop, NoStrandedFrames, StopDrains
<1>8. CASE Restart
  BY <1>0, <1>8 DEF Restart, DrainIsStop, NoStrandedFrames, StopDrains
<1>9. CASE DrainRound
  <2>1. stopping /\ stopping' /\ drain' # "none"
    BY <1>0, <1>9 DEF DrainRound, DrainIsStop
  <2>2. ASSUME drain' = "returned"
        PROVE  handed' = accepted' /\ ~Work(queue', delivery') /\ consumer' = "none"
    <3>1. queue' = <<>> /\ delivery'.at = "none" /\ consumer' = "none"
      BY <1>9, <2>2 DEF DrainRound, Drained
    <3>2. AcceptedOrder' /\ accepted' = accepted /\ handed' = handed
      BY <1>9, OrderNext DEF OrderInv, DrainRound
    <3> QED BY <1>0, <3>1, <3>2 DEF AcceptedOrder, Held
  <2> QED BY <2>1, <2>2 DEF DrainIsStop, NoStrandedFrames, StopDrains
<1>10. CASE UNCHANGED vars
  BY <1>0, <1>10 DEF vars, DrainIsStop, NoStrandedFrames, StopDrains
<1> QED BY <1>1, <1>2, <1>3, <1>4, <1>5, <1>6, <1>7, <1>8, <1>9, <1>10
        DEF Next, ConsumerStep, Cancellation

LEMMA Invariance == Spec => [](Shape /\ OrderInv /\ WakeInv)
BY ShapeInit, ShapeNext, OrderInit, OrderNext, WakeInit, WakeNext, PTL DEF Spec

\* Work that waits in a running client always has someone to wake up for it.
THEOREM NobodyStranded == Spec => []NoStrandedFrames
<1>1. WakeInv => NoStrandedFrames
  BY DEF WakeInv
<1> QED BY <1>1, Invariance, PTL

\* A stop that returned left no frame behind.
THEOREM StopLeavesNothing == Spec => []StopDrains
<1>1. WakeInv => StopDrains
  BY DEF WakeInv
<1> QED BY <1>1, Invariance, PTL

-----------------------------------------------------------------------------
(* Refinement.                                                              *)

Current == IF delivery.at \in {"invoked", "running"} THEN delivery.item ELSE 0

\* A step is the serial sink's Accept, Hand or Finish, or invisible to it.
LEMMA SerialStep ==
    ASSUME Shape, OrderInv, [Next]_vars
    PROVE  [Serial!Next]_<<accepted, handed, Current>>
<1>0. /\ delivery \in [at : DeliveryStates, item : Nat] /\ handed \in Nat
      /\ delivery.at # "none" => delivery.item = handed + Held /\ delivery.item # 0
      /\ accepted = handed + Held + Len(queue) /\ Len(queue) \in Nat
  BY DEF OrderInv, AcceptedOrder, ItemNumbered, Shape
<1>1. CASE Accept
  BY <1>1 DEF Accept, Serial!Next, Serial!Accept, Current
<1>2. CASE DeliveryBegins
  <2>1. /\ delivery.at = "created" /\ delivery'.at = "invoked"
        /\ delivery'.item = delivery.item
        /\ handed' = handed + 1 /\ accepted' = accepted
    BY <1>0, <1>2 DEF DeliveryBegins
  <2>2. Current = 0 /\ Current' = handed + 1 /\ handed < accepted
    BY <1>0, <2>1 DEF Current, Held
  <2> QED BY <2>1, <2>2 DEF Serial!Next, Serial!Hand, Current
<1>3. CASE CallbackEnds \/ CallbackCancelled
  <2>1. Current # 0 /\ Current' = 0 /\ UNCHANGED <<accepted, handed>>
    BY <1>0, <1>3 DEF CallbackEnds, CallbackCancelled, Current
  <2> QED BY <2>1 DEF Serial!Next, Serial!Finish, Current
<1>4. CASE CallbackBegins
  BY <1>0, <1>4 DEF CallbackBegins, Current
<1>5. CASE DeliveryCancelled
  BY <1>0, <1>5 DEF DeliveryCancelled, Current
<1>6. CASE ConsumerTakes \/ ConsumerReturns
  BY <1>6 DEF ConsumerTakes, ConsumerReturns, ConsumerReady, Finished, NoDelivery, Current
<1>7. CASE DrainRound
  <2>1. delivery' = IF Finished(delivery) THEN NoDelivery ELSE delivery
    BY <1>7 DEF DrainRound
  <2> QED BY <1>7, <2>1 DEF DrainRound, Finished, NoDelivery, Current
<1>8. CASE UNCHANGED <<delivery, accepted, handed>>
  BY <1>8 DEF Current
<1> QED BY <1>1, <1>2, <1>3, <1>4, <1>5, <1>6, <1>7, <1>8
        DEF Next, ConsumerStep, DeliveryStep, Cancellation, ConsumerJoins, ConsumerDone,
            RetiredConsumerDone, ConsumerCancelled, StopBegins, StopFails, Restart, vars

\* The actor is a serial sink: one frame at a time, in order, each at most once.
THEOREM RefinesSerialDelivery == Spec => ImplementsSerialDelivery
<1>1. Init => Serial!Init
  BY DEF Init, Serial!Init, NoDelivery
<1>2. Shape /\ OrderInv /\ [Next]_vars => [Serial!Next]_<<accepted, handed, Current>>
  BY SerialStep
<1> QED BY <1>1, <1>2, Invariance, PTL DEF Spec, ImplementsSerialDelivery, Serial!Spec, Current

=============================================================================
