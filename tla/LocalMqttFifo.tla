---------------------------- MODULE LocalMqttFifo ----------------------------
(***************************************************************************)
(* Delivery of the frames of the local broker: the FIFO actor of            *)
(* JackeryLocalMqttListener (client/local_mqtt.py).  Its queue is bounded,  *)
(* a stop may leave the rest of it to a drain in the background, and the    *)
(* client may start again while that drain is at work.                      *)
(*                                                                          *)
(* The tasks belong to the config entry, or to Home Assistant once the      *)
(* client is stopping; any of them may be cancelled.  A frame is the number *)
(* of its acceptance.                                                       *)
(***************************************************************************)
EXTENDS Naturals, Sequences

CONSTANTS
  MaxQueued,     \* _MAX_QUEUED_MESSAGES
  MaxFrames,     \* bound on the frames accepted
  MaxCancels,    \* bound on the cancellations
  MaxDrains      \* bound on the drains at work at one time

ASSUME LocalFifoAssumption ==
  MaxQueued \in Nat /\ MaxFrames \in Nat /\ MaxCancels \in Nat /\ MaxDrains \in Nat

VARIABLES
  lfStopping,    \* _stopping
  lfQueue,       \* _message_queue
  lfDelivery,    \* _message_delivery_task and _message_delivery_item
  lfConsumer,    \* _message_consumer_task
  lfRetired,     \* settled consumers whose done callback has still to run
  lfDrains,      \* the async_wait_message_queue_idle at work
  lfCancels,     \* cancellations so far
  lfAccepted,    \* history: frames accepted
  lfHanded       \* history: frames whose sink task was created

lfVars == <<lfStopping, lfQueue, lfDelivery, lfConsumer, lfRetired, lfDrains, lfCancels,
            lfAccepted, lfHanded>>

\* created: before its first step, when a cancellation still ends it.  sink: the
\* coordinator has the frame.  done, cancelled: over, but not settled.
Deliveries == {"none", "created", "sink", "done", "cancelled"}
\* blocked: awaits the delivery.  done: over, its done callback has still to run.
Consumers  == {"none", "created", "blocked", "done"}

NothingInDelivery == [at |-> "none", item |-> 0]

LfTypeOK ==
  /\ lfStopping \in BOOLEAN
  /\ lfQueue \in Seq(1..MaxFrames)
  /\ lfDelivery \in [at : Deliveries, item : 0..MaxFrames]
  /\ lfConsumer \in Consumers
  /\ lfRetired \in Nat /\ lfDrains \in 0..MaxDrains /\ lfCancels \in 0..MaxCancels
  /\ lfAccepted \in 0..MaxFrames /\ lfHanded \in 0..MaxFrames

LfInit ==
  /\ lfStopping = FALSE
  /\ lfQueue = <<>>
  /\ lfDelivery = NothingInDelivery
  /\ lfConsumer = "none"
  /\ lfRetired = 0 /\ lfDrains = 0 /\ lfCancels = 0
  /\ lfAccepted = 0 /\ lfHanded = 0

-------------------------------------------------------------------------------

\* _ensure_message_consumer, with what the caller leaves in queue and delivery.
EnsureConsumer(consumer) ==
  IF (lfQueue' # <<>> \/ lfDelivery'.at # "none") /\ consumer \in {"none", "done"}
    THEN /\ lfConsumer' = "created"
         /\ lfRetired' = IF consumer = "done" THEN lfRetired + 1 ELSE lfRetired
    ELSE /\ lfConsumer' = consumer
         /\ UNCHANGED lfRetired

DeliveryOver == lfDelivery.at \in {"done", "cancelled"}

SettledQueue_AnyItem == <<lfDelivery.item>> \o lfQueue
SettledQueue_Redelivered == IF DeliveryOver THEN <<lfDelivery.item>> \o lfQueue ELSE lfQueue

\* The queue after _settle_message_delivery: a cancelled delivery gives its frame back.
SettledQueue == IF lfDelivery.at = "cancelled" THEN <<lfDelivery.item>> \o lfQueue ELSE lfQueue

\* _enqueue_message: a frame that finds the queue full is not accepted.
Enqueue ==
  /\ ~lfStopping
  /\ Len(lfQueue) < MaxQueued
  /\ lfAccepted < MaxFrames
  /\ lfAccepted' = lfAccepted + 1
  /\ lfQueue' = Append(lfQueue, lfAccepted + 1)
  /\ UNCHANGED lfDelivery
  /\ EnsureConsumer(lfConsumer)
  /\ UNCHANGED <<lfStopping, lfDrains, lfCancels, lfHanded>>

\* _async_consume_messages finds an earlier consumer's delivery at work.
ConsumerJoins ==
  /\ lfConsumer = "created" /\ lfDelivery.at \in {"created", "sink"}
  /\ lfConsumer' = "blocked"
  /\ UNCHANGED <<lfStopping, lfQueue, lfDelivery, lfRetired, lfDrains, lfCancels,
                 lfAccepted, lfHanded>>

ConsumerReady ==
  lfConsumer \in {"created", "blocked"} /\ (lfDelivery.at = "none" \/ DeliveryOver)

\* It settles what is over and takes the next frame ...
ConsumerTakes ==
  /\ ConsumerReady /\ SettledQueue # <<>>
  /\ lfDelivery' = [at |-> "created", item |-> Head(SettledQueue)]
  /\ lfQueue' = Tail(SettledQueue)
  /\ lfConsumer' = "blocked"
  /\ UNCHANGED <<lfStopping, lfRetired, lfDrains, lfCancels, lfAccepted, lfHanded>>

\* ... or returns.
ConsumerReturns ==
  /\ ConsumerReady /\ SettledQueue = <<>>
  /\ lfDelivery' = NothingInDelivery
  /\ lfConsumer' = "done"
  /\ UNCHANGED <<lfStopping, lfQueue, lfRetired, lfDrains, lfCancels, lfAccepted, lfHanded>>

\* _consumer_done replaces it if work is left, but not while the client is stopping.
ConsumerDone ==
  /\ lfConsumer = "done"
  /\ UNCHANGED <<lfQueue, lfDelivery>>
  /\ IF lfStopping THEN lfConsumer' = "none" /\ UNCHANGED lfRetired ELSE EnsureConsumer("none")
  /\ UNCHANGED <<lfStopping, lfDrains, lfCancels, lfAccepted, lfHanded>>

\* The same of a consumer that a drain or a newer frame has replaced already.
RetiredDone ==
  /\ lfRetired > 0
  /\ UNCHANGED <<lfQueue, lfDelivery>>
  /\ lfConsumer' = IF lfStopping \/ lfConsumer \notin {"none", "done"}
                        \/ (lfQueue = <<>> /\ lfDelivery.at = "none")
                     THEN lfConsumer ELSE "created"
  /\ lfRetired' = lfRetired - (IF lfConsumer = "done" /\ lfConsumer' = "created" THEN 0 ELSE 1)
  /\ UNCHANGED <<lfStopping, lfDrains, lfCancels, lfAccepted, lfHanded>>

\* _async_deliver_message creates the sink's task, which starts with the frame, and
\* waits for it: cancelled from here on, it goes on waiting.
DeliveryInvokes ==
  /\ lfDelivery.at = "created"
  /\ lfDelivery' = [lfDelivery EXCEPT !.at = "sink"]
  /\ lfHanded' = lfHanded + 1
  /\ UNCHANGED <<lfStopping, lfQueue, lfConsumer, lfRetired, lfDrains, lfCancels, lfAccepted>>

\* The sink returns, raises, or is cancelled itself: the frame counts as handed over.
SinkEnds ==
  /\ lfDelivery.at = "sink"
  /\ lfDelivery' = [lfDelivery EXCEPT !.at = "done"]
  /\ UNCHANGED <<lfStopping, lfQueue, lfConsumer, lfRetired, lfDrains, lfCancels,
                 lfAccepted, lfHanded>>

DeliveryCut ==
  /\ lfDelivery.at = "created" /\ lfCancels < MaxCancels
  /\ lfDelivery' = [lfDelivery EXCEPT !.at = "cancelled"]
  /\ lfCancels' = lfCancels + 1
  /\ UNCHANGED <<lfStopping, lfQueue, lfConsumer, lfRetired, lfDrains, lfAccepted, lfHanded>>

ConsumerCancelled ==
  /\ lfConsumer \in {"created", "blocked"} /\ lfCancels < MaxCancels
  /\ lfConsumer = "blocked" => lfDelivery.at # "cancelled"
  /\ lfConsumer' = "done"
  /\ lfCancels' = lfCancels + 1
  /\ UNCHANGED <<lfStopping, lfQueue, lfDelivery, lfRetired, lfDrains, lfAccepted, lfHanded>>

-------------------------------------------------------------------------------
(* Stop, drain and start.                                                    *)

\* async_stop: no more frames are accepted ...
StopsAccepting ==
  /\ ~lfStopping
  /\ lfStopping' = TRUE
  /\ UNCHANGED <<lfQueue, lfDelivery, lfConsumer, lfRetired, lfDrains, lfCancels,
                 lfAccepted, lfHanded>>

\* ... and, when the broker's tasks have ended, a drain is left in the background.
DrainBegins ==
  /\ lfStopping /\ lfDrains < MaxDrains
  /\ lfDrains' = lfDrains + 1
  /\ UNCHANGED <<lfStopping, lfQueue, lfDelivery, lfConsumer, lfRetired, lfCancels,
                 lfAccepted, lfHanded>>

\* A round of async_wait_message_queue_idle settles what is over, returns if nothing
\* is left, and else sees to a consumer and awaits it.
DrainRound ==
  /\ lfDrains > 0
  /\ lfConsumer \in {"none", "done"} \/ DeliveryOver
  /\ lfQueue' = SettledQueue
  /\ lfDelivery' = IF DeliveryOver THEN NothingInDelivery ELSE lfDelivery
  /\ LET idle == lfQueue' = <<>> /\ lfDelivery'.at = "none"
     IN  /\ lfConsumer' = CASE lfConsumer \in {"created", "blocked"} -> lfConsumer
                             [] idle -> "none"
                             [] OTHER -> "created"
         /\ lfDrains' = IF idle /\ lfConsumer' = "none" THEN lfDrains - 1 ELSE lfDrains
  /\ lfRetired' = IF lfConsumer = "done" THEN lfRetired + 1 ELSE lfRetired
  /\ UNCHANGED <<lfStopping, lfCancels, lfAccepted, lfHanded>>

\* Home Assistant stops.
DrainCancelled ==
  /\ lfDrains > 0 /\ lfCancels < MaxCancels
  /\ lfDrains' = lfDrains - 1
  /\ lfCancels' = lfCancels + 1
  /\ UNCHANGED <<lfStopping, lfQueue, lfDelivery, lfConsumer, lfRetired, lfAccepted, lfHanded>>

\* async_start, perhaps while a drain is at work.
AcceptsAgain ==
  /\ lfStopping
  /\ lfStopping' = FALSE
  /\ UNCHANGED <<lfQueue, lfDelivery, lfConsumer, lfRetired, lfDrains, lfCancels,
                 lfAccepted, lfHanded>>

ActorStep ==
  \/ ConsumerJoins \/ ConsumerTakes \/ ConsumerReturns \/ ConsumerDone \/ RetiredDone
  \/ DeliveryInvokes \/ SinkEnds
  \/ DrainRound

LfNext ==
  \/ Enqueue
  \/ ActorStep
  \/ DeliveryCut \/ ConsumerCancelled \/ DrainCancelled
  \/ StopsAccepting \/ DrainBegins \/ AcceptsAgain

LfSpec == LfInit /\ [][LfNext]_lfVars

-------------------------------------------------------------------------------
(* Properties.                                                               *)

LocalSerial == INSTANCE SerialDelivery
  WITH accepted <- lfAccepted, handed <- lfHanded,
       current <- IF lfDelivery.at = "sink" THEN lfDelivery.item ELSE 0

\* The coordinator gets the accepted frames of the local broker one at a time, in
\* order and once each, though consumers, deliveries and drains are cancelled and
\* replaced under each other and the client starts again over an unfinished drain.
LocalFifoSpec == LocalSerial!Spec
===============================================================================
