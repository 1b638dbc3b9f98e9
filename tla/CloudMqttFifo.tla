--------------------------- MODULE CloudMqttFifo ---------------------------
(***************************************************************************)
(* Delivery of accepted cloud frames: the FIFO actor of                    *)
(* JackeryMqttPushClient (client/mqtt_push.py).  A consumer task pops one  *)
(* frame at a time and awaits a delivery task, which runs the coordinator's*)
(* callback in a task of its own.  Both tasks belong to the config entry,  *)
(* so an unload may cancel either of them at any await; the callback is    *)
(* cancelled only by Home Assistant itself.                                *)
(*                                                                         *)
(* Which session a frame comes from is CloudMqttSession's subject: here a  *)
(* frame is its acceptance number.  A cancellation that reaches a delivery *)
(* task after its first step is swallowed there and changes nothing.       *)
(***************************************************************************)
EXTENDS Naturals, Sequences

CONSTANTS MaxFrames,   \* bound on the frames accepted
          MaxCancels   \* bound on the cancellations from outside

ASSUME FifoAssumption == MaxFrames \in Nat /\ MaxCancels \in Nat

VARIABLES
    stopping,   \* _stopping
    queue,      \* _message_queue
    delivery,   \* _message_delivery_task and _message_delivery_item
    consumer,   \* _message_consumer_task
    retired,    \* replaced or settled consumers whose done callback has not run
    drain,      \* the async_stop that waits for the queue to be idle
    cancels,    \* cancellations so far
    accepted,   \* history: frames accepted
    handed      \* history: frames whose callback task was created

vars == <<stopping, queue, delivery, consumer, retired, drain, cancels, accepted, handed>>

Frame == 1..MaxFrames

\* A delivery task: "created" has not run its first step, "invoked" has created
\* the callback task, "running" is inside the callback; "done" and "cancelled"
\* are finished tasks that nobody has settled.
DeliveryStates == {"none", "created", "invoked", "running", "done", "cancelled"}
NoDelivery == [at |-> "none", item |-> 0]

\* A consumer task: "blocked" awaits the delivery task, "done" is finished with
\* its done callback still to run.
ConsumerStates == {"none", "created", "blocked", "done"}

Init ==
    /\ stopping = FALSE
    /\ queue = <<>>
    /\ delivery = NoDelivery
    /\ consumer = "none"
    /\ retired = 0
    /\ drain = "none"
    /\ cancels = 0
    /\ accepted = 0
    /\ handed = 0

-----------------------------------------------------------------------------
Work(q, d) == q # <<>> \/ d.at # "none"
Finished(d) == d.at \in {"done", "cancelled"}

\* _ensure_message_consumer on the state <<q, d, c>> the caller leaves: one new
\* task unless there is no work or the present one is alive.
Ensure_QueueOnly(q, d, c) ==
    IF q # <<>> /\ c \in {"none", "done"}
    THEN /\ consumer' = "created"
         /\ retired' = IF c = "done" THEN retired + 1 ELSE retired
    ELSE consumer' = c /\ UNCHANGED retired
Ensure(q, d, c) ==
    IF Work(q, d) /\ c \in {"none", "done"}
    THEN /\ consumer' = "created"
         /\ retired' = IF c = "done" THEN retired + 1 ELSE retired
    ELSE consumer' = c /\ UNCHANGED retired

\* _settle_message_delivery: only a cancelled delivery gives its frame back.
SettledQueue_Tail == IF delivery.at = "cancelled" THEN Append(queue, delivery.item) ELSE queue
SettledQueue_Redelivered == IF Finished(delivery) THEN <<delivery.item>> \o queue ELSE queue
SettledQueue == IF delivery.at = "cancelled" THEN <<delivery.item>> \o queue ELSE queue

\* _handle_message past its session check.
Accept ==
    /\ ~stopping /\ accepted < MaxFrames
    /\ accepted' = accepted + 1
    /\ queue' = Append(queue, accepted + 1)
    /\ Ensure(queue', delivery, consumer)
    /\ UNCHANGED <<stopping, delivery, drain, cancels, handed>>

-----------------------------------------------------------------------------
(* _async_consume_messages, from one await to the next.                     *)

\* The first step of a consumer that finds an earlier one's delivery at work.
ConsumerJoins ==
    /\ consumer = "created" /\ delivery.at \in {"created", "invoked", "running"}
    /\ consumer' = "blocked"
    /\ UNCHANGED <<stopping, queue, delivery, retired, drain, cancels, accepted, handed>>

\* The awaited delivery is over, or a drain has already settled it.
ConsumerReady ==
    consumer \in {"created", "blocked"} /\ (delivery.at = "none" \/ Finished(delivery))

\* Settle the finished delivery and take the next frame ...
ConsumerTakes ==
    /\ ConsumerReady /\ SettledQueue # <<>>
    /\ delivery' = [at |-> "created", item |-> Head(SettledQueue)]
    /\ queue' = Tail(SettledQueue)
    /\ consumer' = "blocked"
    /\ UNCHANGED <<stopping, retired, drain, cancels, accepted, handed>>

\* ... or return.
ConsumerReturns ==
    /\ ConsumerReady /\ SettledQueue = <<>>
    /\ delivery' = NoDelivery
    /\ consumer' = "done"
    /\ UNCHANGED <<stopping, queue, retired, drain, cancels, accepted, handed>>

ConsumerDone_NoReplacement ==
    /\ consumer = "done"
    /\ consumer' = "none"
    /\ UNCHANGED <<stopping, queue, delivery, retired, drain, cancels, accepted, handed>>

\* _consumer_done: settle the consumer and replace it if it left work behind.
ConsumerDone ==
    /\ consumer = "done"
    /\ IF stopping THEN consumer' = "none" /\ UNCHANGED retired
                   ELSE Ensure(queue, delivery, "none")
    /\ UNCHANGED <<stopping, queue, delivery, drain, cancels, accepted, handed>>

\* The done callback of a consumer that is no longer _message_consumer_task.
RetiredConsumerDone ==
    /\ retired > 0
    /\ IF stopping \/ ~Work(queue, delivery) \/ consumer \in {"created", "blocked"}
       THEN retired' = retired - 1 /\ UNCHANGED consumer
       ELSE /\ consumer' = "created"
            /\ retired' = IF consumer = "done" THEN retired ELSE retired - 1
    /\ UNCHANGED <<stopping, queue, delivery, drain, cancels, accepted, handed>>

-----------------------------------------------------------------------------
(* _async_deliver_message and the callback task.                            *)

DeliveryBegins ==
    /\ delivery.at = "created"
    /\ delivery' = [delivery EXCEPT !.at = "invoked"]
    /\ handed' = handed + 1
    /\ UNCHANGED <<stopping, queue, consumer, retired, drain, cancels, accepted>>

CallbackBegins ==
    /\ delivery.at = "invoked"
    /\ delivery' = [delivery EXCEPT !.at = "running"]
    /\ UNCHANGED <<stopping, queue, consumer, retired, drain, cancels, accepted, handed>>

\* The callback returned or raised; the delivery task observes it and ends.
CallbackEnds ==
    /\ delivery.at = "running"
    /\ delivery' = [delivery EXCEPT !.at = "done"]
    /\ UNCHANGED <<stopping, queue, consumer, retired, drain, cancels, accepted, handed>>

-----------------------------------------------------------------------------
(* Cancellations from outside.                                              *)

Cancel == cancels < MaxCancels /\ cancels' = cancels + 1

\* Before its first step only: the callback was never created.
DeliveryCancelled ==
    /\ Cancel /\ delivery.at = "created"
    /\ delivery' = [delivery EXCEPT !.at = "cancelled"]
    /\ UNCHANGED <<stopping, queue, consumer, retired, drain, accepted, handed>>

\* A consumer woken by a cancelled delivery takes its own cancellation for the
\* delivery's and goes on (ConsumerTakes, ConsumerReturns).
ConsumerCancelled ==
    /\ Cancel
    /\ consumer = "created" \/ (consumer = "blocked" /\ delivery.at # "cancelled")
    /\ consumer' = "done"
    /\ UNCHANGED <<stopping, queue, delivery, retired, drain, accepted, handed>>

\* A cancelled callback is a handler error: its frame is not handed out again.
CallbackCancelled ==
    /\ Cancel /\ delivery.at \in {"invoked", "running"}
    /\ delivery' = [delivery EXCEPT !.at = "done"]
    /\ UNCHANGED <<stopping, queue, consumer, retired, drain, accepted, handed>>

-----------------------------------------------------------------------------
(* async_stop and async_start, as far as the FIFO is concerned.             *)

\* _async_stop_locked sets _stopping, then waits for the session's tasks.
StopBegins ==
    /\ drain \in {"none", "returned"}
    /\ stopping' = TRUE /\ drain' = "tasks"
    /\ UNCHANGED <<queue, delivery, consumer, retired, cancels, accepted, handed>>

\* What ends the drain, and the consumer one of its rounds awaits.
Drained_Queue(q, d, c) == q = <<>> /\ c = "none"
Drained(q, d, c) == ~Work(q, d) /\ c = "none"
DrainConsumer_Present(c) == c
DrainConsumer(c) == IF c = "none" THEN "created" ELSE c

\* One round of async_wait_message_queue_idle: settle what is finished, return
\* if all is idle, else see to a consumer and await it.
DrainRound ==
    /\ drain = "tasks" \/ (drain = "waiting" /\ consumer \in {"none", "done"})
    /\ LET c == IF consumer = "done" THEN "none" ELSE consumer
           d == IF Finished(delivery) THEN NoDelivery ELSE delivery
           q == IF Finished(delivery) THEN SettledQueue ELSE queue
           r == IF consumer = "done" THEN retired + 1 ELSE retired
       IN /\ queue' = q /\ delivery' = d /\ retired' = r
          /\ IF Drained(q, d, c)
             THEN drain' = "returned" /\ consumer' = "none"
             ELSE /\ drain' = "waiting"
                  /\ consumer' = DrainConsumer(c)
    /\ UNCHANGED <<stopping, cancels, accepted, handed>>

\* The session's tasks or the drain took longer than five seconds, or the
\* caller was cancelled: the stop raises and the client stays stopping.
StopFails ==
    /\ drain \in {"tasks", "waiting"}
    /\ drain' = "none"
    /\ UNCHANGED <<stopping, queue, delivery, consumer, retired, cancels, accepted, handed>>

\* async_start goes on after its own stop returned.
Restart ==
    /\ drain = "returned"
    /\ stopping' = FALSE /\ drain' = "none"
    /\ UNCHANGED <<queue, delivery, consumer, retired, cancels, accepted, handed>>

-----------------------------------------------------------------------------
ConsumerStep ==
    ConsumerJoins \/ ConsumerTakes \/ ConsumerReturns \/ ConsumerDone \/ RetiredConsumerDone

DeliveryStep == DeliveryBegins \/ CallbackBegins \/ CallbackEnds

Cancellation == DeliveryCancelled \/ ConsumerCancelled \/ CallbackCancelled

Next ==
    \/ Accept
    \/ ConsumerStep \/ DeliveryStep \/ Cancellation
    \/ StopBegins \/ DrainRound \/ StopFails \/ Restart

Spec == Init /\ [][Next]_vars

\* The event loop runs every ready task, and the callback ends: every await of
\* the coordinator's message handler is bounded by a timeout or a local store.
Fairness ==
    /\ WF_vars(ConsumerStep)
    /\ WF_vars(DeliveryStep)
    /\ WF_vars(DrainRound)

FairSpec == Spec /\ Fairness

-----------------------------------------------------------------------------
TypeOK ==
    /\ stopping \in BOOLEAN
    /\ queue \in Seq(Frame)
    /\ delivery \in [at : DeliveryStates, item : 0..MaxFrames]
    /\ consumer \in ConsumerStates
    /\ retired \in Nat
    /\ drain \in {"none", "tasks", "waiting", "returned"}
    /\ cancels \in 0..MaxCancels
    /\ accepted \in 0..MaxFrames
    /\ handed \in 0..MaxFrames

\* Frames that left the queue and were not handed to a callback.
Held == IF delivery.at \in {"created", "cancelled"} THEN 1 ELSE 0

\* No accepted frame is lost, repeated or overtaken, whatever is cancelled: the
\* frames handed out, the one in the delivery task and the queue are, in this
\* order, the frames accepted so far.
AcceptedOrder ==
    /\ accepted = handed + Held + Len(queue)
    /\ delivery.at # "none" => delivery.item = handed + Held
    /\ \A i \in 1..Len(queue) : queue[i] = handed + Held + i

\* The same promise as a refinement of the serial sink.
Serial == INSTANCE SerialDelivery
    WITH current <- IF delivery.at \in {"invoked", "running"} THEN delivery.item ELSE 0
ImplementsSerialDelivery == Serial!Spec

\* While the client runs, waiting frames have a live consumer or a done
\* callback still to come that will start one: no wake-up is lost when the
\* consumer is cancelled between two frames.
NoStrandedFrames ==
    ~stopping /\ Work(queue, delivery) =>
        consumer # "none" \/ retired > 0

\* When async_stop returned, every frame accepted before it was handed out and
\* no FIFO task is left.
StopDrains ==
    drain = "returned" =>
        handed = accepted /\ ~Work(queue, delivery) /\ consumer = "none"

\* Every accepted frame is handed out in the end, unless a stop began: a stop
\* that gave up on its drain may leave the rest with no consumer.
AcceptedIsHanded ==
    \A f \in Frame : (f <= accepted) ~> (handed >= f \/ stopping)

\* A stop that is not cut off drains: the drain is not starved by the
\* consumers that are cancelled under it.
StopEventuallyEnds == (drain = "tasks") ~> (drain \in {"returned", "none"})

=============================================================================
