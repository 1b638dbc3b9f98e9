----------------------------- MODULE BleSession -----------------------------
(***************************************************************************)
(* The Bluetooth listener of one device (client/ble_transport.py): a runner *)
(* that connects and reconnects, the session that owns the GATT link and    *)
(* its notification FIFO, the teardown that releases it, commands that wait *)
(* for an acknowledgement, and the stop of the listener.                    *)
(*                                                                          *)
(* A session is an object: a value is used again when the session it stood  *)
(* for has been released, so there may be any number of connections.        *)
(***************************************************************************)
EXTENDS Naturals, Sequences, FiniteSets

CONSTANTS
  Sessions,      \* values for _GattSession objects
  NoSession,
  Writers,       \* callers of async_send_command
  FrameLimit     \* bound on the notifications the device sends

ASSUME BleAssumption == NoSession \notin Sessions /\ FrameLimit \in Nat

VARIABLES
  bleOwner,      \* _sessions[device], whose client is _clients[device]
  bleSession,    \* each session's flags, queue, link and teardown task
  bleRunner,     \* the task in _connections[device]
  bleStopEvent,  \* _stop_event.is_set()
  bleStopTask,   \* _stop_task and the session it found
  bleWriter,     \* each command
  bleSeen,       \* notifications accepted so far; the next one's number is one more
  bleHanded      \* the last notification that was taken from a FIFO

bleVars == <<bleOwner, bleSession, bleRunner, bleStopEvent, bleStopTask, bleWriter,
             bleSeen, bleHanded>>

Frames == [n : 1..FrameLimit, answer : BOOLEAN]
NoFrame == [n |-> 0, answer |-> FALSE]

BleTypeOK ==
  /\ bleOwner \in Sessions \cup {NoSession}
  /\ \A s \in Sessions :
       /\ bleSession[s].link \in {"none", "open", "stray", "dropped", "closed"}
       /\ bleSession[s].active \in BOOLEAN /\ bleSession[s].accepting \in BOOLEAN
       /\ bleSession[s].notify \in {"off", "asked", "on"}
       /\ bleSession[s].teardown \in {"none", "quiesce", "drain", "disconnect", "failed", "done"}
       /\ bleSession[s].fifo \in Seq(Frames)
       /\ bleSession[s].inflight \in Frames \cup {NoFrame}
       /\ bleSession[s].delivery \in {"none", "created", "sink", "lost"}
  /\ bleRunner \in [at : {"none", "loop", "retained", "dispose", "subscribe", "monitor",
                          "teardown"},
                    s : Sessions \cup {NoSession}, cancel : BOOLEAN]
  /\ bleStopEvent \in BOOLEAN
  /\ bleStopTask \in [at : {"none", "sessions", "runners", "failed", "done"},
                      s : Sessions \cup {NoSession}]
  /\ bleWriter \in [Writers -> [at : {"idle", "lock", "write", "wait"},
                                s : Sessions \cup {NoSession},
                                ack : {"no", "pending", "cancelled", "set"},
                                after : 0..FrameLimit]]
  /\ bleSeen \in 0..FrameLimit /\ bleHanded \in 0..FrameLimit

UnusedSession == [link |-> "none", active |-> FALSE, accepting |-> FALSE, notify |-> "off",
                  teardown |-> "done", fifo |-> <<>>, inflight |-> NoFrame,
                  delivery |-> "none"]
NewSession == [UnusedSession EXCEPT !.link = "open", !.active = TRUE, !.accepting = TRUE,
                                    !.teardown = "none"]
NoRunner == [at |-> "none", s |-> NoSession, cancel |-> FALSE]
NoWriter == [at |-> "idle", s |-> NoSession, ack |-> "no", after |-> 0]

BleInit ==
  /\ bleOwner = NoSession
  /\ bleSession = [s \in Sessions |-> UnusedSession]
  /\ bleRunner = NoRunner
  /\ bleStopEvent = FALSE
  /\ bleStopTask = [at |-> "none", s |-> NoSession]
  /\ bleWriter = [w \in Writers |-> NoWriter]
  /\ bleSeen = 0 /\ bleHanded = 0

-------------------------------------------------------------------------------
(* Ownership.                                                                *)

Connected(s) == bleSession[s].link = "open"

\* Up, though the listener has let go of it and will never look at it again.
Stray(s) == bleSession[s].link = "stray"

\* _session_is_current
SessionIsCurrent(s) == ~bleStopEvent /\ bleSession[s].active /\ bleOwner = s

\* Objects nobody refers to.
FreeSessions ==
  {s \in Sessions : /\ s \notin {bleOwner, bleRunner.s, bleStopTask.s}
                    /\ ~Connected(s) /\ ~Stray(s)
                    /\ \A w \in Writers : bleWriter[w].s # s}

JoinTeardown_Failed(s) ==
  bleSession' = [bleSession EXCEPT ![s].teardown = IF @ = "none" THEN "quiesce" ELSE @]

\* _teardown_session: join the running or finished task, or create one.
JoinTeardown(s) ==
  bleSession' = [bleSession EXCEPT ![s].teardown =
                   IF @ \in {"none", "failed"} THEN "quiesce" ELSE @]

\* _cancel_session_pending_acks and the fence of _fence_callbacks_and_ack_waiters.
CancelAcks(writers) ==
  bleWriter' = [w \in Writers |->
                  IF w \in writers /\ bleWriter[w].ack = "pending"
                    THEN [bleWriter[w] EXCEPT !.ack = "cancelled"]
                    ELSE bleWriter[w]]

-------------------------------------------------------------------------------
(* _async_run_connection.                                                    *)

\* _spawn_connection_if_ready: an advertisement, or async_ensure_connected.
RunnerSpawns ==
  /\ ~bleStopEvent /\ bleRunner.at = "none"
  /\ bleRunner' = [NoRunner EXCEPT !.at = "loop"]
  /\ UNCHANGED <<bleOwner, bleSession, bleStopEvent, bleStopTask, bleWriter, bleSeen, bleHanded>>

RunnerEnds ==
  /\ bleRunner.at = "loop" /\ (bleStopEvent \/ bleRunner.cancel)
  /\ bleRunner' = NoRunner
  /\ UNCHANGED <<bleOwner, bleSession, bleStopEvent, bleStopTask, bleWriter, bleSeen, bleHanded>>

\* A session an earlier runner could not release is torn down first.
RunnerFindsRetained ==
  /\ bleRunner.at = "loop" /\ ~bleStopEvent /\ ~bleRunner.cancel /\ bleOwner # NoSession
  /\ JoinTeardown(bleOwner)
  /\ bleRunner' = [bleRunner EXCEPT !.at = "retained", !.s = bleOwner]
  /\ UNCHANGED <<bleOwner, bleStopEvent, bleStopTask, bleWriter, bleSeen, bleHanded>>

RetainedTornDown ==
  /\ bleRunner.at = "retained" /\ bleSession[bleRunner.s].teardown \in {"done", "failed"}
  /\ bleRunner' = [bleRunner EXCEPT !.at = "loop", !.s = NoSession]
  /\ UNCHANGED <<bleOwner, bleSession, bleStopEvent, bleStopTask, bleWriter, bleSeen, bleHanded>>

\* The link is up: it is installed, or given up if the listener has stopped.
RunnerConnects(s) ==
  /\ bleRunner.at = "loop" /\ ~bleRunner.cancel /\ bleOwner = NoSession
  /\ s \in FreeSessions
  /\ bleSession' = [bleSession EXCEPT ![s] = NewSession]
  /\ IF bleStopEvent
       THEN /\ bleRunner' = [bleRunner EXCEPT !.at = "dispose", !.s = s]
            /\ UNCHANGED bleOwner
       ELSE /\ bleOwner' = s
            /\ bleRunner' = [bleRunner EXCEPT !.at = "subscribe", !.s = s]
  /\ UNCHANGED <<bleStopEvent, bleStopTask, bleWriter, bleSeen, bleHanded>>

\* A disconnect that raises, takes more than five seconds or is cancelled is logged at
\* most: the runner ends all the same and the link stays up.
RunnerDisposes ==
  /\ bleRunner.at = "dispose"
  /\ \E link \in {"closed", "stray"} :
       bleSession' = [bleSession EXCEPT ![bleRunner.s].link = link]
  /\ bleRunner' = NoRunner
  /\ UNCHANGED <<bleOwner, bleStopEvent, bleStopTask, bleWriter, bleSeen, bleHanded>>

\* start_notify: notifications may come before it returns.
NotifyAsked ==
  /\ bleRunner.at = "subscribe" /\ Connected(bleRunner.s)
  /\ bleSession[bleRunner.s].notify = "off"
  /\ bleSession' = [bleSession EXCEPT ![bleRunner.s].notify = "asked"]
  /\ UNCHANGED <<bleOwner, bleRunner, bleStopEvent, bleStopTask, bleWriter, bleSeen, bleHanded>>

NotifyStarted ==
  /\ bleRunner.at = "subscribe" /\ bleSession[bleRunner.s].notify = "asked"
  /\ Connected(bleRunner.s)
  /\ bleSession' = [bleSession EXCEPT ![bleRunner.s].notify = "on"]
  /\ bleRunner' = [bleRunner EXCEPT !.at = "monitor"]
  /\ UNCHANGED <<bleOwner, bleStopEvent, bleStopTask, bleWriter, bleSeen, bleHanded>>

\* start_notify raises, the link is lost, the listener stops or cancels the runner.
RunnerLeaves ==
  /\ \/ bleRunner.at = "subscribe"
     \/ bleRunner.at = "monitor" /\ (\/ ~Connected(bleRunner.s) \/ bleRunner.cancel
                                     \/ ~SessionIsCurrent(bleRunner.s))
  /\ JoinTeardown(bleRunner.s)
  /\ bleRunner' = [bleRunner EXCEPT !.at = "teardown"]
  /\ UNCHANGED <<bleOwner, bleStopEvent, bleStopTask, bleWriter, bleSeen, bleHanded>>

\* A teardown that raises ends the runner and leaves the session to the next one.
RunnerTornDown ==
  /\ bleRunner.at = "teardown" /\ bleSession[bleRunner.s].teardown \in {"done", "failed"}
  /\ bleRunner' = IF bleSession[bleRunner.s].teardown = "failed"
                    THEN NoRunner
                    ELSE [bleRunner EXCEPT !.at = "loop", !.s = NoSession]
  /\ UNCHANGED <<bleOwner, bleSession, bleStopEvent, bleStopTask, bleWriter, bleSeen, bleHanded>>

-------------------------------------------------------------------------------
(* _async_teardown_session_impl.                                             *)

\* The physical cut: notifications are stopped, or else the link is.
TeardownQuiesces(s) ==
  /\ bleSession[s].teardown = "quiesce"
  /\ \E link \in {"open", "closed"} :
       /\ link = "open" => Connected(s) /\ bleSession[s].notify = "on"
       /\ bleSession' = [bleSession EXCEPT ![s].teardown = "drain", ![s].notify = "off",
                                           ![s].accepting = FALSE, ![s].link = link]
  /\ UNCHANGED <<bleOwner, bleRunner, bleStopEvent, bleStopTask, bleWriter, bleSeen, bleHanded>>

TeardownFails_Released(s) ==
  /\ bleSession[s].teardown \in {"quiesce", "disconnect"} /\ Connected(s)
  /\ bleSession' = [bleSession EXCEPT ![s].teardown = "failed"]
  /\ bleOwner' = NoSession
  /\ UNCHANGED <<bleRunner, bleStopEvent, bleStopTask, bleWriter, bleSeen, bleHanded>>

\* disconnect raises or takes more than five seconds: the session stays the owner.
TeardownFails(s) ==
  /\ bleSession[s].teardown \in {"quiesce", "disconnect"} /\ Connected(s)
  /\ bleSession' = [bleSession EXCEPT ![s].teardown = "failed"]
  /\ UNCHANGED <<bleOwner, bleRunner, bleStopEvent, bleStopTask, bleWriter, bleSeen, bleHanded>>

TeardownDrained_QueueOnly(s) ==
  /\ bleSession[s].teardown = "drain" /\ bleSession[s].fifo = <<>>
  /\ bleSession' = [bleSession EXCEPT ![s].teardown = "disconnect"]
  /\ UNCHANGED <<bleOwner, bleRunner, bleStopEvent, bleStopTask, bleWriter, bleSeen, bleHanded>>

\* _async_wait_for_notification_drain
TeardownDrained(s) ==
  /\ bleSession[s].teardown = "drain"
  /\ bleSession[s].fifo = <<>> /\ bleSession[s].inflight = NoFrame
  /\ bleSession' = [bleSession EXCEPT ![s].teardown = "disconnect"]
  /\ UNCHANGED <<bleOwner, bleRunner, bleStopEvent, bleStopTask, bleWriter, bleSeen, bleHanded>>

TeardownReleases(s) ==
  /\ bleSession[s].teardown = "disconnect"
  /\ bleSession' = [bleSession EXCEPT ![s].teardown = "done", ![s].active = FALSE,
                                      ![s].link = "closed"]
  /\ bleOwner' = IF bleOwner = s THEN NoSession ELSE bleOwner
  /\ CancelAcks({w \in Writers : bleWriter[w].s = s})
  /\ UNCHANGED <<bleRunner, bleStopEvent, bleStopTask, bleSeen, bleHanded>>

-------------------------------------------------------------------------------
(* The device and the notification FIFO.                                     *)

LinkLost(s) ==
  /\ Connected(s) \/ Stray(s)
  /\ bleSession' = [bleSession EXCEPT ![s].link = "dropped"]
  /\ UNCHANGED <<bleOwner, bleRunner, bleStopEvent, bleStopTask, bleWriter, bleSeen, bleHanded>>

\* _on_disconnect, which some backends never call.
OnDisconnect(s) ==
  /\ bleSession[s].link = "dropped" /\ bleOwner = s
  /\ bleSession' = [bleSession EXCEPT ![s].link = "closed", ![s].active = FALSE,
                                      ![s].accepting = FALSE, ![s].notify = "off"]
  /\ UNCHANGED <<bleOwner, bleRunner, bleStopEvent, bleStopTask, bleWriter, bleSeen, bleHanded>>

\* _schedule_notification
Notified(s, answer) ==
  /\ Connected(s) /\ bleSession[s].notify # "off"
  /\ bleSession[s].accepting /\ bleOwner = s
  /\ bleSeen < FrameLimit
  /\ bleSeen' = bleSeen + 1
  /\ bleSession' = [bleSession EXCEPT ![s].fifo = Append(@, [n |-> bleSeen', answer |-> answer])]
  /\ UNCHANGED <<bleOwner, bleRunner, bleStopEvent, bleStopTask, bleWriter, bleHanded>>

\* _drain_notifications: the next notification, or again the one whose delivery was lost.
DrainTakes(s) ==
  /\ \/ /\ bleSession[s].delivery = "none" /\ bleSession[s].fifo # <<>>
        /\ bleSession' = [bleSession EXCEPT ![s].delivery = "created",
                            ![s].inflight = Head(bleSession[s].fifo), ![s].fifo = Tail(@)]
        /\ bleHanded' = Head(bleSession[s].fifo).n
     \/ /\ bleSession[s].delivery = "lost"
        /\ bleSession' = [bleSession EXCEPT ![s].delivery = "created"]
        /\ UNCHANGED bleHanded
  /\ UNCHANGED <<bleOwner, bleRunner, bleStopEvent, bleStopTask, bleWriter, bleSeen>>

\* _handle_notification up to the sink; _resolve_pending_acks on the way.
Acknowledges(s, w) ==
  /\ bleSession[s].inflight.answer
  /\ bleWriter[w].ack = "pending" /\ bleWriter[w].s = s
  /\ bleSession[s].inflight.n > bleWriter[w].after

DeliveryRuns(s) ==
  /\ bleSession[s].delivery = "created"
  /\ bleSession' = [bleSession EXCEPT ![s].delivery = "sink"]
  /\ bleWriter' = [w \in Writers |->
                     IF Acknowledges(s, w) THEN [bleWriter[w] EXCEPT !.ack = "set"]
                                           ELSE bleWriter[w]]
  /\ UNCHANGED <<bleOwner, bleRunner, bleStopEvent, bleStopTask, bleSeen, bleHanded>>

\* The sink has the frame, after any number of attempts.
SinkReturns(s) ==
  /\ bleSession[s].delivery = "sink"
  /\ bleSession' = [bleSession EXCEPT ![s].delivery = "none", ![s].inflight = NoFrame]
  /\ UNCHANGED <<bleOwner, bleRunner, bleStopEvent, bleStopTask, bleWriter, bleSeen, bleHanded>>

\* Home Assistant cancels the delivery task; the drain fails and starts anew.
DeliveryCancelled(s) ==
  /\ bleSession[s].delivery \in {"created", "sink"}
  /\ bleSession' = [bleSession EXCEPT ![s].delivery = "lost"]
  /\ UNCHANGED <<bleOwner, bleRunner, bleStopEvent, bleStopTask, bleWriter, bleSeen, bleHanded>>

-------------------------------------------------------------------------------
(* async_send_command with wait_for_ack.                                     *)

CommandBegins(w, s) ==
  /\ bleWriter[w].at = "idle" /\ s = bleOwner
  /\ SessionIsCurrent(s) /\ bleSession[s].notify = "on" /\ Connected(s)
  /\ bleWriter' = [bleWriter EXCEPT ![w] = [NoWriter EXCEPT !.at = "lock", !.s = s]]
  /\ UNCHANGED <<bleOwner, bleSession, bleRunner, bleStopEvent, bleStopTask, bleSeen, bleHanded>>

MayWrite_Connected(s) == Connected(s)
MayWrite(s) == SessionIsCurrent(s) /\ Connected(s)

\* session.write_lock is free: check again, register the ACK, write the first chunk.
CommandWrites(w) ==
  LET s == bleWriter[w].s
  IN  /\ bleWriter[w].at = "lock"
      /\ \A v \in Writers : bleWriter[v].at \in {"write", "wait"} => bleWriter[v].s # s
      /\ bleWriter' = [bleWriter EXCEPT ![w] =
           IF MayWrite(s) THEN [at |-> "write", s |-> s, ack |-> "pending", after |-> bleSeen]
                          ELSE NoWriter]
      /\ UNCHANGED <<bleOwner, bleSession, bleRunner, bleStopEvent, bleStopTask, bleSeen,
                     bleHanded>>

\* Every chunk is written; between two chunks the session is checked again.
CommandWritten(w) ==
  /\ bleWriter[w].at = "write"
  /\ bleWriter' = [bleWriter EXCEPT ![w].at = "wait"]
  /\ UNCHANGED <<bleOwner, bleSession, bleRunner, bleStopEvent, bleStopTask, bleSeen, bleHanded>>

\* The future is done, or a write fails, the time is up or the caller is cancelled:
\* the registration is discarded and the lock is free.
CommandEnds(w) ==
  /\ bleWriter[w].at # "idle"
  /\ bleWriter' = [bleWriter EXCEPT ![w] = NoWriter]
  /\ UNCHANGED <<bleOwner, bleSession, bleRunner, bleStopEvent, bleStopTask, bleSeen, bleHanded>>

-------------------------------------------------------------------------------
(* async_stop and async_start.                                               *)

\* One task for every caller; a new one after a failure.
StopBegins ==
  /\ bleStopTask.at \in {"none", "failed"}
  /\ bleStopEvent' = TRUE
  /\ bleStopTask' = [at |-> "sessions", s |-> bleOwner]
  /\ CancelAcks(Writers)
  /\ IF bleOwner = NoSession THEN UNCHANGED bleSession ELSE JoinTeardown(bleOwner)
  /\ UNCHANGED <<bleOwner, bleRunner, bleSeen, bleHanded>>

SessionsStopped ==
  /\ bleStopTask.at = "sessions"
  /\ bleStopTask.s # NoSession => bleSession[bleStopTask.s].teardown \in {"done", "failed"}
  /\ IF bleStopTask.s # NoSession /\ bleSession[bleStopTask.s].teardown = "failed"
       THEN bleStopTask' = [at |-> "failed", s |-> NoSession]
       ELSE bleStopTask' = [bleStopTask EXCEPT !.at = "runners"]
  /\ UNCHANGED <<bleOwner, bleSession, bleRunner, bleStopEvent, bleWriter, bleSeen, bleHanded>>

\* The runner is asked, then cancelled, then kept for a later stop.
RunnerCancelled ==
  /\ bleStopTask.at = "runners" /\ bleRunner.at # "none" /\ ~bleRunner.cancel
  /\ bleRunner' = [bleRunner EXCEPT !.cancel = TRUE]
  /\ UNCHANGED <<bleOwner, bleSession, bleStopEvent, bleStopTask, bleWriter, bleSeen, bleHanded>>

RunnersStopped ==
  /\ bleStopTask.at = "runners" /\ (bleRunner.at = "none" \/ bleRunner.cancel)
  /\ bleStopTask' = [at |-> IF bleRunner.at = "none" THEN "done" ELSE "failed",
                     s |-> NoSession]
  /\ UNCHANGED <<bleOwner, bleSession, bleRunner, bleStopEvent, bleWriter, bleSeen, bleHanded>>

ListenerStarts ==
  /\ bleStopTask.at = "done"
  /\ bleStopTask' = [bleStopTask EXCEPT !.at = "none"]
  /\ bleStopEvent' = FALSE
  /\ UNCHANGED <<bleOwner, bleSession, bleRunner, bleWriter, bleSeen, bleHanded>>

RunnerStep ==
  \/ RunnerEnds \/ RunnerFindsRetained \/ RetainedTornDown \/ RunnerDisposes
  \/ NotifyAsked \/ NotifyStarted \/ RunnerLeaves \/ RunnerTornDown

TeardownStep(s) ==
  TeardownQuiesces(s) \/ TeardownFails(s) \/ TeardownDrained(s) \/ TeardownReleases(s)

StopStep == SessionsStopped \/ RunnersStopped

BleNext ==
  \/ RunnerSpawns \/ RunnerStep \/ StopBegins \/ StopStep \/ RunnerCancelled \/ ListenerStarts
  \/ \E s \in Sessions :
       \/ RunnerConnects(s) \/ TeardownStep(s)
       \/ LinkLost(s) \/ OnDisconnect(s)
       \/ DrainTakes(s) \/ DeliveryRuns(s) \/ SinkReturns(s) \/ DeliveryCancelled(s)
       \/ \E answer \in BOOLEAN : Notified(s, answer)
  \/ \E w \in Writers :
       \/ \E s \in Sessions : CommandBegins(w, s)
       \/ CommandWrites(w) \/ CommandWritten(w) \/ CommandEnds(w)

BleSpec == BleInit /\ [][BleNext]_bleVars

(***************************************************************************)
(* Tasks run, waits have limits, a delivery is not cancelled for ever, the  *)
(* sink takes a frame in the end and a device is advertised again; nothing  *)
(* makes a link come up.                                                    *)
(***************************************************************************)
BleFairness ==
  /\ WF_bleVars(RunnerSpawns) /\ WF_bleVars(RunnerStep)
  /\ WF_bleVars(StopStep) /\ WF_bleVars(RunnerCancelled)
  /\ \A s \in Sessions :
       /\ WF_bleVars(TeardownStep(s))
       /\ WF_bleVars(DrainTakes(s)) /\ SF_bleVars(DeliveryRuns(s)) /\ SF_bleVars(SinkReturns(s))

-------------------------------------------------------------------------------
(* Properties.                                                               *)

\* The listener keeps at most one GATT link to the device, across reconnects, failed
\* teardowns and a stop that meets a connection attempt, and can find it: it belongs
\* to the owning session or to the runner that is about to give it up.  A stop that
\* reports success has left no such link and no owner behind.  What may stay up
\* besides is a link that came after a stop and could not be disconnected: nothing
\* of the listener refers to it, and no command is written to it.
OneLink ==
  LET open == {s \in Sessions : Connected(s)}
  IN  /\ Cardinality(open) <= 1 /\ open \subseteq {bleOwner, bleRunner.s}
      /\ bleStopTask.at = "done" => open = {} /\ bleOwner = NoSession
      /\ \A s \in Sessions : Stray(s) =>
           /\ s \notin {bleOwner, bleRunner.s, bleStopTask.s}
           /\ \A w \in Writers : bleWriter[w].s # s

\* Nobody waits for the acknowledgement of a session that is gone or of a
\* listener that is stopping: the command fails at once and not by its time limit.
AckWaiterOwned ==
  \A w \in Writers : bleWriter[w].ack = "pending" => bleOwner = bleWriter[w].s /\ ~bleStopEvent

\* Every notification that was accepted reaches the sink, in the order of
\* arrival over all connections, before the next one: a reconnect, a stop or a
\* cancelled delivery loses none and lets none overtake another.
InFlight ==
  LET frames == {bleSession[s].inflight : s \in Sessions} \ {NoFrame}
  IN  IF frames = {} THEN 0 ELSE (CHOOSE f \in frames : TRUE).n
BleFifo == INSTANCE SerialDelivery WITH accepted <- bleSeen, handed <- bleHanded,
                                        current <- InFlight
BleFifoSpec == BleFifo!Spec

\* A session whose link is lost is released, or the stop that wants it reports
\* a failure: neither the runner nor the stop can hold the device for ever.
DeadLinkReleased ==
  \A s \in Sessions : (bleOwner = s /\ ~Connected(s)) ~>
                      (bleOwner # s \/ bleStopTask.at = "failed")
=============================================================================
