-------------------------- MODULE CloudMqttSession --------------------------
(***************************************************************************)
(* Lifecycle of the cloud MQTT session: JackeryMqttPushClient of           *)
(* client/mqtt_push.py.  async_start and async_stop run under one          *)
(* asyncio.Lock; the runner task, the lifecycle callbacks (birth snapshot, *)
(* disconnect recovery) and the publishers run beside them, interleaved at *)
(* every await.  One action is the code between two awaits.                *)
(*                                                                         *)
(* A session is named by its generation number, and so is its runner task: *)
(* async_start creates at most one runner in the generation it opens.  A   *)
(* caller queued on the lock has read and written nothing, so its call     *)
(* starts, here, when it gets the lock.                                    *)
(***************************************************************************)
EXTENDS Naturals, FiniteSets

CONSTANTS Creds,       \* credential fingerprints async_start is called with
          NoCred,      \* _fingerprint = None
          Publishers,  \* callers of async_publish_json
          NumTopics,   \* topics of a session (MQTT_TOPIC_SUFFIXES)
          MaxGen       \* bound on _session_generation

ASSUME SessionAssumption ==
    /\ NoCred \notin Creds
    /\ NumTopics \in Nat \ {0}
    /\ MaxGen \in Nat

Gen == 1..MaxGen
NoGen == 0              \* no task, no client
GenOrNone == 0..MaxGen
Topics == 1..NumTopics

VARIABLES
    stopping,        \* _stopping
    generation,      \* _session_generation
    fingerprint,     \* _fingerprint
    connected,       \* _connected
    event,           \* _connected_event.is_set()
    sessionState,    \* _session_state
    attempted,       \* _connect_attempts > 0
    lastError,       \* class of _last_error, by its prefix
    client,          \* session whose aiomqtt client _client is
    subscribed,      \* _subscribed_topics
    birthGeneration, \* _birth_generation
    runnerTask,      \* session whose runner _runner_task is
    protocolWait,    \* _runner_protocol_wait
    call,            \* the async_start / async_stop that holds _lock
    phase,           \* where each runner task is suspended
    acks,            \* SUBACKs each runner has received
    cancelled,       \* task.cancel() was called on this runner
    lifecycle,       \* _lifecycle_tasks
    pub,             \* publishers inside async_publish_json
    quiesced,        \* history: async_stop returned, no async_start since
    sessions,        \* history: sessions the broker ever accepted
    recovered        \* history: sessions whose recovery callback ran

ownership == <<stopping, generation, fingerprint, runnerTask, client>>
evidence == <<connected, event, sessionState, lastError, subscribed>>
tasks == <<protocolWait, phase, acks, cancelled, lifecycle>>
history == <<quiesced, sessions, recovered>>
vars == <<ownership, evidence, attempted, birthGeneration, call, tasks, pub, history>>

States == {"connecting", "subscribed", "online", "reconnecting", "offline"}
Errors == {"none", "connect", "subscribe", "disconnect", "publish", "wait"}

\* "failed" and "closing" are the await of the broker context's exit, after a
\* failed SUBSCRIBE and after any other reason to leave.
Phases == {"none", "created", "connecting", "subscribing", "consuming",
           "closing", "failed", "done"}
Live == Phases \ {"none", "done"}
InBroker == {"subscribing", "consuming", "closing", "failed"}

Idle == [op |-> "none", at |-> "none", cred |-> NoCred, runner |-> NoGen, tasks |-> {}]
LifecycleId == [kind : {"birth", "recover"}, gen : Gen]
LifecycleTask == [id : LifecycleId, running : BOOLEAN, cancel : BOOLEAN]
PubIdle == [at |-> "idle", gen |-> NoGen, owner |-> NoGen]

Init ==
    /\ stopping = FALSE /\ generation = 0 /\ fingerprint = NoCred
    /\ connected = FALSE /\ event = FALSE /\ sessionState = "offline"
    /\ attempted = FALSE /\ lastError = "none" /\ client = NoGen
    /\ subscribed = {} /\ birthGeneration = NoGen
    /\ runnerTask = NoGen /\ protocolWait = FALSE
    /\ call = Idle
    /\ phase = [g \in Gen |-> "none"]
    /\ acks = [g \in Gen |-> 0]
    /\ cancelled = [g \in Gen |-> FALSE]
    /\ lifecycle = {}
    /\ pub = [p \in Publishers |-> PubIdle]
    /\ quiesced = FALSE /\ sessions = {} /\ recovered = {}

-----------------------------------------------------------------------------
(* _session_is_current(generation), and with the runner task's identity.    *)
Current(g) == ~stopping /\ generation = g
Owns_Identity(g, runner) == runner = NoGen \/ runnerTask = runner
Owns(g, runner) == Current(g) /\ (runner = NoGen \/ runnerTask = runner)

Alive(g) == g # NoGen /\ phase[g] \in Live

\* Event.set() wakes every waiter at once: a later clear() does not stop it.
SetEvent ==
    /\ event' = TRUE
    /\ pub' = [p \in Publishers |->
                 IF pub[p].at = "waiting" THEN [pub[p] EXCEPT !.at = "woken"] ELSE pub[p]]
ClearEvent == event' = FALSE /\ UNCHANGED pub

\* A stop sets the event, whatever the docstring says (mqtt_push.py:518-520):
\* whoever waits must not wait for the session that is gone.
WakeWaiters_AsDocumented == ClearEvent
WakeWaiters == SetEvent

\* _schedule_lifecycle_callback: only while its session is current.
Schedule(kind, g) ==
    lifecycle' = IF Current(g)
                 THEN lifecycle \cup {[id |-> [kind |-> kind, gen |-> g], running |-> FALSE, cancel |-> FALSE]}
                 ELSE lifecycle

-----------------------------------------------------------------------------
(* async_start, async_stop.                                                 *)

\* The early return of async_start: a live runner with these credentials.
FastPath(cred) == Alive(runnerTask) /\ ~stopping /\ fingerprint = cred

\* _cancel_mqtt_stop_tasks: a runner in its protocol wait is left to finish it.
StopCancels_Always(g) == g = runnerTask /\ Alive(g)
StopCancels_Inverted(g) == g = runnerTask /\ Alive(g) /\ protocolWait
StopCancels(g) == g = runnerTask /\ Alive(g) /\ ~protocolWait

\* _async_stop_locked up to its first await: invalidate the session, capture
\* the tasks it owns, cancel them except a runner in its protocol wait.
StopLocked(op, cred) ==
    /\ call = Idle
    /\ stopping' = TRUE
    /\ generation' = generation + 1
    /\ client' = NoGen /\ fingerprint' = NoCred /\ subscribed' = {}
    /\ connected' = FALSE /\ sessionState' = "offline"
    /\ WakeWaiters
    /\ cancelled' = [g \in Gen |-> cancelled[g] \/ StopCancels(g)]
    /\ lifecycle' = {[t EXCEPT !.cancel = TRUE] : t \in lifecycle}
    /\ call' = [op |-> op, at |-> "tasks", cred |-> cred,
                runner |-> runnerTask, tasks |-> {t.id : t \in lifecycle}]
    /\ quiesced' = FALSE
    /\ UNCHANGED <<lastError, attempted, birthGeneration, runnerTask, protocolWait,
                   phase, acks, sessions, recovered>>

Start(cred) == generation + 2 <= MaxGen /\ ~FastPath(cred) /\ StopLocked("start", cred)
Stop == generation + 1 <= MaxGen /\ StopLocked("stop", NoCred)

PlanPending_Runner == Alive(call.runner)
PlanPending_Callbacks == \E t \in lifecycle : t.id \in call.tasks
PlanPending == Alive(call.runner) \/ \E t \in lifecycle : t.id \in call.tasks

\* asyncio.wait returned with every captured task done: release the handle.
StopTasksDone ==
    /\ call.at = "tasks" /\ ~PlanPending
    /\ runnerTask' = IF runnerTask = call.runner THEN NoGen ELSE runnerTask
    /\ call' = [call EXCEPT !.at = "drain"]
    /\ UNCHANGED <<stopping, generation, fingerprint, client, evidence, attempted,
                   birthGeneration, tasks, pub, history>>

StopTimesOut_GoesOn ==
    /\ call.at = "tasks" /\ PlanPending
    /\ call' = [call EXCEPT !.at = "drain"]
    /\ UNCHANGED <<ownership, evidence, attempted, birthGeneration, tasks, pub, history>>

\* Five seconds passed with a captured task still running: RuntimeError.
StopTimesOut ==
    /\ call.at = "tasks" /\ PlanPending
    /\ runnerTask' = IF ~Alive(call.runner) /\ runnerTask = call.runner
                     THEN NoGen ELSE runnerTask
    /\ call' = Idle
    /\ UNCHANGED <<stopping, generation, fingerprint, client, evidence, attempted,
                   birthGeneration, tasks, pub, history>>

\* The accepted frames were drained (CloudMqttFifo): async_stop returns.
StopReturns ==
    /\ call.at = "drain" /\ call.op = "stop"
    /\ call' = Idle /\ quiesced' = TRUE
    /\ UNCHANGED <<ownership, evidence, attempted, birthGeneration, tasks, pub,
                   sessions, recovered>>

\* ... or async_start opens its generation and awaits the TLS context.
StartGeneration ==
    /\ call.at = "drain" /\ call.op = "start"
    /\ stopping' = FALSE /\ generation' = generation + 1
    /\ sessionState' = IF attempted THEN "reconnecting" ELSE "connecting"
    /\ subscribed' = {} /\ connected' = FALSE /\ lastError' = "none"
    /\ ClearEvent
    /\ call' = [call EXCEPT !.at = "ssl"]
    /\ UNCHANGED <<fingerprint, runnerTask, client, attempted, birthGeneration, tasks,
                   history>>

CreateRunner ==
    /\ call.at = "ssl"
    /\ call' = Idle
    /\ IF stopping
       THEN UNCHANGED <<fingerprint, attempted, runnerTask, phase>>
       ELSE /\ fingerprint' = call.cred /\ attempted' = TRUE
            /\ runnerTask' = generation
            /\ phase' = [phase EXCEPT ![generation] = "created"]
    /\ UNCHANGED <<stopping, generation, client, evidence, birthGeneration, protocolWait,
                   acks, cancelled, lifecycle, pub, history>>

\* The caller is cancelled at one of these awaits, the drain times out, or the
\* executor job raises: the lock is released and nothing else happens.
CallAborts ==
    /\ call # Idle
    /\ call' = Idle
    /\ UNCHANGED <<ownership, evidence, attempted, birthGeneration, tasks, pub, history>>

-----------------------------------------------------------------------------
(* The runner task of session g.                                            *)

RunnerBegins(g) ==
    /\ phase[g] = "created" /\ ~cancelled[g]
    /\ phase' = [phase EXCEPT ![g] = "connecting"]
    /\ protocolWait' = TRUE
    /\ UNCHANGED <<ownership, evidence, attempted, birthGeneration, call, acks, cancelled,
                   lifecycle, pub, history>>

\* A task cancelled before its first step never enters its try block.
RunnerNeverRuns(g) ==
    /\ phase[g] = "created" /\ cancelled[g]
    /\ phase' = [phase EXCEPT ![g] = "done"]
    /\ UNCHANGED <<ownership, evidence, attempted, birthGeneration, call, protocolWait,
                   acks, cancelled, lifecycle, pub, history>>

\* _finalize_session, after the error handler left _last_error = err.
Finalize(g, brokerConnected, subscriptionError, err) ==
    /\ phase' = [phase EXCEPT ![g] = "done"]
    /\ protocolWait' = FALSE
    /\ IF Owns(g, g)
       THEN /\ client' = NoGen /\ connected' = FALSE /\ lastError' = err
            /\ sessionState' = IF brokerConnected THEN "reconnecting" ELSE "offline"
            /\ IF subscriptionError \/ err = "connect" THEN SetEvent ELSE ClearEvent
            /\ runnerTask' = NoGen
            /\ Schedule("recover", g)
       ELSE UNCHANGED <<client, connected, lastError, sessionState, event, pub,
                        runnerTask, lifecycle>>
    /\ UNCHANGED <<stopping, generation, fingerprint, subscribed, attempted,
                   birthGeneration, call, acks, cancelled, history>>

\* _handle_disconnect_error keeps an earlier connect failure.
DisconnectError == IF lastError = "connect" THEN "connect" ELSE "disconnect"

ConnectFails(g) == phase[g] = "connecting" /\ Finalize(g, FALSE, FALSE, "connect")

\* The broker accepted: publish the client and await the first SUBSCRIBE, or
\* leave at once when the session was replaced meanwhile.
ConnectSucceeds(g) ==
    /\ phase[g] = "connecting"
    /\ IF Owns(g, g)
       THEN /\ client' = g
            /\ phase' = [phase EXCEPT ![g] = "subscribing"]
       ELSE /\ phase' = [phase EXCEPT ![g] = "closing"]
            /\ UNCHANGED client
    /\ sessions' = sessions \cup {g}
    /\ UNCHANGED <<stopping, generation, fingerprint, runnerTask, evidence, attempted,
                   birthGeneration, call, protocolWait, acks, cancelled, lifecycle, pub,
                   quiesced, recovered>>

\* _mark_session_connected and _schedule_birth_snapshot, once per generation.
MarkConnected(g) ==
    /\ sessionState' = "subscribed" /\ connected' = TRUE /\ lastError' = "none"
    /\ SetEvent
    /\ birthGeneration' = g
    /\ IF birthGeneration = g THEN UNCHANGED lifecycle ELSE Schedule("birth", g)

\* The SUBACK the runner waits for is the last one.
LastTopic_Early(g) == acks[g] + 2 >= NumTopics
LastTopic_Late(g) == acks[g] = NumTopics
LastTopic(g) == acks[g] + 1 = NumTopics

\* A SUBACK: the topic is recorded before the session is checked again.
SubscribeSucceeds(g) ==
    /\ phase[g] = "subscribing"
    /\ acks' = [acks EXCEPT ![g] = @ + 1]
    /\ subscribed' = subscribed \cup {acks[g] + 1}
    /\ \/ /\ ~Owns(g, g)
          /\ phase' = [phase EXCEPT ![g] = "closing"]
          /\ UNCHANGED <<protocolWait, sessionState, connected, lastError, event, pub,
                         birthGeneration, lifecycle>>
       \/ /\ Owns(g, g) /\ ~LastTopic(g)
          /\ UNCHANGED <<phase, protocolWait, sessionState, connected, lastError, event,
                         pub, birthGeneration, lifecycle>>
       \/ /\ Owns(g, g) /\ LastTopic(g)
          /\ phase' = [phase EXCEPT ![g] = "consuming"]
          /\ protocolWait' = FALSE
          /\ MarkConnected(g)
    /\ UNCHANGED <<ownership, attempted, call, cancelled, history>>

SubscribeFails(g) ==
    /\ phase[g] = "subscribing"
    /\ IF Owns(g, g)
       THEN /\ phase' = [phase EXCEPT ![g] = "failed"]
            /\ lastError' = "subscribe"
       ELSE /\ phase' = [phase EXCEPT ![g] = "closing"]
            /\ UNCHANGED lastError
    /\ UNCHANGED <<ownership, connected, event, sessionState, subscribed, attempted,
                   birthGeneration, call, protocolWait, acks, cancelled, lifecycle, pub,
                   history>>

\* The stream ends with an error: the broker context is already disconnected.
\* One that carries a return code is recorded as a connect failure.
ConnectionLost(g) ==
    /\ phase[g] = "consuming"
    /\ \E err \in {DisconnectError, "connect"} : Finalize(g, TRUE, FALSE, err)

\* The stream is left because of a cancellation, or because a message arrives
\* in a session that is no longer current.
StreamLeft(g) ==
    /\ phase[g] = "consuming"
    /\ cancelled[g] \/ ~Owns(g, g)
    /\ phase' = [phase EXCEPT ![g] = "closing"]
    /\ UNCHANGED <<ownership, evidence, attempted, birthGeneration, call, protocolWait,
                   acks, cancelled, lifecycle, pub, history>>

ContextClosed(g) ==
    \/ phase[g] = "closing" /\ Finalize(g, TRUE, FALSE, lastError)
    \/ phase[g] = "failed" /\ Finalize(g, TRUE, TRUE, DisconnectError)

-----------------------------------------------------------------------------
(* Lifecycle callbacks.                                                     *)

LifecycleCancelled(t) ==
    /\ t.cancel
    /\ lifecycle' = lifecycle \ {t}
    /\ UNCHANGED <<ownership, evidence, attempted, birthGeneration, call, protocolWait,
                   phase, acks, cancelled, pub, history>>

\* The guard of _schedule_lifecycle_callback._runner.
CallbackDue_Owner(t) == Owns(t.id.gen, t.id.gen)
CallbackDue(t) == Current(t.id.gen)

\* That guard, then the callback.  The recovery callback has no await; the birth
\* snapshot publishes.
LifecycleBegins(t) ==
    /\ ~t.running /\ ~t.cancel
    /\ IF CallbackDue(t) /\ t.id.kind = "birth"
       THEN lifecycle' = (lifecycle \ {t}) \cup {[t EXCEPT !.running = TRUE]}
       ELSE lifecycle' = lifecycle \ {t}
    /\ recovered' = IF CallbackDue(t) /\ t.id.kind = "recover"
                    THEN recovered \cup {t.id.gen} ELSE recovered
    /\ UNCHANGED <<ownership, evidence, attempted, birthGeneration, call, protocolWait,
                   phase, acks, cancelled, pub, quiesced, sessions>>

\* The publish callback returned; the coordinator's callback swallows the
\* publish errors (coordinator.py:19366-19372), so also after a lost session.
BirthReturns(t) ==
    /\ t.running /\ ~t.cancel
    /\ lifecycle' = lifecycle \ {t}
    /\ sessionState' = IF Current(t.id.gen) THEN "online" ELSE sessionState
    /\ UNCHANGED <<ownership, connected, event, lastError, subscribed, attempted,
                   birthGeneration, call, protocolWait, phase, acks, cancelled, pub, history>>

BirthRaises(t) ==
    /\ t.running /\ ~t.cancel
    /\ lifecycle' = lifecycle \ {t}
    /\ UNCHANGED <<ownership, evidence, attempted, birthGeneration, call, protocolWait,
                   phase, acks, cancelled, pub, history>>

-----------------------------------------------------------------------------
(* async_publish_json.                                                      *)

\* What a publisher does with the client it finds: send, or raise.
SendOrRaise(p, g, owner) ==
    pub' = [pub EXCEPT ![p] =
              IF connected /\ Owns(g, owner) /\ client # NoGen
              THEN [at |-> "sending", gen |-> g, owner |-> owner] ELSE PubIdle]

PublishCalled(p) ==
    /\ pub[p].at = "idle"
    /\ IF connected
       THEN SendOrRaise(p, generation, runnerTask)
       ELSE pub' = [pub EXCEPT ![p] = [at |-> IF event THEN "woken" ELSE "waiting",
                                       gen |-> generation, owner |-> runnerTask]]
    /\ UNCHANGED <<ownership, evidence, attempted, birthGeneration, call, tasks, history>>

PublishWoken(p) ==
    /\ pub[p].at = "woken"
    /\ SendOrRaise(p, pub[p].gen, pub[p].owner)
    /\ UNCHANGED <<ownership, evidence, attempted, birthGeneration, call, tasks, history>>

PublishTimesOut(p) ==
    /\ pub[p].at = "waiting"
    /\ pub' = [pub EXCEPT ![p] = PubIdle]
    /\ lastError' = IF Current(pub[p].gen) /\ lastError = "none" THEN "wait" ELSE lastError
    /\ UNCHANGED <<ownership, connected, event, sessionState, subscribed, attempted,
                   birthGeneration, call, tasks, history>>

PublishSucceeds(p) ==
    /\ pub[p].at = "sending"
    /\ pub' = [pub EXCEPT ![p] = PubIdle]
    /\ UNCHANGED <<ownership, evidence, attempted, birthGeneration, call, tasks, history>>

\* MqttError: the session that sent it is marked disconnected if it still owns
\* the client.  Its runner is left alone.
PublishFails(p) ==
    /\ pub[p].at = "sending"
    /\ pub' = [pub EXCEPT ![p] = PubIdle]
    /\ IF Owns(pub[p].gen, pub[p].owner)
       THEN /\ connected' = FALSE /\ event' = FALSE
            /\ lastError' = "publish" /\ sessionState' = "reconnecting"
       ELSE UNCHANGED <<connected, event, lastError, sessionState>>
    /\ UNCHANGED <<ownership, subscribed, attempted, birthGeneration, call, tasks, history>>

-----------------------------------------------------------------------------
CallStep == StopTasksDone \/ StopTimesOut \/ StopReturns \/ StartGeneration \/ CreateRunner

RunnerStep(g) ==
    \/ RunnerBegins(g) \/ RunnerNeverRuns(g)
    \/ ConnectSucceeds(g) \/ ConnectFails(g)
    \/ SubscribeSucceeds(g) \/ SubscribeFails(g)
    \/ ConnectionLost(g) \/ StreamLeft(g) \/ ContextClosed(g)

LifecycleStep(t) ==
    LifecycleCancelled(t) \/ LifecycleBegins(t) \/ BirthReturns(t) \/ BirthRaises(t)

PublisherStep(p) ==
    \/ PublishCalled(p) \/ PublishWoken(p) \/ PublishTimesOut(p)
    \/ PublishSucceeds(p) \/ PublishFails(p)

Next ==
    \/ \E cred \in Creds : Start(cred)
    \/ Stop
    \/ CallStep
    \/ CallAborts
    \/ \E g \in Gen : RunnerStep(g)
    \/ \E t \in lifecycle : LifecycleStep(t)
    \/ \E p \in Publishers : PublisherStep(p)

Spec == Init /\ [][Next]_vars

\* The protocol operations have timeouts and the event loop runs every ready
\* task; nothing makes a connection drop, a publish fail or a caller call.
Fairness ==
    /\ WF_vars(CallStep)
    /\ \A g \in Gen :
          /\ WF_vars(RunnerBegins(g) \/ RunnerNeverRuns(g))
          /\ WF_vars(ConnectSucceeds(g) \/ ConnectFails(g))
          /\ WF_vars(SubscribeSucceeds(g) \/ SubscribeFails(g))
          /\ WF_vars(cancelled[g] /\ StreamLeft(g))
          /\ WF_vars(ContextClosed(g))
    /\ \A id \in LifecycleId : WF_vars(\E t \in lifecycle : t.id = id /\ LifecycleStep(t))

FairSpec == Spec /\ Fairness

\* The coordinator calls async_start again and again with the account's
\* credentials (its update cycle and its reconnect loop).
RetrySpec == FairSpec /\ \A cred \in Creds : WF_vars(Start(cred))

-----------------------------------------------------------------------------
TypeOK ==
    /\ stopping \in BOOLEAN /\ connected \in BOOLEAN /\ event \in BOOLEAN
    /\ attempted \in BOOLEAN /\ protocolWait \in BOOLEAN /\ quiesced \in BOOLEAN
    /\ generation \in GenOrNone /\ client \in GenOrNone
    /\ runnerTask \in GenOrNone /\ birthGeneration \in GenOrNone
    /\ fingerprint \in Creds \cup {NoCred}
    /\ sessionState \in States /\ lastError \in Errors
    /\ subscribed \subseteq Topics
    /\ call \in [op : {"none", "start", "stop"}, at : {"none", "tasks", "drain", "ssl"},
                 cred : Creds \cup {NoCred}, runner : GenOrNone, tasks : SUBSET LifecycleId]
    /\ phase \in [Gen -> Phases] /\ acks \in [Gen -> 0..NumTopics]
    /\ cancelled \in [Gen -> BOOLEAN]
    /\ lifecycle \subseteq LifecycleTask
    /\ pub \in [Publishers -> [at : {"idle", "waiting", "woken", "sending"},
                               gen : GenOrNone, owner : GenOrNone]]
    /\ sessions \subseteq Gen /\ recovered \subseteq Gen

\* At most one runner task is ever alive, and it is the one _runner_task names:
\* a start that cannot stop the previous runner in five seconds, or is cancelled
\* on the way, does not start a second one beside it.
OneLiveRunner == \A g \in Gen : phase[g] \in Live => runnerTask = g

\* is_connected means: the current session's own runner is consuming its stream
\* on its own client, with every topic subscribed.
ConnectedIsOwned ==
    connected => /\ ~stopping /\ runnerTask = generation /\ client = generation
                 /\ phase[generation] = "consuming" /\ subscribed = Topics

\* A stop cancels no runner that is inside CONNECT or SUBSCRIBE, even when an
\* earlier runner's finalisation clears the shared protocol-wait flag.
ProtocolWaitNotCancelled ==
    \A g \in Gen : phase[g] \in {"connecting", "subscribing"} => ~cancelled[g]

\* Nobody keeps waiting for a connection of a session that was stopped: a
\* waiter still asleep waits for the session that is current now.
WaitersAreCurrent ==
    \A p \in Publishers : pub[p].at = "waiting" => pub[p].gen = generation /\ ~event

\* async_stop returned normally and nothing was started since: no runner, no
\* lifecycle callback, no client and no connection is left.
StoppedIsQuiet ==
    quiesced => /\ \A g \in Gen : phase[g] \notin Live
                /\ lifecycle = {} /\ client = NoGen /\ ~connected

\* The session of runner g was stopped or replaced.
Displaced(g) == stopping \/ generation # g \/ runnerTask # g

\* A runner that lost its session may finish, but its steps change nothing of
\* the state the next session is built on.
StaleRunnerIsSilent ==
    [][\A g \in Gen : phase'[g] # phase[g] /\ phase[g] \in Live /\ Displaced(g)
          => UNCHANGED <<ownership, connected, event, sessionState, lastError, lifecycle>>]_vars

\* The sessions the broker sees are opened one at a time, in generation order.
Broker == INSTANCE BrokerSession
    WITH Generations <- Gen, open <- {g \in Gen : phase[g] \in InBroker}, used <- sessions
ImplementsBrokerSession == Broker!Spec

\* A runner that lost its session leaves the broker, even when the stop that
\* replaced it gave up waiting and nobody cancels it again.
StaleRunnerEnds == \A g \in Gen : (Alive(g) /\ Displaced(g)) ~> (phase[g] = "done")

\* A session that ends by itself has its recovery callback run, unless a start
\* or stop took over.
LostSessionRecovers ==
    \A g \in Gen : (phase[g] = "done" /\ ~stopping /\ generation = g)
                    ~> (g \in recovered \/ stopping \/ generation # g)

\* async_start's contract (mqtt_push.py:242-244): it only returns early when
\* already connected, otherwise it restarts.  So a session that lost its
\* connection to a failed publish is replaced, or comes back.
DisconnectedSessionRestarts ==
    \A g \in Gen : (phase[g] = "consuming" /\ ~connected)
                    ~> (connected \/ phase[g] # "consuming")

\* async_stop's contract (mqtt_push.py:518-520): the stored client, fingerprint,
\* subscribed topics and connected flag are cleared when it returns.
StopClears ==
    quiesced => client = NoGen /\ fingerprint = NoCred /\ subscribed = {} /\ ~connected

=============================================================================
