---------------------------- MODULE MqttReconnect ----------------------------
(***************************************************************************)
(* When the cloud MQTT session is opened again: the coordinator's          *)
(* MqttConnectionManager (reconnect throttle, failure backoff, pause after *)
(* a rejected credential) and everything that asks it for a session - the  *)
(* start of the entry, the reconnect loop, the poll cycle's passive ensure,*)
(* the handoff of fresh credentials, and commands with their stop and      *)
(* retry - beside the HTTP logins that own the credentials.                *)
(*                                                                         *)
(* The session itself is CloudMqttSession.  Here it is down, opening, up,  *)
(* or cut: its runner alive, its connection given up by a failed publish.  *)
(* A stop ends it at once.  A session that is replaced ousts those who     *)
(* wait for it or publish on it, so sessions need no number.  Deadlines    *)
(* are countdowns; how long a backoff lasts is any of BackoffSteps.        *)
(***************************************************************************)
EXTENDS Naturals

CONSTANTS Commands,      \* commands that may run at once
          Cred,          \* what a login may hand out as MQTT credential
          NoCred,
          Throttle,      \* MQTT_RECONNECT_THROTTLE_SEC
          AuthPause,     \* MQTT_APP_CONFLICT_PAUSE_SEC
          BackoffSteps   \* MQTT_TRANSIENT_ and MQTT_CONNECT_BACKOFF_STEPS_SEC

ASSUME ReconnectAssumption ==
    /\ NoCred \notin Cred /\ Throttle \in Nat \ {0} /\ AuthPause \in Nat \ {0}
    /\ BackoffSteps \subseteq Nat \ {0} /\ BackoffSteps # {}
    /\ Commands \cap {"loop", "passive", "handoff"} = {}

VARIABLES
    client,       \* the session of the MQTT client
    fingerprint,  \* the credential its start was given
    lastError,    \* class of its last_error
    rejected,     \* consecutive_auth_failures > 0
    born,         \* _async_mqtt_connected is scheduled
    lost,         \* _async_handle_mqtt_disconnect is scheduled
    mgr,          \* MqttConnectionManager: its deadlines and its fingerprint
    api,          \* the credential the API client has cached, or NoCred
    saved,        \* _persisted_mqtt_session
    cycle,        \* the HTTP poll cycle
    task,         \* what each task is doing
    sleep,        \* what is left of the reconnect loop's sleep
    sinceLoop,    \* history: time since the loop's last attempt
    refused       \* history: the credentials the broker refused so far

session == <<client, fingerprint, lastError, rejected>>
callbacks == <<born, lost>>
login == <<api, saved, cycle>>
history == <<sinceLoop, refused>>
vars == <<session, callbacks, mgr, login, task, sleep, history>>

Tasks == {"loop", "passive", "handoff"} \cup Commands

\* "start" waits for the client's lock, which "ssl" holds; "ousted" waits for a
\* session that was replaced, "orphaned" publishes on one.
Stages == {"none", "due", "sleep", "start", "ssl", "wait", "ousted",
           "publish", "orphaned", "stop", "saving"}
Errors == {"none", "auth", "other"}
NoTask == [at |-> "none", cred |-> NoCred, turn |-> "none"]
TaskRecord == [at : Stages, cred : Cred \cup {NoCred}, turn : {"none", "pre", "first", "second"}]
Manager == [throttle : Nat, pause : Nat, backoff : Nat, known : Cred \cup {NoCred}]

Up == client = "up"
Down == client = "down"
Started == ~Down

\* What async_start_mqtt leaves: its attempt opens a session, or has failed.  The
\* login before it was stored, or the storage failed.
Init ==
    /\ api \in Cred /\ saved \in {api, NoCred}
    /\ \/ client = "opening" /\ fingerprint = api
       \/ client = "down" /\ fingerprint = NoCred
    /\ lastError = "none" /\ rejected = FALSE
    /\ born = FALSE /\ lost = FALSE
    /\ mgr = [throttle |-> Throttle, pause |-> 0, backoff |-> 0, known |-> NoCred]
    /\ cycle = "idle"
    /\ task = [t \in Tasks |-> NoTask]
    /\ sleep = 0 /\ sinceLoop = Throttle /\ refused = {}

-----------------------------------------------------------------------------
(* MqttConnectionManager: each operation maps the manager m to its new state.*)

Larger(a, b) == IF a >= b THEN a ELSE b
Smaller(a, b) == IF a <= b THEN a ELSE b
Less(n) == IF n = 0 THEN 0 ELSE n - 1

RetryDelay_NoThrottle(m) == Larger(m.pause, m.backoff)
RetryDelay(m) == Larger(m.throttle, Larger(m.pause, m.backoff))

\* note_connect_failure.
Noted(m, step) == [m EXCEPT !.backoff = step]

\* pause_after_auth_failure: an active pause is not extended.
Paused(m) == IF m.pause > 0 THEN m ELSE [m EXCEPT !.pause = AuthPause]

\* handle_connect_error for an error that is no rejection by itself.
Failed(m, step) == IF lastError = "auth" THEN Paused(m) ELSE Noted(m, step)

\* record_connect_attempt, record_connect_success.
Attempted(m) == [m EXCEPT !.throttle = Throttle]
Succeeded(m, cred) == [m EXCEPT !.known = cred, !.backoff = 0, !.pause = 0]

\* should_skip_reconnect: a healthy connection is recorded as a success, forced
\* or not; the delays hold unless the call is forced, or the session is up and
\* nobody knows with which credential.
Healthy == Up /\ mgr.known = api
Refreshed == IF Healthy THEN Succeeded(mgr, api) ELSE mgr
Unverified == Up /\ mgr.known = NoCred
ReconnectNeeded == ~Up \/ (mgr.known # NoCred /\ mgr.known # api)
Skips ==
    \/ Healthy
    \/ ~Unverified /\ \/ mgr.pause > 0 \/ mgr.backoff > 0
                      \/ ReconnectNeeded /\ mgr.throttle > 0

-----------------------------------------------------------------------------
(* The session: what the MQTT client does by itself.                        *)

Connects ==
    /\ client = "opening"
    /\ client' = "up" /\ rejected' = FALSE /\ lastError' = "none" /\ born' = TRUE
    /\ UNCHANGED <<fingerprint, lost, mgr, login, task, sleep, history>>

\* CONNECT or SUBSCRIBE failed, or the stream ended.  Another return code than
\* a rejection resets the count of rejections, another error leaves it.
Ends ==
    /\ Started
    /\ \/ lastError' = "auth" /\ rejected' = TRUE /\ refused' = refused \cup {fingerprint}
       \/ lastError' = "other" /\ rejected' \in {FALSE, rejected} /\ UNCHANGED refused
    /\ client' = "down" /\ lost' = TRUE
    /\ UNCHANGED <<fingerprint, born, mgr, login, task, sleep, sinceLoop>>

\* _async_mqtt_connected, up to its first await.
ConnectedRuns ==
    /\ born
    /\ born' = FALSE
    /\ mgr' = Succeeded(mgr, api)
    /\ UNCHANGED <<session, lost, login, task, sleep, history>>

\* _async_handle_mqtt_disconnect: one reconnect loop at a time.
DisconnectRuns ==
    /\ lost /\ ~born
    /\ lost' = FALSE
    /\ \E step \in BackoffSteps : mgr' = IF lastError = "none" THEN mgr ELSE Failed(mgr, step)
    /\ task' = IF task["loop"].at = "none" THEN [task EXCEPT !["loop"].at = "due"] ELSE task
    /\ UNCHANGED <<session, born, login, sleep, history>>

\* The session is gone, with its callbacks; who waits for it or uses it finds out.
Ousted ==
    [t \in Tasks |-> [task[t] EXCEPT !.at = IF @ = "wait" THEN "ousted"
                                           ELSE IF @ = "publish" THEN "orphaned" ELSE @]]
StopsSession ==
    /\ client' = "down" /\ fingerprint' = NoCred
    /\ born' = FALSE /\ lost' = FALSE
    /\ UNCHANGED rejected

-----------------------------------------------------------------------------
(* The end of one _async_ensure_mqtt, as its caller sees it.                *)

Ended(tasks, t) == [tasks EXCEPT ![t] = NoTask]

\* The rest of the reconnect loop's turn: note a failure nobody noted, then end
\* or sleep again.  up: the session is connected when the turn ends.
LoopGoesOn(m, raised, up) ==
    \E step, again \in BackoffSteps :
        LET m1 == IF raised /\ RetryDelay(m) = 0 THEN Failed(m, step) ELSE m
            m2 == IF RetryDelay(m1) = 0 THEN Noted(m1, again) ELSE m1
        IN /\ mgr' = m2
           /\ IF up
              THEN task' = Ended(task, "loop") /\ UNCHANGED sleep
              ELSE /\ task' = [task EXCEPT !["loop"] = [NoTask EXCEPT !.at = "sleep"]]
                   /\ sleep' = RetryDelay(m2)

\* An exception: a command fails, unless it is the loop's to try again; the
\* others are rid of it.
Raises(t, m) ==
    IF t = "loop" THEN LoopGoesOn(m, TRUE, FALSE)
    ELSE mgr' = m /\ task' = Ended(task, t) /\ UNCHANGED sleep

Waits(t) == t \in Commands \cup {"loop"}

\* Success, for a caller that waited for the connection.  A command goes on to
\* its publish.
Connected(t, m) ==
    IF t = "loop" THEN LoopGoesOn(m, FALSE, TRUE)
    ELSE /\ mgr' = m /\ UNCHANGED sleep
         /\ task' = [task EXCEPT ![t].at = "publish",
                                  ![t].turn = IF @ = "pre" THEN "first" ELSE "second"]

-----------------------------------------------------------------------------
(* async_start, and the wait for the connection after it.                   *)

LockFree == \A t \in Tasks : task[t].at # "ssl"
LockIdle == \A t \in Tasks : task[t].at \notin {"start", "ssl"}

\* With the lock, for a task t that called with call.cred: keep a started
\* session with this credential, or stop what there is and await the TLS context.
AsyncStart(t, call, m) ==
    IF Started /\ fingerprint = call.cred
    THEN /\ task' = IF Waits(t) THEN [task EXCEPT ![t] = [call EXCEPT !.at = "wait"]]
                                ELSE Ended(task, t)
         /\ mgr' = IF Up /\ ~Waits(t) THEN Succeeded(m, call.cred) ELSE m
         /\ UNCHANGED <<session, callbacks>>
    ELSE /\ StopsSession /\ lastError' = "none"
         /\ task' = [Ousted EXCEPT ![t] = [call EXCEPT !.at = "ssl"]]
         /\ mgr' = m

LockTaken(t) ==
    /\ task[t].at = "start" /\ LockFree
    /\ AsyncStart(t, task[t], mgr)
    /\ UNCHANGED <<login, sleep, history>>

Opens(t) ==
    /\ task[t].at = "ssl"
    /\ client' = "opening" /\ fingerprint' = task[t].cred
    /\ IF Waits(t)
       THEN task' = [task EXCEPT ![t].at = "wait"] ELSE task' = Ended(task, t)
    /\ UNCHANGED <<lastError, rejected, callbacks, mgr, login, sleep, history>>

\* The stop timed out, or the TLS context could not be built.
StartFails(t) ==
    /\ task[t].at = "ssl"
    /\ Raises(t, mgr)
    /\ UNCHANGED <<session, callbacks, login, history>>

WaitSucceeds(t) ==
    /\ task[t].at = "wait" /\ Up
    /\ Connected(t, Succeeded(mgr, task[t].cred))
    /\ UNCHANGED <<session, callbacks, login, history>>

\* The session ended, was replaced, or did not connect in time.  A rejection
\* drops the login's credential: _pause_mqtt_after_auth_failure.
WaitFails(t) ==
    /\ task[t].at = "ousted" \/ (task[t].at = "wait" /\ ~Up)
    /\ IF lastError = "auth"
       THEN api' = NoCred /\ Raises(t, Paused([mgr EXCEPT !.known = NoCred]))
       ELSE /\ UNCHANGED api
            /\ \E step \in BackoffSteps : Raises(t, Noted(mgr, step))
    /\ UNCHANGED <<session, callbacks, saved, cycle, history>>

-----------------------------------------------------------------------------
(* _async_ensure_mqtt, from its call to async_start.                        *)

\* get_cached_mqtt_credentials.
HasCredential_Assumed == TRUE
HasCredential == api # NoCred

\* With a cached credential: record the attempt and call async_start, which
\* does not wait for a lock that is free.
Attempts(t, turn) ==
    /\ HasCredential
    /\ LET called == [at |-> "start", cred |-> api, turn |-> turn]
       IN IF LockIdle THEN AsyncStart(t, called, Attempted(Refreshed))
          ELSE /\ task' = [task EXCEPT ![t] = called] /\ mgr' = Attempted(Refreshed)
               /\ UNCHANGED <<session, callbacks>>
    /\ sinceLoop' = IF t = "loop" THEN 0 ELSE sinceLoop
    /\ UNCHANGED <<api, cycle, sleep, refused>>

\* Without one: nothing happens, and the caller is not told.
Defers(t) ==
    /\ ~HasCredential
    /\ IF t = "loop" THEN LoopGoesOn(Refreshed, FALSE, Up)
       ELSE mgr' = Refreshed /\ task' = Ended(task, t) /\ UNCHANGED sleep
    /\ UNCHANGED <<session, callbacks, api, cycle, history>>

Forced(t) == Attempts(t, "none") \/ Defers(t)

PassiveRuns ==
    /\ task["passive"].at = "due"
    /\ IF Skips
       THEN /\ mgr' = Refreshed /\ task' = Ended(task, "passive")
            /\ UNCHANGED <<session, callbacks, login, sleep, history>>
       ELSE Forced("passive") /\ UNCHANGED saved

\* The loop computes its delay once, and starts when it has slept that long.
LoopBegins ==
    /\ task["loop"].at = "due"
    /\ \/ /\ Up
          /\ task' = Ended(task, "loop")
          /\ UNCHANGED <<session, callbacks, mgr, login, sleep, history>>
       \/ /\ ~Up /\ RetryDelay(mgr) > 0
          /\ task' = [task EXCEPT !["loop"].at = "sleep"]
          /\ sleep' = RetryDelay(mgr)
          /\ UNCHANGED <<session, callbacks, mgr, login, history>>
       \/ ~Up /\ RetryDelay(mgr) = 0 /\ Forced("loop") /\ UNCHANGED saved

LoopWakes == task["loop"].at = "sleep" /\ sleep = 0 /\ Forced("loop") /\ UNCHANGED saved

-----------------------------------------------------------------------------
(* Commands: _async_publish_command.                                        *)

\* A connected client publishes at once, any other is started first.
CommandCalled(k) ==
    /\ task[k].at = "none" /\ api # NoCred
    /\ IF Up
       THEN /\ task' = [task EXCEPT ![k] = [NoTask EXCEPT !.at = "publish", !.turn = "first"]]
            /\ UNCHANGED <<session, callbacks, mgr, login, sleep, history>>
       ELSE Attempts(k, "pre") /\ UNCHANGED saved

PublishSucceeds(k) ==
    /\ task[k].at = "publish"
    /\ task' = Ended(task, k)
    /\ UNCHANGED <<session, callbacks, mgr, login, sleep, history>>

\* MqttError cuts the session it was sent on; the first failure is retried
\* after a stop of whatever session there is.
PublishFails(k) ==
    /\ task[k].at \in {"publish", "orphaned"}
    /\ IF task[k].at = "publish" /\ client \in {"up", "cut"}
       THEN client' = "cut" /\ lastError' = "other"
       ELSE UNCHANGED <<client, lastError>>
    /\ task' = IF task[k].turn = "first" THEN [task EXCEPT ![k].at = "stop"] ELSE Ended(task, k)
    /\ UNCHANGED <<fingerprint, rejected, callbacks, mgr, login, sleep, history>>

\* async_stop, then the second attempt starts the session itself - or finds no
\* credential and fails, or the stop raised.
CommandStops(k) ==
    /\ task[k].at = "stop" /\ LockFree
    /\ StopsSession
    /\ \/ /\ api # NoCred
          /\ mgr' = Attempted(mgr)
          /\ task' = [Ousted EXCEPT ![k] = [at |-> IF LockIdle THEN "ssl" ELSE "start",
                                                cred |-> api, turn |-> "second"]]
          /\ lastError' = IF LockIdle THEN "none" ELSE lastError
       \/ task' = Ended(Ousted, k) /\ UNCHANGED <<mgr, lastError>>
    /\ UNCHANGED <<login, sleep, history>>

\* The caller of the command is cancelled at one of its awaits.
CommandCancelled(k) ==
    /\ task[k].at # "none"
    /\ task' = Ended(task, k)
    /\ UNCHANGED <<session, callbacks, mgr, login, sleep, history>>

-----------------------------------------------------------------------------
(* Time.                                                                    *)

\* What the event loop does next takes no time worth counting: a task that is
\* ready, a scheduled callback, a stop with its five-second limits.
Ready(t) ==
    \/ task[t].at \in {"due", "ssl", "ousted", "orphaned", "stop"}
    \/ task[t].at = "start" /\ LockFree
    \/ task[t].at = "sleep" /\ sleep = 0
Urgent == born \/ lost \/ \E t \in Tasks : Ready(t)

Tick ==
    /\ ~Urgent
    /\ mgr' = [mgr EXCEPT !.throttle = Less(@), !.pause = Less(@), !.backoff = Less(@)]
    /\ sleep' = Less(sleep)
    /\ sinceLoop' = Smaller(sinceLoop + 1, Throttle)
    /\ UNCHANGED <<session, callbacks, login, task, refused>>

-----------------------------------------------------------------------------
(* HTTP: the logins, the poll cycle, and the handoff of credentials.        *)

\* Any HTTP request may find its token dropped or expired and log in again; the
\* login may rotate the credential.
LogsIn ==
    /\ api' \in Cred
    /\ UNCHANGED <<session, callbacks, mgr, saved, cycle, task, sleep, history>>

\* The cycle prepares: a rejection nobody waited for is found here.
StaleRejection == rejected /\ ~Up
CyclePrepares ==
    /\ cycle = "idle" /\ ~Urgent
    /\ cycle' = "http"
    /\ IF StaleRejection
       THEN api' = NoCred /\ mgr' = Paused([mgr EXCEPT !.known = NoCred])
       ELSE UNCHANGED <<api, mgr>>
    /\ UNCHANGED <<session, callbacks, saved, task, sleep, history>>

CycleFails ==
    /\ cycle = "http"
    /\ cycle' = "idle"
    /\ UNCHANGED <<session, callbacks, mgr, api, saved, task, sleep, history>>

EnsureNeeded_Changed == api # mgr.known
EnsureNeeded == api # mgr.known \/ ~Up
CycleEnds ==
    /\ cycle = "http" /\ api # NoCred
    /\ cycle' = "idle"
    /\ task' = [t \in Tasks |->
                  IF task[t].at = "none" /\ (t = "handoff" \/ (t = "passive" /\ EnsureNeeded))
                  THEN [NoTask EXCEPT !.at = "due"] ELSE task[t]]
    /\ UNCHANGED <<session, callbacks, mgr, api, saved, sleep, history>>

\* _async_persist_mqtt_session_if_changed: save what changed ...
HandoffBegins ==
    /\ task["handoff"].at = "due"
    /\ task' = IF api \in {NoCred, saved} THEN Ended(task, "handoff")
               ELSE [task EXCEPT !["handoff"] = [NoTask EXCEPT !.at = "saving", !.cred = api]]
    /\ UNCHANGED <<session, callbacks, mgr, login, sleep, history>>

HandoffFails ==
    /\ task["handoff"].at = "saving"
    /\ task' = Ended(task, "handoff")
    /\ UNCHANGED <<session, callbacks, mgr, login, sleep, history>>

\* ... and restart a started session with what is cached now.
HandoffSaved ==
    /\ task["handoff"].at = "saving"
    /\ saved' = task["handoff"].cred
    /\ IF Started THEN Forced("handoff")
       ELSE /\ task' = Ended(task, "handoff")
            /\ UNCHANGED <<session, callbacks, mgr, api, cycle, sleep, history>>

-----------------------------------------------------------------------------
StartStep(t) ==
    LockTaken(t) \/ Opens(t) \/ StartFails(t) \/ WaitSucceeds(t) \/ WaitFails(t)

CommandStep(k) == PublishSucceeds(k) \/ PublishFails(k) \/ CommandStops(k) \/ CommandCancelled(k)

Handoff == HandoffBegins \/ HandoffFails \/ HandoffSaved

Next ==
    \/ Connects \/ Ends \/ ConnectedRuns \/ DisconnectRuns
    \/ PassiveRuns \/ LoopBegins \/ LoopWakes
    \/ \E t \in Tasks : StartStep(t)
    \/ \E k \in Commands : CommandCalled(k) \/ CommandStep(k)
    \/ LogsIn \/ CyclePrepares \/ CycleFails \/ CycleEnds
    \/ Handoff
    \/ Tick

Spec == Init /\ [][Next]_vars

\* Time passes, the event loop runs what is ready, every wait is bounded, the
\* poll cycle is driven by a timer, and HTTP and the TLS context keep working
\* now and then.
ReadyStep ==
    \/ ConnectedRuns \/ DisconnectRuns
    \/ PassiveRuns \/ LoopBegins \/ LoopWakes \/ HandoffBegins
    \/ \E t \in Tasks : LockTaken(t) \/ Opens(t) \/ StartFails(t)
    \/ \E t \in Tasks : task[t].at = "ousted" /\ WaitFails(t)
    \/ \E k \in Commands : task[k].at = "orphaned" /\ PublishFails(k)
    \/ \E k \in Commands : CommandStops(k)

Fairness ==
    /\ SF_vars(Tick)
    /\ WF_vars(ReadyStep)
    /\ WF_vars(WaitSucceeds("loop") \/ WaitFails("loop"))
    /\ WF_vars(HandoffFails \/ HandoffSaved)
    /\ WF_vars(api = NoCred /\ LogsIn)
    /\ SF_vars(CyclePrepares) /\ SF_vars(CycleEnds)
    /\ SF_vars(\E t \in Tasks : Opens(t))

FairSpec == Spec /\ Fairness

-----------------------------------------------------------------------------
TypeOK ==
    /\ client \in {"down", "opening", "up", "cut"}
    /\ fingerprint \in Cred \cup {NoCred} /\ lastError \in Errors
    /\ rejected \in BOOLEAN /\ born \in BOOLEAN /\ lost \in BOOLEAN
    /\ mgr \in Manager
    /\ api \in Cred \cup {NoCred} /\ saved \in Cred \cup {NoCred}
    /\ cycle \in {"idle", "http"}
    /\ task \in [Tasks -> TaskRecord]
    /\ sleep \in Nat /\ sinceLoop \in 0..Throttle /\ refused \subseteq Cred

LoopAttempts == task["loop"].at \in {"due", "sleep"} /\ task'["loop"].at \in {"start", "ssl", "wait"}

\* A flapping link causes no reconnect storm: the loop's own attempts are at
\* least the throttle apart, however often the session connects and drops.
LoopIsThrottled == [][LoopAttempts => sinceLoop = Throttle]_vars

\* While a session is lost somebody sees to it: unless the broker rejected the
\* credential, a session that is down is started again - by its loop, or, when
\* a stop took its disconnect callback along, by the poll cycle.
DownIsRestarted == (Down /\ ~rejected) ~> (Started \/ rejected)

\* The loop opens a session only when the manager says it may (coordinator.py:
\* 6130-6134, 1239-1240; const.py:160-166), also when the delay grew in its sleep.
LoopHonoursDelay ==
    [][task["loop"].at = "sleep" /\ task'["loop"].at = "ssl" => RetryDelay(mgr) = 0]_vars

\* The login is dropped for a rejection that proved its credential to be no
\* longer accepted (api.py:1164-1174), not for one of an earlier credential.
DroppedWasRefused == [][api # NoCred /\ api' = NoCred => api \in refused]_vars

=============================================================================
