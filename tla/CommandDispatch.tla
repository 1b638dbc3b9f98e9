--------------------------- MODULE CommandDispatch ---------------------------
(***************************************************************************)
(* Commands to a device (coordinator.py, _async_publish_command_ble_first): *)
(* each is sent over BLE and over cloud MQTT at once, the caller has its    *)
(* answer with the first success, and what the other transport did is       *)
(* recorded when it comes.  The coordinator keeps for each kind of command  *)
(* (device, action, cmd), of which this is one, whether its last cloud      *)
(* publish of the present broker session failed: the queries of that kind   *)
(* are then repeated.                                                       *)
(*                                                                          *)
(* What the client does with its session is CloudMqttSession; here the      *)
(* session just begins, connects and drops.                                 *)
(***************************************************************************)
EXTENDS Naturals

CONSTANTS
  MaxCommands,      \* bound on the commands of this kind
  MaxGenerations    \* bound on session_generation

ASSUME DispatchAssumption == MaxCommands \in Nat /\ MaxGenerations \in Nat

VARIABLES
  cdClient,     \* the client's session_generation and is_connected
  cdKnown,      \* the coordinator's _mqtt_session_generation
  cdAttempt,    \* _cloud_mqtt_command_attempts[key], 0 when absent
  cdFailure,    \* _cloud_mqtt_command_failures[key]: whose failure it is, 0 when absent
  cdCommand,    \* each command by its attempt_id
  cdSuccess     \* history: the newest command whose success this session has recorded

cdVars == <<cdClient, cdKnown, cdAttempt, cdFailure, cdCommand, cdSuccess>>

Commands == 1..MaxCommands
Ids == 0..MaxCommands

\* wait: in _async_wait_for_command_transport_result.
Callers == {"none", "wait", "ok", "failed", "cancelled"}
\* created: before its first step.  ensure: in _async_ensure_mqtt.  publish: in
\* async_publish_json.  stop: in async_stop after the first failure.
CloudRunning == {"created", "ensure", "publish", "stop"}
CloudStages  == CloudRunning \cup {"none", "ok", "failed", "cancelled"}
BleStages    == {"none", "run", "ok", "failed", "cancelled"}

Command == [caller : Callers,
            rest   : BOOLEAN,              \* _async_finish_independent_command_transports
            ble    : BleStages,
            cloud  : CloudStages,
            second : BOOLEAN,              \* the second pass of _async_publish_with_retry
            gen    : 0..MaxGenerations]    \* cloud_attempt.session_generation

NoCommand == [caller |-> "none", rest |-> FALSE, ble |-> "none", cloud |-> "none",
              second |-> FALSE, gen |-> 0]

CdTypeOK ==
  /\ cdClient \in [gen : 0..MaxGenerations, up : BOOLEAN]
  /\ cdKnown \in 0..MaxGenerations
  /\ cdAttempt \in Ids /\ cdFailure \in Ids /\ cdSuccess \in Ids
  /\ cdCommand \in [Commands -> Command]

CdInit ==
  /\ cdClient = [gen |-> 0, up |-> FALSE]
  /\ cdKnown = 0
  /\ cdAttempt = 0 /\ cdFailure = 0 /\ cdSuccess = 0
  /\ cdCommand = [n \in Commands |-> NoCommand]

-------------------------------------------------------------------------------
(* The record of the present session.                                        *)

\* _synchronize_mqtt_session_generation forgets the session before.
OfSession(value) == IF cdKnown = cdClient.gen THEN value ELSE 0

\* _bind_cloud_command_attempt for n, whose record becomes cmd.
Bind(n, cmd) ==
  /\ cdCommand' = [cdCommand EXCEPT ![n] = [cmd EXCEPT !.gen = cdClient.gen]]
  /\ cdKnown' = cdClient.gen
  /\ cdAttempt' = IF n >= OfSession(cdAttempt) THEN n ELSE OfSession(cdAttempt)
  /\ cdFailure' = OfSession(cdFailure)
  /\ cdSuccess' = OfSession(cdSuccess)

BleOver(n)   == cdCommand[n].ble # "run"
CloudOver(n) == cdCommand[n].cloud \notin CloudRunning
Succeeded(n) == "ok" \in {cdCommand[n].ble, cdCommand[n].cloud}

IsCurrent_AnyAttempt(n) == cdCommand[n].gen = cdClient.gen
IsCurrent(n) == cdCommand[n].gen = cdClient.gen /\ OfSession(cdAttempt) = n

\* _record_independent_cloud_mqtt_result: a result of an earlier session, or of a
\* command after which another one was bound, is dropped.
RecordResult(n) ==
  LET current == IsCurrent(n)
      cloud   == cdCommand[n].cloud
  IN  /\ cdKnown' = cdClient.gen
      /\ cdAttempt' = OfSession(cdAttempt)
      /\ cdFailure' = CASE current /\ cloud = "ok"     -> 0
                        [] current /\ cloud = "failed" -> n
                        [] OTHER                       -> OfSession(cdFailure)
      /\ cdSuccess' = IF current /\ cloud = "ok" THEN n ELSE OfSession(cdSuccess)

-------------------------------------------------------------------------------
(* The caller.                                                               *)

\* Attempts are numbered in the order of the calls; BLE only where the command has
\* a BLE form, the cloud only if it may be started for it or is connected.
CommandBegins(n, ble, ensure) ==
  /\ cdCommand[n].caller = "none"
  /\ \A m \in Commands : m < n => cdCommand[m].caller # "none"
  /\ Bind(n, [NoCommand EXCEPT !.caller = "wait", !.ble = IF ble THEN "run" ELSE "none",
                 !.cloud = IF ensure \/ cdClient.up THEN "created" ELSE "none"])
  /\ UNCHANGED cdClient

\* One transport has succeeded; the other one's task goes on.
CallerSucceeds(n) ==
  /\ cdCommand[n].caller = "wait" /\ Succeeded(n)
  /\ cdCommand' = [cdCommand EXCEPT ![n].caller = "ok",
                                    ![n].rest = ~(BleOver(n) /\ CloudOver(n))]
  /\ IF BleOver(n) /\ CloudOver(n)
       THEN RecordResult(n)
       ELSE UNCHANGED <<cdKnown, cdAttempt, cdFailure, cdSuccess>>
  /\ UNCHANGED cdClient

CallerFails_AtFirst(n) ==
  /\ cdCommand[n].caller = "wait" /\ ~Succeeded(n)
  /\ BleOver(n) \/ CloudOver(n)
  /\ cdCommand' = [cdCommand EXCEPT ![n].caller = "failed"]
  /\ RecordResult(n)
  /\ UNCHANGED cdClient

\* Every transport has failed, or there was none: the call raises.
CallerFails(n) ==
  /\ cdCommand[n].caller = "wait" /\ ~Succeeded(n)
  /\ BleOver(n) /\ CloudOver(n)
  /\ cdCommand' = [cdCommand EXCEPT ![n].caller = "failed"]
  /\ RecordResult(n)
  /\ UNCHANGED cdClient

RestEnds(n) ==
  /\ cdCommand[n].rest /\ BleOver(n) /\ CloudOver(n)
  /\ cdCommand' = [cdCommand EXCEPT ![n].rest = FALSE]
  /\ RecordResult(n)
  /\ UNCHANGED cdClient

\* The caller is cancelled, or the entry's tasks are with the remainder: the next
\* step of each transport task is its cancellation.
CommandCancelled(n) ==
  /\ cdCommand[n].caller = "wait" \/ cdCommand[n].rest
  /\ cdCommand' = [cdCommand EXCEPT
       ![n].caller = IF @ = "wait" THEN "cancelled" ELSE @,
       ![n].rest   = FALSE,
       ![n].ble    = IF BleOver(n) THEN @ ELSE "cancelled",
       ![n].cloud  = IF CloudOver(n) THEN @ ELSE "cancelled"]
  /\ UNCHANGED <<cdClient, cdKnown, cdAttempt, cdFailure, cdSuccess>>

-------------------------------------------------------------------------------
(* The transports.                                                           *)

BleEnds(n, ok) ==
  /\ cdCommand[n].ble = "run"
  /\ cdCommand' = [cdCommand EXCEPT ![n].ble = IF ok THEN "ok" ELSE "failed"]
  /\ UNCHANGED <<cdClient, cdKnown, cdAttempt, cdFailure, cdSuccess>>

\* A session is wanted: connected, the attempt is bound to it and published.
CloudPublishes(n) ==
  /\ cdCommand[n].cloud \in {"created", "ensure"} /\ cdClient.up
  /\ Bind(n, [cdCommand[n] EXCEPT !.cloud = "publish"])
  /\ UNCHANGED cdClient

CloudEnsures(n) ==
  /\ cdCommand[n].cloud = "created" /\ ~cdClient.up
  /\ cdCommand' = [cdCommand EXCEPT ![n].cloud = "ensure"]
  /\ UNCHANGED <<cdClient, cdKnown, cdAttempt, cdFailure, cdSuccess>>

\* Published, whatever has become of the session meanwhile.
CloudSucceeds(n) ==
  /\ cdCommand[n].cloud = "publish"
  /\ cdCommand' = [cdCommand EXCEPT ![n].cloud = "ok"]
  /\ UNCHANGED <<cdClient, cdKnown, cdAttempt, cdFailure, cdSuccess>>

\* The first publish fails: the session there is by then is stopped ...
CloudRetries(n) ==
  /\ cdCommand[n].cloud = "publish" /\ ~cdCommand[n].second
  /\ cdCommand' = [cdCommand EXCEPT ![n].cloud = "stop"]
  /\ UNCHANGED <<cdClient, cdKnown, cdAttempt, cdFailure, cdSuccess>>

\* ... and begun again for the second.
CloudStops(n) ==
  /\ cdCommand[n].cloud = "stop"
  /\ cdClient.gen < MaxGenerations
  /\ cdClient' = [gen |-> cdClient.gen + 1, up |-> FALSE]
  /\ cdCommand' = [cdCommand EXCEPT ![n].cloud = "ensure", ![n].second = TRUE]
  /\ UNCHANGED <<cdKnown, cdAttempt, cdFailure, cdSuccess>>

\* No login yet, not connected after all, or failed again: the failure belongs to
\* the session there is now.
CloudFails(n) ==
  /\ cdCommand[n].cloud \in CloudRunning
  /\ Bind(n, [cdCommand[n] EXCEPT !.cloud = "failed"])
  /\ UNCHANGED cdClient

-------------------------------------------------------------------------------
(* The session, and the coordinator's notice of it.                          *)

SessionBegins ==
  /\ cdClient.gen < MaxGenerations
  /\ cdClient' = [gen |-> cdClient.gen + 1, up |-> FALSE]
  /\ UNCHANGED <<cdKnown, cdAttempt, cdFailure, cdCommand, cdSuccess>>

LinkChanges ==
  /\ cdClient.gen > 0
  /\ cdClient' = [cdClient EXCEPT !.up = ~@]
  /\ UNCHANGED <<cdKnown, cdAttempt, cdFailure, cdCommand, cdSuccess>>

\* The connect callback, or a frame of the new session.
SessionNoticed ==
  /\ cdKnown # cdClient.gen
  /\ cdKnown' = cdClient.gen
  /\ cdAttempt' = 0 /\ cdFailure' = 0 /\ cdSuccess' = 0
  /\ UNCHANGED <<cdClient, cdCommand>>

CommandStep(n) ==
  \/ \E ble, ensure \in BOOLEAN : CommandBegins(n, ble, ensure)
  \/ CallerSucceeds(n) \/ CallerFails(n) \/ RestEnds(n) \/ CommandCancelled(n)
  \/ \E ok \in BOOLEAN : BleEnds(n, ok)
  \/ CloudPublishes(n) \/ CloudEnsures(n) \/ CloudSucceeds(n)
  \/ CloudRetries(n) \/ CloudStops(n) \/ CloudFails(n)

CdNext ==
  \/ \E n \in Commands : CommandStep(n)
  \/ SessionBegins \/ LinkChanges \/ SessionNoticed

CdSpec == CdInit /\ [][CdNext]_cdVars

-------------------------------------------------------------------------------
(* Properties.                                                               *)

\* Once a command's success over the cloud is recorded, the kind is not marked as
\* failed by an earlier command whose failure comes late, whatever sessions began
\* and whichever transport answered first.
NewerOutcomeStands == cdFailure = 0 \/ cdFailure > cdSuccess

\* The caller's answer is final: an error means that no transport has delivered the
\* command or still may, and a success that one has; a repeated command is never
\* overtaken by the failed one before it.
AnswerIsFinal ==
  \A n \in Commands :
    /\ cdCommand[n].caller = "ok" => Succeeded(n)
    /\ cdCommand[n].caller = "failed" => BleOver(n) /\ CloudOver(n) /\ ~Succeeded(n)
    /\ cdCommand[n].caller = "cancelled" => BleOver(n) /\ CloudOver(n)
===============================================================================
