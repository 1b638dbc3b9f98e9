-------------------------- MODULE LocalMqttListener --------------------------
(***************************************************************************)
(* Who starts and who stops the entry's local MQTT client (__init__.py):    *)
(* the start task of setup and the task that applies changed options, one   *)
(* at a time under the entry's lock; the unload, which takes no lock; and   *)
(* the cleanup task, which owns what did not stop in time.                  *)
(*                                                                          *)
(* Clients, coordinators and starters are objects: a value is used again    *)
(* when nothing refers to it, so reloads and option changes have no bound.  *)
(* What Home Assistant does to an entry's background tasks when an unload   *)
(* ends (it cancels them) is part of UnloadEnds.                            *)
(***************************************************************************)
EXTENDS Naturals, Sequences, FiniteSets, Queues

CONSTANTS
  ListenerOwners,   \* coordinators
  Starters,         \* tasks that run _async_start_local_mqtt
  Clients,          \* JackeryLocalMqttClient objects
  Settings,         \* what the options may ask for, NoListener among it
  NoListener,
  Nobody

ASSUME ListenerAssumption == Nobody \notin ListenerOwners \cup Clients /\ NoListener \in Settings

VARIABLES
  lmEntry,      \* the entry: loaded, or at an await of its unload
  lmAttached,   \* the runtime coordinator's local_mqtt_client
  lmCurrent,    \* bucket[_LOCAL_MQTT_RUNTIME_KEY]
  lmWanted,     \* the listener that entry.options ask for
  lmPending,    \* listener keys in bucket[_OPTIONS_RECONCILE_PENDING_RUNTIME_KEY]
  lmStarter,    \* each starter at its await; "undo" is "detach" after a cancellation
  lmLock,       \* the entry's lock: the holder, then the waiters
  lmClient,     \* each client: whether its runner runs, and for which settings
  lmStop,       \* bucket[_LOCAL_MQTT_STOP_TASKS_RUNTIME_KEY]
  lmDeferred,   \* bucket[_SUPPLEMENTAL_LOCAL_MQTT_RUNTIME_KEY]
  lmStale,      \* bucket[_SUPPLEMENTAL_LAYER5_TASKS_RUNTIME_KEY]
  lmRestart,    \* bucket[_LOCAL_MQTT_RESTART_AFTER_CLEANUP_RUNTIME_KEY]
  lmCleanup     \* _async_cleanup_stale_supplemental

lmVars == <<lmEntry, lmAttached, lmCurrent, lmWanted, lmPending, lmStarter, lmLock,
            lmClient, lmStop, lmDeferred, lmStale, lmRestart, lmCleanup>>

\* What a task that awaits a client's stop task has seen of it.
Outcomes == {"wait", "ok", "failed"}

LmTypeOK ==
  /\ lmEntry \in [at : {"off", "on", "unload", "options", "stop", "ending"},
                  c : ListenerOwners \cup {Nobody}, k : Clients \cup {Nobody}, res : Outcomes]
  /\ {lmAttached, lmCurrent} \subseteq Clients \cup {Nobody}
  /\ lmWanted \in Settings
  /\ lmPending \in BOOLEAN
  /\ lmStarter \in [Starters ->
       [at : {"none", "loop", "lock", "stop", "start", "detach", "undo"},
        kind : {"layer5", "options"}, c : ListenerOwners \cup {Nobody},
        k : Clients \cup {Nobody}, want : Settings, res : Outcomes, cancelled : BOOLEAN]]
  /\ lmLock \in Seq(Starters)
  /\ lmClient \in [Clients -> [runs : BOOLEAN, settings : Settings]]
  /\ lmStop \in [Clients -> {"none", "running", "ok", "failed"}]
  /\ lmDeferred \subseteq Clients
  /\ lmStale \subseteq Starters
  /\ lmRestart \in BOOLEAN
  /\ lmCleanup \in [at : {"none", "loop", "tasks", "stop", "sleep"}, k : Clients \cup {Nobody},
                    res : Outcomes, todo : SUBSET Clients, kept : SUBSET Clients,
                    seen : SUBSET Clients, tasks : SUBSET Starters]

NoStarter == [at |-> "none", kind |-> "layer5", c |-> Nobody, k |-> Nobody,
              want |-> NoListener, res |-> "wait", cancelled |-> FALSE]
NoCleanup == [at |-> "none", k |-> Nobody, res |-> "wait", todo |-> {}, kept |-> {}, seen |-> {},
              tasks |-> {}]

LmInit ==
  /\ lmEntry = [at |-> "off", c |-> Nobody, k |-> Nobody, res |-> "wait"]
  /\ lmAttached = Nobody /\ lmCurrent = Nobody
  /\ lmWanted \in Settings
  /\ lmPending = FALSE
  /\ lmStarter = [s \in Starters |-> NoStarter]
  /\ lmLock = << >>
  /\ lmClient = [k \in Clients |-> [runs |-> FALSE, settings |-> NoListener]]
  /\ lmStop = [k \in Clients |-> "none"]
  /\ lmDeferred = {} /\ lmStale = {}
  /\ lmRestart = FALSE
  /\ lmCleanup = NoCleanup

-------------------------------------------------------------------------------
(* Reading the runtime.                                                      *)

\* _entry_owns_coordinator: an unload fences its coordinator before it awaits.
Owns(c) == lmEntry.at = "on" /\ lmEntry.c = c

\* _local_mqtt_client: the runtime coordinator's client before the bucket's.
ListenerNow == IF lmAttached # Nobody THEN lmAttached ELSE lmCurrent

\* The task of that kind that the runtime bucket refers to.
StartersOf(kind) == {s \in Starters : lmStarter[s].at # "none" /\ lmStarter[s].kind = kind
                                         /\ lmStarter[s].c = lmEntry.c}

FreshStarters == {s \in Starters : lmStarter[s].at = "none" /\ s \notin lmStale}
FreshOwners   == {c \in ListenerOwners : \A s \in Starters : lmStarter[s].c # c}
FreshClients  == {k \in Clients :
                    /\ ~lmClient[k].runs /\ lmStop[k] = "none"
                    /\ k \notin {lmAttached, lmCurrent, lmEntry.k, lmCleanup.k}
                    /\ k \notin lmDeferred \cup lmCleanup.todo \cup lmCleanup.seen
                    /\ \A s \in Starters : lmStarter[s].k # k}

-------------------------------------------------------------------------------
(* Operations several tasks share.                                           *)

Without(k, v) == IF v = k THEN Nobody ELSE v

\* _defer_supplemental_local_mqtt, and the coordinator lets go of the client.
Defer(k) ==
  /\ lmDeferred' = lmDeferred \cup {k}
  /\ lmCurrent' = Without(k, lmCurrent)
  /\ lmAttached' = Without(k, lmAttached)

\* _schedule_supplemental_cleanup, when there is something to clean up.
ScheduleCleanup ==
  lmCleanup' = IF lmCleanup.at = "none" THEN [NoCleanup EXCEPT !.at = "loop"] ELSE lmCleanup

\* _handle_stop_failure: the time limit passed, or the waiting task is cancelled.
StopNotSeen(k) ==
  /\ Defer(k)
  /\ lmRestart' = TRUE

\* _get_or_create_stop_task joins the task on record, finished or not.
StopTask(k)   == lmStop' = [lmStop EXCEPT ![k] = IF @ = "none" THEN "running" ELSE @]
SeenAtOnce(k) == IF lmStop[k] \in {"ok", "failed"} THEN lmStop[k] ELSE "wait"

\* _clear_stop_record, unless the client has a newer stop task.
StopCleared(k) == [lmStop EXCEPT ![k] = IF @ = "running" THEN @ ELSE "none"]
ClearStop(k)   == lmStop' = StopCleared(k)

Ends_Once(s) ==
  /\ lmLock' = Left(lmLock, s)
  /\ lmStarter' = [lmStarter EXCEPT ![s] = NoStarter]

\* A starter's operation ends: an options starter looks once more, unless cancelled.
Ends(s) ==
  /\ lmLock' = Left(lmLock, s)
  /\ lmStarter' = [lmStarter EXCEPT ![s] =
       IF @.kind = "options" /\ @.at # "undo" /\ ~@.cancelled
         THEN [@ EXCEPT !.at = "loop", !.k = Nobody, !.want = NoListener, !.res = "wait"]
         ELSE NoStarter]

\* task.cancel() on the tasks ts, delivered at their next step.
Cancelled(ts) ==
  [s \in Starters |-> IF s \in ts /\ lmStarter[s].at # "none"
                        THEN [lmStarter[s] EXCEPT !.cancelled = TRUE] ELSE lmStarter[s]]

-------------------------------------------------------------------------------
(* A starter.                                                                *)

\* _async_start_layer5_transports begins; _async_reconcile_entry_options takes what is
\* pending.  Either asks for the entry's lock, or ends.
StarterBegins(s) ==
  /\ lmStarter[s].at = "loop" /\ ~lmStarter[s].cancelled
  /\ IF Owns(lmStarter[s].c) /\ (lmStarter[s].kind = "options" => lmPending)
       THEN /\ lmPending' = (lmPending /\ lmStarter[s].kind # "options")
            /\ lmStarter' = [lmStarter EXCEPT ![s].at = "lock"]
            /\ lmLock' = Append(lmLock, s)
       ELSE /\ lmStarter' = [lmStarter EXCEPT ![s] = NoStarter]
            /\ UNCHANGED <<lmPending, lmLock>>
  /\ UNCHANGED <<lmEntry, lmAttached, lmCurrent, lmWanted, lmClient, lmStop, lmDeferred,
                 lmStale, lmRestart, lmCleanup>>

HoldsListenerLock(s) ==
  lmStarter[s].at = "lock" /\ Head(lmLock) = s /\ ~lmStarter[s].cancelled

\* _async_start_local_mqtt_locked: not the owner, or an old client is still stopping.
MustNotStart(s) ==
  /\ HoldsListenerLock(s)
  /\ \/ /\ ~Owns(lmStarter[s].c)
        /\ UNCHANGED <<lmRestart, lmCleanup>>
     \/ /\ Owns(lmStarter[s].c) /\ lmDeferred # {}
        /\ lmRestart' = (lmWanted # NoListener)
        /\ ScheduleCleanup
  /\ Ends(s)
  /\ UNCHANGED <<lmEntry, lmAttached, lmCurrent, lmWanted, lmPending, lmClient, lmStop,
                 lmDeferred, lmStale>>

MayStart_StopPending(s) == HoldsListenerLock(s) /\ Owns(lmStarter[s].c)
MayStart(s) == HoldsListenerLock(s) /\ Owns(lmStarter[s].c) /\ lmDeferred = {}

\* The client in place is what the options ask for.
KeepsListener(s) ==
  /\ MayStart(s)
  /\ ListenerNow # Nobody /\ lmWanted # NoListener
  /\ lmClient[ListenerNow] = [runs |-> TRUE, settings |-> lmWanted]
  /\ lmAttached' = ListenerNow
  /\ Ends(s)
  /\ UNCHANGED <<lmEntry, lmCurrent, lmWanted, lmPending, lmClient, lmStop, lmDeferred,
                 lmStale, lmRestart, lmCleanup>>

\* Any other client is stopped first; the settings to start with are read before that.
StopsListener(s) ==
  /\ MayStart(s)
  /\ ListenerNow # Nobody
  /\ lmWanted = NoListener \/ lmClient[ListenerNow] # [runs |-> TRUE, settings |-> lmWanted]
  /\ StopTask(ListenerNow)
  /\ lmStarter' = [lmStarter EXCEPT ![s].at = "stop", ![s].k = ListenerNow,
                     ![s].want = lmWanted, ![s].res = SeenAtOnce(ListenerNow)]
  /\ UNCHANGED <<lmEntry, lmAttached, lmCurrent, lmWanted, lmPending, lmLock, lmClient,
                 lmDeferred, lmStale, lmRestart, lmCleanup>>

(***************************************************************************)
(* No client is wanted; or a new one is made, attached and started, and     *)
(* async_start waits for its connection or raises without a runner.  stops  *)
(* is lmStop as the caller leaves it.                                       *)
(***************************************************************************)
StartsListener(s, want, stops) ==
  \/ /\ want = NoListener
     /\ lmRestart' = FALSE
     /\ lmAttached' = Nobody /\ lmCurrent' = Nobody
     /\ lmStop' = stops
     /\ Ends(s)
     /\ UNCHANGED lmClient
  \/ /\ want # NoListener
     /\ \E k \in FreshClients :
          /\ k = CHOOSE j \in FreshClients : TRUE
          /\ lmCurrent' = k
          /\ \/ /\ lmAttached' = k
                /\ lmClient' = [lmClient EXCEPT ![k] = [runs |-> TRUE, settings |-> want]]
                /\ lmStarter' = [lmStarter EXCEPT ![s].at = "start", ![s].k = k]
                /\ lmStop' = stops
             \/ /\ lmAttached' = Nobody
                /\ lmStarter' = [lmStarter EXCEPT ![s].at = "detach", ![s].k = k,
                                                  ![s].res = "wait"]
                /\ lmStop' = [stops EXCEPT ![k] = "running"]
                /\ UNCHANGED lmClient
     /\ UNCHANGED <<lmRestart, lmLock>>

StartsAnew(s) ==
  /\ MayStart(s) /\ ListenerNow = Nobody
  /\ StartsListener(s, lmWanted, lmStop)
  /\ UNCHANGED <<lmEntry, lmWanted, lmPending, lmDeferred, lmStale, lmCleanup>>

\* The old client has stopped: start the new one, if still the owner.
ListenerStopped(s) ==
  /\ lmStarter[s].at = "stop" /\ lmStarter[s].res = "ok" /\ ~lmStarter[s].cancelled
  /\ IF Owns(lmStarter[s].c)
       THEN StartsListener(s, lmStarter[s].want, StopCleared(lmStarter[s].k))
       ELSE /\ ClearStop(lmStarter[s].k)
            /\ lmCurrent' = Without(lmStarter[s].k, lmCurrent)
            /\ lmAttached' = Without(lmStarter[s].k, lmAttached)
            /\ Ends(s)
            /\ UNCHANGED <<lmClient, lmRestart>>
  /\ UNCHANGED <<lmEntry, lmWanted, lmPending, lmDeferred, lmStale, lmCleanup>>

\* The old client did not stop in time or its stop raised: the cleanup takes it over.
ListenerNotStopped(s) ==
  /\ lmStarter[s].at = "stop" /\ lmStarter[s].res \in {"wait", "failed"}
  /\ ~lmStarter[s].cancelled
  /\ IF lmStarter[s].res = "failed" THEN ClearStop(lmStarter[s].k) ELSE UNCHANGED lmStop
  /\ Defer(lmStarter[s].k)
  /\ lmRestart' = (lmStarter[s].want # NoListener)
  /\ ScheduleCleanup
  /\ Ends(s)
  /\ UNCHANGED <<lmEntry, lmWanted, lmPending, lmClient, lmStale>>

\* _async_detach_local_mqtt_client begins.
Detaches(s, stage) ==
  LET k == lmStarter[s].k
  IN  /\ lmAttached' = Without(k, lmAttached)
      /\ StopTask(k)
      /\ lmStarter' = [lmStarter EXCEPT ![s].at = stage, ![s].res = SeenAtOnce(k),
                                        ![s].cancelled = FALSE]

\* async_start returns: done, or the client is detached because the entry has moved on.
ListenerStarted(s) ==
  /\ lmStarter[s].at = "start" /\ ~lmStarter[s].cancelled
  /\ IF Owns(lmStarter[s].c)
       THEN Ends(s) /\ UNCHANGED <<lmAttached, lmStop>>
       ELSE Detaches(s, "detach") /\ UNCHANGED lmLock
  /\ UNCHANGED <<lmEntry, lmCurrent, lmWanted, lmPending, lmClient, lmDeferred, lmStale,
                 lmRestart, lmCleanup>>

Detached(s) ==
  /\ lmStarter[s].at \in {"detach", "undo"} /\ ~lmStarter[s].cancelled
  /\ \/ /\ lmStarter[s].res = "ok"
        /\ ClearStop(lmStarter[s].k)
        /\ lmCurrent' = Without(lmStarter[s].k, lmCurrent)
        /\ UNCHANGED <<lmAttached, lmDeferred, lmRestart, lmCleanup>>
     \/ /\ lmStarter[s].res \in {"wait", "failed"}
        /\ IF lmStarter[s].res = "failed" THEN ClearStop(lmStarter[s].k) ELSE UNCHANGED lmStop
        /\ StopNotSeen(lmStarter[s].k)
        /\ ScheduleCleanup
  /\ Ends(s)
  /\ UNCHANGED <<lmEntry, lmWanted, lmPending, lmClient, lmStale>>

\* The cancellation reaches a starter at its await.
StarterCancelled(s) ==
  /\ lmStarter[s].at # "none" /\ lmStarter[s].cancelled
  /\ \/ /\ lmStarter[s].at \in {"loop", "lock"}
        /\ Ends(s)
        /\ UNCHANGED <<lmAttached, lmCurrent, lmStop, lmDeferred, lmRestart, lmCleanup>>
     \/ /\ lmStarter[s].at = "start"
        /\ Detaches(s, "undo")
        /\ UNCHANGED <<lmLock, lmCurrent, lmDeferred, lmRestart, lmCleanup>>
     \/ /\ lmStarter[s].at \in {"stop", "detach", "undo"}
        /\ StopNotSeen(lmStarter[s].k)
        /\ ScheduleCleanup
        /\ Ends(s)
        /\ UNCHANGED lmStop
  /\ UNCHANGED <<lmEntry, lmWanted, lmPending, lmClient, lmStale>>

-------------------------------------------------------------------------------
(* The entry: setup, changed options, unload.                                *)

\* async_setup_entry schedules the Layer-5 start of a new coordinator.
ListenerSetup ==
  /\ lmEntry.at = "off"
  /\ \E c \in FreshOwners, s \in FreshStarters :
       /\ c = CHOOSE d \in FreshOwners : TRUE
       /\ s = CHOOSE q \in FreshStarters : TRUE
       /\ lmEntry' = [lmEntry EXCEPT !.at = "on", !.c = c]
       /\ lmStarter' = [lmStarter EXCEPT ![s] = [NoStarter EXCEPT !.at = "loop", !.c = c]]
  /\ UNCHANGED <<lmAttached, lmCurrent, lmWanted, lmPending, lmLock, lmClient, lmStop,
                 lmDeferred, lmStale, lmRestart, lmCleanup>>

\* _schedule_layer5_start_if_ready with changed keys: one task applies them all.
ScheduleOptions ==
  /\ lmPending' = TRUE
  /\ IF StartersOf("options") # {} THEN UNCHANGED lmStarter
       ELSE \E s \in FreshStarters :
              /\ s = CHOOSE q \in FreshStarters : TRUE
              /\ lmStarter' = [lmStarter EXCEPT ![s] =
                   [NoStarter EXCEPT !.at = "loop", !.kind = "options", !.c = lmEntry.c]]

OptionsChanged ==
  /\ lmWanted' \in Settings \ {lmWanted}
  /\ IF lmEntry.at = "on" THEN ScheduleOptions ELSE UNCHANGED <<lmPending, lmStarter>>
  /\ UNCHANGED <<lmEntry, lmAttached, lmCurrent, lmLock, lmClient, lmStop, lmDeferred,
                 lmStale, lmRestart, lmCleanup>>

\* The fence goes up and the start task is cancelled.
UnloadFences ==
  /\ lmEntry.at = "on"
  /\ lmEntry' = [lmEntry EXCEPT !.at = "unload"]
  /\ lmStarter' = Cancelled(StartersOf("layer5"))
  /\ UNCHANGED <<lmAttached, lmCurrent, lmWanted, lmPending, lmLock, lmClient, lmStop,
                 lmDeferred, lmStale, lmRestart, lmCleanup>>

\* The start task has ended or is left to the cleanup; then the options task.
UnloadCancelsOptions ==
  /\ lmEntry.at = "unload"
  /\ lmEntry' = [lmEntry EXCEPT !.at = "options"]
  /\ lmStale' = lmStale \cup StartersOf("layer5")
  /\ lmStarter' = Cancelled(StartersOf("options"))
  /\ UNCHANGED <<lmAttached, lmCurrent, lmWanted, lmPending, lmLock, lmClient, lmStop,
                 lmDeferred, lmRestart, lmCleanup>>

\* _clear_option_reconcile_runtime_state, and _async_stop_entry_local_mqtt begins.
UnloadStopsListener ==
  /\ lmEntry.at = "options"
  /\ lmStale' = lmStale \cup StartersOf("options")
  /\ lmPending' = FALSE
  /\ IF ListenerNow = Nobody
       THEN /\ lmEntry' = [lmEntry EXCEPT !.at = "ending"]
            /\ UNCHANGED lmStop
       ELSE /\ lmEntry' = [lmEntry EXCEPT !.at = "stop", !.k = ListenerNow,
                                          !.res = SeenAtOnce(ListenerNow)]
            /\ StopTask(ListenerNow)
  /\ UNCHANGED <<lmAttached, lmCurrent, lmWanted, lmStarter, lmLock, lmClient, lmDeferred,
                 lmRestart, lmCleanup>>

UnloadSeesStop ==
  /\ lmEntry.at = "stop"
  /\ \/ /\ lmEntry.res = "ok"
        /\ ClearStop(lmEntry.k)
        /\ lmCurrent' = Without(lmEntry.k, lmCurrent)
        /\ UNCHANGED <<lmAttached, lmDeferred, lmRestart, lmCleanup>>
     \/ /\ lmEntry.res \in {"wait", "failed"}
        /\ IF lmEntry.res = "failed" THEN ClearStop(lmEntry.k) ELSE UNCHANGED lmStop
        /\ StopNotSeen(lmEntry.k)
        /\ ScheduleCleanup
  /\ lmEntry' = [lmEntry EXCEPT !.at = "ending", !.k = Nobody, !.res = "wait"]
  /\ UNCHANGED <<lmWanted, lmPending, lmStarter, lmLock, lmClient, lmStale>>

\* The coordinator is gone; Home Assistant cancels the entry's background tasks.
UnloadEnds ==
  /\ lmEntry.at = "ending"
  /\ lmEntry' = [lmEntry EXCEPT !.at = "off", !.c = Nobody]
  /\ lmAttached' = Nobody
  /\ lmStarter' = Cancelled(Starters)
  /\ IF lmDeferred \cup lmStale # {} THEN ScheduleCleanup ELSE UNCHANGED lmCleanup
  /\ UNCHANGED <<lmCurrent, lmWanted, lmPending, lmLock, lmClient, lmStop, lmDeferred,
                 lmStale, lmRestart>>

-------------------------------------------------------------------------------
(* Clients and the cleanup task.                                             *)

\* async_stop has taken the runner down, or raises.
StopEnds(k, outcome) ==
  /\ lmStop[k] = "running"
  /\ lmStop' = [lmStop EXCEPT ![k] = outcome]
  /\ lmClient' = [lmClient EXCEPT ![k].runs = @ /\ outcome # "ok"]
  /\ lmStarter' = [s \in Starters |->
       IF lmStarter[s].at \in {"stop", "detach", "undo"} /\ lmStarter[s].k = k
         THEN [lmStarter[s] EXCEPT !.res = outcome] ELSE lmStarter[s]]
  /\ lmEntry' = IF lmEntry.at = "stop" /\ lmEntry.k = k
                  THEN [lmEntry EXCEPT !.res = outcome] ELSE lmEntry
  /\ lmCleanup' = IF lmCleanup.at = "stop" /\ lmCleanup.k = k
                    THEN [lmCleanup EXCEPT !.res = outcome] ELSE lmCleanup
  /\ lmRestart' = (lmRestart \/ outcome = "failed")   \* _stop_with_restart_flag
  /\ UNCHANGED <<lmAttached, lmCurrent, lmWanted, lmPending, lmLock, lmDeferred, lmStale>>

\* The broker refuses the subscription or the client: the runner ends by itself.
ListenerDies(k) ==
  /\ lmClient[k].runs
  /\ lmClient' = [lmClient EXCEPT ![k].runs = FALSE]
  /\ UNCHANGED <<lmEntry, lmAttached, lmCurrent, lmWanted, lmPending, lmStarter, lmLock,
                 lmStop, lmDeferred, lmStale, lmRestart, lmCleanup>>

\* The loop of _async_cleanup_stale_supplemental: stale tasks are cancelled first.
CleanupLooks ==
  /\ lmCleanup.at = "loop" /\ lmStale # {}
  /\ lmStarter' = Cancelled(lmStale)
  /\ lmCleanup' = [NoCleanup EXCEPT !.at = "tasks", !.tasks = lmStale]
  /\ UNCHANGED <<lmEntry, lmAttached, lmCurrent, lmWanted, lmPending, lmLock, lmClient, lmStop,
                 lmDeferred, lmStale, lmRestart>>

\* The pass over the deferred clients todo: the next one, or the end of the pass.  stops
\* is lmStop as the caller leaves it; whatever was deferred meanwhile stays.
CleanupPass(todo, kept, seen, stops) ==
  \/ /\ todo # {}
     /\ LET k == CHOOSE j \in todo : TRUE
        IN  /\ lmStop' = [stops EXCEPT ![k] = IF @ = "none" THEN "running" ELSE @]
            /\ lmCleanup' = [NoCleanup EXCEPT !.at = "stop", !.k = k, !.res = SeenAtOnce(k),
                                !.todo = todo \ {k}, !.kept = kept, !.seen = seen]
     /\ UNCHANGED lmDeferred
  \/ /\ todo = {}
     /\ lmStop' = stops
     /\ lmDeferred' = (lmDeferred \ seen) \cup kept
     /\ lmCleanup' = [NoCleanup EXCEPT !.at =
                        IF lmDeferred' \cup lmStale' # {} THEN "sleep" ELSE "loop"]

CleanupStops ==
  /\ lmCleanup.at = "loop" /\ lmStale = {} /\ lmDeferred # {}
  /\ UNCHANGED lmStale
  /\ CleanupPass(lmDeferred, {}, lmDeferred, lmStop)
  /\ UNCHANGED <<lmEntry, lmAttached, lmCurrent, lmWanted, lmPending, lmStarter, lmLock,
                 lmClient, lmRestart>>

\* The stale tasks have ended, or some have not in time: those are kept for later.
CleanupSeesTasks ==
  /\ lmCleanup.at = "tasks"
  /\ LET alive == {s \in lmCleanup.tasks : lmStarter[s].at # "none"}
     IN  /\ lmStale' = (lmStale \ lmCleanup.tasks) \cup alive
         /\ IF alive # {}
              THEN /\ lmCleanup' = [NoCleanup EXCEPT !.at = "sleep"]
                   /\ UNCHANGED <<lmStop, lmDeferred>>
              ELSE CleanupPass(lmDeferred, {}, lmDeferred, lmStop)
  /\ UNCHANGED <<lmEntry, lmAttached, lmCurrent, lmWanted, lmPending, lmStarter, lmLock,
                 lmClient, lmRestart>>

CleanupSeesStop ==
  /\ lmCleanup.at = "stop"
  /\ LET k == lmCleanup.k
     IN  \/ /\ lmCleanup.res = "ok"
            /\ UNCHANGED <<lmStale, lmRestart>>
            /\ CleanupPass(lmCleanup.todo, lmCleanup.kept, lmCleanup.seen, StopCleared(k))
         \/ /\ lmCleanup.res = "failed"
            /\ UNCHANGED lmStale
            /\ lmRestart' = TRUE
            /\ CleanupPass(lmCleanup.todo, lmCleanup.kept \cup {k}, lmCleanup.seen, StopCleared(k))
         \/ /\ lmCleanup.res = "wait"   \* the time limit; k is deferred already
            /\ UNCHANGED lmStale
            /\ lmRestart' = TRUE
            /\ CleanupPass(lmCleanup.todo, lmCleanup.kept \cup {k}, lmCleanup.seen, lmStop)
  /\ UNCHANGED <<lmEntry, lmAttached, lmCurrent, lmWanted, lmPending, lmStarter, lmLock,
                 lmClient>>

CleanupAwakes ==
  /\ lmCleanup.at = "sleep"
  /\ lmCleanup' = [lmCleanup EXCEPT !.at = "loop"]
  /\ UNCHANGED <<lmEntry, lmAttached, lmCurrent, lmWanted, lmPending, lmStarter, lmLock,
                 lmClient, lmStop, lmDeferred, lmStale, lmRestart>>

\* Nothing is left: _restart_local_mqtt_after_supplemental_cleanup.
CleanupEnds ==
  /\ lmCleanup.at = "loop" /\ lmStale = {} /\ lmDeferred = {}
  /\ lmCleanup' = NoCleanup
  /\ lmRestart' = FALSE
  /\ IF lmRestart /\ lmEntry.at = "on" THEN ScheduleOptions ELSE UNCHANGED <<lmPending, lmStarter>>
  /\ UNCHANGED <<lmEntry, lmAttached, lmCurrent, lmWanted, lmLock, lmClient, lmStop,
                 lmDeferred, lmStale>>

-------------------------------------------------------------------------------
StarterStep(s) ==
  \/ StarterBegins(s) \/ MustNotStart(s) \/ KeepsListener(s) \/ StopsListener(s)
  \/ StartsAnew(s) \/ ListenerStopped(s) \/ ListenerNotStopped(s)
  \/ ListenerStarted(s) \/ Detached(s) \/ StarterCancelled(s)

UnloadStep == UnloadCancelsOptions \/ UnloadStopsListener \/ UnloadSeesStop \/ UnloadEnds

CleanupStep == CleanupLooks \/ CleanupStops \/ CleanupSeesTasks \/ CleanupSeesStop
               \/ CleanupAwakes \/ CleanupEnds

LmNext ==
  \/ \E s \in Starters : StarterStep(s)
  \/ ListenerSetup \/ OptionsChanged \/ UnloadFences \/ UnloadStep
  \/ CleanupStep
  \/ \E k \in Clients : ListenerDies(k) \/ \E o \in {"ok", "failed"} : StopEnds(k, o)

LmSpec == LmInit /\ [][LmNext]_lmVars

(***************************************************************************)
(* Tasks run, waits end, and a stop that raises does not raise for ever.    *)
(***************************************************************************)
LmFairness ==
  /\ WF_lmVars(ListenerSetup) /\ WF_lmVars(UnloadStep) /\ WF_lmVars(CleanupStep)
  /\ \A s \in Starters : WF_lmVars(StarterStep(s))
  /\ \A k \in Clients :
       /\ WF_lmVars(StopEnds(k, "ok") \/ StopEnds(k, "failed"))
       /\ SF_lmVars(StopEnds(k, "ok"))

-------------------------------------------------------------------------------
(* Properties.                                                               *)

\* The broker never serves two listeners of one entry, which would deliver every
\* frame twice, and none that nobody will stop.  A new client starts only when the
\* one before it has stopped, although an unload, a cancelled start and the cleanup
\* stop clients without the lock; and a client that runs is the loaded entry's, or
\* an unload, a starter or the cleanup has it in hand.
OneListener ==
  /\ Cardinality({k \in Clients : lmClient[k].runs}) <= 1
  /\ \A k \in Clients : lmClient[k].runs =>
       \/ k \in lmDeferred /\ lmCleanup.at # "none"
       \/ lmEntry.at # "off" /\ k \in {ListenerNow, lmEntry.k}
       \/ \E s \in Starters : lmStarter[s].at # "none" /\ lmStarter[s].k = k

\* A start that raises, or a runner that the broker ends: nothing repeats those, so the
\* listener is only promised to behaviours without them.
ListenerLost ==
  \/ \E s \in Starters : lmStarter[s].at \in {"lock", "stop"} /\ lmStarter'[s].at = "detach"
  \/ \E k \in Clients : ListenerDies(k)

LmCalmNext == LmNext /\ ~ListenerLost

\* Once options and unloads come to rest, the listener that runs is the one the
\* options ask for: no change is lost in a pending set, behind a client that
\* would not stop, or with a starter that was cancelled.
ListenerConverges ==
  <>[][~OptionsChanged /\ ~UnloadFences]_lmVars
    => <>[]( IF lmWanted = NoListener
               THEN \A k \in Clients : ~lmClient[k].runs
               ELSE /\ ListenerNow # Nobody
                    /\ lmClient[ListenerNow] = [runs |-> TRUE, settings |-> lmWanted] )
===============================================================================
