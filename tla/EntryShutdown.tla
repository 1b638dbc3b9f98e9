---------------------------- MODULE EntryShutdown ----------------------------
(***************************************************************************)
(* The coordinators of one config entry (__init__.py): setup makes one,     *)
(* unload and the rollback of a failed setup fence it and shut it down for  *)
(* a limited time only, and a reaper goes on with what did not stop.        *)
(*                                                                          *)
(* A coordinator and a task are objects: their values are used again when   *)
(* nothing refers to them any more, so there may be any number of reloads.  *)
(***************************************************************************)
EXTENDS Naturals, FiniteSets

CONSTANTS
  Coordinators,
  NoCoordinator,
  ShutdownTasks,    \* tasks that run JackerySolarVaultCoordinator.async_shutdown
  NoShutdown

ASSUME EntryAssumption == NoCoordinator \notin Coordinators /\ NoShutdown \notin ShutdownTasks

VARIABLES
  entryFlow,        \* the setup or unload in progress; HA runs one at a time
  runtimeData,      \* entry.runtime_data
  unloading,        \* bucket[_UNLOADING_COORDINATOR_RUNTIME_KEY], the fence
  shutdownRecord,   \* bucket[_COORDINATOR_SHUTDOWN_RUNTIME_KEY]
  shutdownTask,     \* each task
  baseShutdown,     \* each coordinator and its _base_shutdown_task
  shutdownReaper,   \* _async_reap_coordinator_shutdown
  hassRunning       \* hass.state is CoreState.running; FALSE while it starts

entryVars == <<entryFlow, runtimeData, unloading, shutdownRecord, shutdownTask,
               baseShutdown, shutdownReaper, hassRunning>>

FlowStages == {"idle", "release", "construct", "setup", "loaded", "unload",
               "teardown", "teardown_wait", "rollback", "rollback_wait"}

NoRecord  == [c |-> NoCoordinator, t |-> NoShutdown]
RecordOf  == [c : Coordinators, t : ShutdownTasks] \cup {NoRecord}

EntryTypeOK ==
  /\ entryFlow \in [at : FlowStages, c : Coordinators \cup {NoCoordinator},
                    t : ShutdownTasks \cup {NoShutdown}]
  /\ runtimeData \in Coordinators \cup {NoCoordinator}
  /\ unloading \in Coordinators \cup {NoCoordinator}
  /\ shutdownRecord \in RecordOf
  /\ shutdownTask \in [ShutdownTasks ->
       [c : Coordinators \cup {NoCoordinator},
        at : {"unused", "created", "waiting", "ok", "failed"}]]
  /\ baseShutdown \in [Coordinators -> {"unused", "live", "stopping", "stopped"}]
  /\ shutdownReaper \in [at : {"none", "wait", "sleep"},
                         c : Coordinators \cup {NoCoordinator},
                         t : ShutdownTasks \cup {NoShutdown}]
  /\ hassRunning \in BOOLEAN

NoFlow   == [at |-> "idle", c |-> NoCoordinator, t |-> NoShutdown]
NoReaper == [at |-> "none", c |-> NoCoordinator, t |-> NoShutdown]

EntryInit ==
  /\ entryFlow = NoFlow
  /\ runtimeData = NoCoordinator
  /\ unloading = NoCoordinator
  /\ shutdownRecord = NoRecord
  /\ shutdownTask = [t \in ShutdownTasks |-> [c |-> NoCoordinator, at |-> "unused"]]
  /\ baseShutdown = [c \in Coordinators |-> "unused"]
  /\ shutdownReaper = NoReaper
  /\ hassRunning \in BOOLEAN

-------------------------------------------------------------------------------
(* Objects and the operations on the runtime bucket.                         *)

TaskDone(t) == shutdownTask[t].at \in {"ok", "failed"}

FreshCoordinators ==
  {c \in Coordinators :
     /\ baseShutdown[c] \in {"unused", "stopped"}
     /\ c \notin {entryFlow.c, runtimeData, unloading, shutdownRecord.c, shutdownReaper.c}}

FreshTasks ==
  {t \in ShutdownTasks :
     /\ shutdownTask[t].at \notin {"created", "waiting"}
     /\ t \notin {entryFlow.t, shutdownRecord.t, shutdownReaper.t}}

FlowAt(stage, c, t) == entryFlow' = [at |-> stage, c |-> c, t |-> t]

\* _create_coordinator_shutdown_task: one of the tasks nobody refers to.
NewShutdownTask(c, t) ==
  /\ t = CHOOSE u \in FreshTasks : TRUE
  /\ shutdownTask' = [shutdownTask EXCEPT ![t] = [c |-> c, at |-> "created"]]
  /\ shutdownRecord' = [c |-> c, t |-> t]

(***************************************************************************)
(* _async_shutdown_coordinator_bounded up to its wait: it joins the task    *)
(* that is on record for the coordinator, finished or not, gives up if      *)
(* another coordinator's task is still running, or starts one.              *)
(***************************************************************************)
ShutdownBounded(c, stage) ==
  \/ /\ shutdownRecord.c = c
     /\ FlowAt(stage, c, shutdownRecord.t)
     /\ UNCHANGED <<shutdownRecord, shutdownTask>>
  \/ /\ shutdownRecord.c \notin {c, NoCoordinator} /\ ~TaskDone(shutdownRecord.t)
     /\ entryFlow' = NoFlow
     /\ UNCHANGED <<shutdownRecord, shutdownTask>>
  \/ /\ shutdownRecord.c # c
     /\ shutdownRecord.c # NoCoordinator => TaskDone(shutdownRecord.t)
     /\ \E t \in FreshTasks : NewShutdownTask(c, t) /\ FlowAt(stage, c, t)

ScheduleReaper_Never(c, t) == UNCHANGED shutdownReaper

\* _schedule_coordinator_shutdown_reaper: only one, and only while HA runs.
ScheduleReaper(c, t) ==
  shutdownReaper' = IF hassRunning /\ shutdownReaper.at = "none"
                      THEN [at |-> "wait", c |-> c, t |-> t]
                      ELSE shutdownReaper

ClearRecord(c, t) ==
  shutdownRecord' = IF shutdownRecord = [c |-> c, t |-> t] THEN NoRecord ELSE shutdownRecord

ClearReferences_Any(c) == unloading' = NoCoordinator /\ runtimeData' = NoCoordinator

\* _clear_entry_coordinator_runtime_references: only what still refers to c.
ClearReferences(c) ==
  /\ unloading' = IF unloading = c THEN NoCoordinator ELSE unloading
  /\ runtimeData' = IF runtimeData = c THEN NoCoordinator ELSE runtimeData

-------------------------------------------------------------------------------
(* async_setup_entry and async_unload_entry.                                 *)

\* _async_release_fenced_coordinator: a fenced coordinator is shut down first.
SetupReleases ==
  /\ entryFlow.at = "idle" /\ unloading # NoCoordinator
  /\ ShutdownBounded(unloading, "release")
  /\ UNCHANGED <<runtimeData, unloading, baseShutdown, shutdownReaper, hassRunning>>

SetupNotFenced ==
  /\ entryFlow.at = "idle" /\ unloading = NoCoordinator
  /\ FlowAt("construct", NoCoordinator, NoShutdown)
  /\ UNCHANGED <<runtimeData, unloading, shutdownRecord, shutdownTask, baseShutdown,
                 shutdownReaper, hassRunning>>

Released ==
  /\ entryFlow.at = "release" /\ shutdownTask[entryFlow.t].at = "ok"
  /\ ClearRecord(entryFlow.c, entryFlow.t)
  /\ ClearReferences(entryFlow.c)
  /\ FlowAt("construct", NoCoordinator, NoShutdown)
  /\ UNCHANGED <<shutdownTask, baseShutdown, shutdownReaper, hassRunning>>

\* The new coordinator, after an old start task has been cancelled.
SetupConstructs ==
  /\ entryFlow.at = "construct"
  /\ FreshCoordinators # {}
  /\ LET c == CHOOSE d \in FreshCoordinators : TRUE
     IN  /\ runtimeData' = c
         /\ baseShutdown' = [baseShutdown EXCEPT ![c] = "live"]
         /\ FlowAt("setup", c, NoShutdown)
  /\ UNCHANGED <<unloading, shutdownRecord, shutdownTask, shutdownReaper, hassRunning>>

SetupSucceeds ==
  /\ entryFlow.at = "setup"
  /\ FlowAt("loaded", entryFlow.c, NoShutdown)
  /\ UNCHANGED <<runtimeData, unloading, shutdownRecord, shutdownTask, baseShutdown,
                 shutdownReaper, hassRunning>>

\* An error, a time limit or a cancellation: _async_rollback_entry_setup.
SetupFails ==
  /\ entryFlow.at = "setup"
  /\ unloading' = entryFlow.c
  /\ FlowAt("rollback", entryFlow.c, NoShutdown)
  /\ UNCHANGED <<runtimeData, shutdownRecord, shutdownTask, baseShutdown, shutdownReaper,
                 hassRunning>>

UnloadBegins ==
  /\ entryFlow.at = "loaded"
  /\ FlowAt("unload", runtimeData, NoShutdown)
  /\ UNCHANGED <<runtimeData, unloading, shutdownRecord, shutdownTask, baseShutdown,
                 shutdownReaper, hassRunning>>

\* async_unload_platforms returns FALSE, or True and the fence goes up.
PlatformsUnload ==
  /\ entryFlow.at = "unload"
  /\ \/ FlowAt("loaded", entryFlow.c, NoShutdown) /\ UNCHANGED unloading
     \/ FlowAt("teardown", entryFlow.c, NoShutdown) /\ unloading' = entryFlow.c
  /\ UNCHANGED <<runtimeData, shutdownRecord, shutdownTask, baseShutdown, shutdownReaper,
                 hassRunning>>

\* The start tasks and the local MQTT client have stopped or have been set aside.
FlowShutsDown ==
  /\ entryFlow.at \in {"teardown", "rollback"}
  /\ ShutdownBounded(entryFlow.c,
                     IF entryFlow.at = "teardown" THEN "teardown_wait" ELSE "rollback_wait")
  /\ UNCHANGED <<runtimeData, unloading, baseShutdown, shutdownReaper, hassRunning>>

\* Platforms that do not unload, an error or a cancellation before the shutdown.
FlowGivesUp ==
  /\ entryFlow.at \in {"teardown", "rollback"}
  /\ entryFlow' = NoFlow
  /\ UNCHANGED <<runtimeData, unloading, shutdownRecord, shutdownTask, baseShutdown,
                 shutdownReaper, hassRunning>>

FlowShutDown ==
  /\ entryFlow.at \in {"teardown_wait", "rollback_wait"}
  /\ shutdownTask[entryFlow.t].at = "ok"
  /\ ClearRecord(entryFlow.c, entryFlow.t)
  /\ ClearReferences(entryFlow.c)
  /\ entryFlow' = NoFlow
  /\ UNCHANGED <<shutdownTask, baseShutdown, shutdownReaper, hassRunning>>

\* The shutdown failed, or it is the time limit, or the flow's task is cancelled.
ShutdownNotSeen ==
  /\ entryFlow.at \in {"release", "teardown_wait", "rollback_wait"}
  /\ ScheduleReaper(entryFlow.c, entryFlow.t)
  /\ entryFlow' = NoFlow
  /\ UNCHANGED <<runtimeData, unloading, shutdownRecord, shutdownTask, baseShutdown,
                 hassRunning>>

-------------------------------------------------------------------------------
(* Shutdown tasks, their shared base shutdown, and the reaper.               *)

\* async_shutdown starts the base shutdown of its coordinator, or joins it.
ShutdownTaskRuns(t) ==
  /\ shutdownTask[t].at = "created"
  /\ LET c == shutdownTask[t].c
     IN  IF baseShutdown[c] = "stopped"
           THEN /\ shutdownTask' = [shutdownTask EXCEPT ![t].at = "ok"]
                /\ UNCHANGED baseShutdown
           ELSE /\ shutdownTask' = [shutdownTask EXCEPT ![t].at = "waiting"]
                /\ baseShutdown' = [baseShutdown EXCEPT ![c] = "stopping"]
  /\ UNCHANGED <<entryFlow, runtimeData, unloading, shutdownRecord, shutdownReaper, hassRunning>>

\* The base shutdown returns or raises, and the tasks that wait for it with it.
BaseShutdownEnds(c, ok) ==
  /\ baseShutdown[c] = "stopping"
  /\ baseShutdown' = [baseShutdown EXCEPT ![c] = IF ok THEN "stopped" ELSE "live"]
  /\ shutdownTask' = [t \in ShutdownTasks |->
       IF shutdownTask[t] = [c |-> c, at |-> "waiting"]
         THEN [c |-> c, at |-> IF ok THEN "ok" ELSE "failed"]
         ELSE shutdownTask[t]]
  /\ UNCHANGED <<entryFlow, runtimeData, unloading, shutdownRecord, shutdownReaper, hassRunning>>

\* _release_reaped_coordinator
ReaperReleases ==
  /\ shutdownReaper.at = "wait" /\ shutdownTask[shutdownReaper.t].at = "ok"
  /\ ClearRecord(shutdownReaper.c, shutdownReaper.t)
  /\ ClearReferences(shutdownReaper.c)
  /\ shutdownReaper' = NoReaper
  /\ UNCHANGED <<entryFlow, shutdownTask, baseShutdown, hassRunning>>

\* _shutdown_reaper_still_owns_runtime after a failure.
ReaperSeesFailure ==
  /\ shutdownReaper.at = "wait" /\ shutdownTask[shutdownReaper.t].at = "failed"
  /\ IF shutdownReaper.c \in {unloading, runtimeData}
       THEN /\ shutdownReaper' = [shutdownReaper EXCEPT !.at = "sleep"]
            /\ UNCHANGED shutdownRecord
       ELSE /\ shutdownReaper' = NoReaper
            /\ ClearRecord(shutdownReaper.c, shutdownReaper.t)
  /\ UNCHANGED <<entryFlow, runtimeData, unloading, shutdownTask, baseShutdown, hassRunning>>

\* _next_coordinator_shutdown_task after the pause.
ReaperRetries ==
  /\ shutdownReaper.at = "sleep"
  /\ LET c == shutdownReaper.c
         t == shutdownReaper.t
     IN  \/ /\ shutdownRecord.c = c /\ shutdownRecord.t # t
            /\ shutdownReaper' = [shutdownReaper EXCEPT !.at = "wait", !.t = shutdownRecord.t]
            /\ UNCHANGED <<shutdownRecord, shutdownTask>>
         \/ /\ shutdownRecord.c # c
            /\ shutdownReaper' = NoReaper
            /\ UNCHANGED <<shutdownRecord, shutdownTask>>
         \/ /\ shutdownRecord = [c |-> c, t |-> t]
            /\ \E u \in FreshTasks :
                 /\ NewShutdownTask(c, u)
                 /\ shutdownReaper' = [shutdownReaper EXCEPT !.at = "wait", !.t = u]
  /\ UNCHANGED <<entryFlow, runtimeData, unloading, baseShutdown, hassRunning>>

HassStarted ==
  /\ ~hassRunning
  /\ hassRunning' = TRUE
  /\ UNCHANGED <<entryFlow, runtimeData, unloading, shutdownRecord, shutdownTask,
                 baseShutdown, shutdownReaper>>

ReaperStep == ReaperReleases \/ ReaperSeesFailure \/ ReaperRetries

FlowStep ==
  \/ SetupReleases \/ SetupNotFenced \/ Released \/ SetupConstructs
  \/ SetupSucceeds \/ SetupFails
  \/ PlatformsUnload
  \/ FlowShutsDown \/ FlowGivesUp \/ FlowShutDown \/ ShutdownNotSeen

EntryNext ==
  \/ FlowStep
  \/ UnloadBegins
  \/ \E t \in ShutdownTasks : ShutdownTaskRuns(t)
  \/ \E c \in Coordinators, ok \in BOOLEAN : BaseShutdownEnds(c, ok)
  \/ ReaperStep
  \/ HassStarted

EntrySpec == EntryInit /\ [][EntryNext]_entryVars

(***************************************************************************)
(* Home Assistant finishes its start, calls a failed setup again and ends   *)
(* every call; a base shutdown may raise, but not for ever.                 *)
(***************************************************************************)
EntryFairness ==
  /\ WF_entryVars(HassStarted)
  /\ WF_entryVars(FlowStep)
  /\ WF_entryVars(ReaperStep)
  /\ \A t \in ShutdownTasks : WF_entryVars(ShutdownTaskRuns(t))
  /\ \A c \in Coordinators :
       /\ WF_entryVars(\E ok \in BOOLEAN : BaseShutdownEnds(c, ok))
       /\ SF_entryVars(BaseShutdownEnds(c, TRUE))

-------------------------------------------------------------------------------
(* Properties.                                                               *)

\* No two coordinators are in operation at once ("deferring setup to prevent
\* overlapping HTTP runtimes"), and one that still is can be found and stopped: it is
\* the entry's, or the fence holds it, whatever timed out, raised or was cut.  In
\* operation until its base shutdown has ended: HTTP update tasks, cancelled last,
\* may still unwind then.
OneRuntime ==
  LET running == {c \in Coordinators : baseShutdown[c] \in {"live", "stopping"}}
  IN  /\ Cardinality(running) <= 1
      /\ running \subseteq {runtimeData, unloading}

\* A setup that Home Assistant keeps retrying is never kept out for good by the
\* fence of an earlier coordinator: the reaper repeats a failed shutdown and the
\* record, the fence and the reaper do not block each other.
SetupProceeds == entryFlow.at = "idle" ~> entryFlow.at = "setup"
===============================================================================
