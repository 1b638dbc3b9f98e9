--------------------------- MODULE Account_proofs -----------------------------
(*****************************************************************************)
(* Theorems about the parts of a config entry that concern its account: the  *)
(* HTTP session (ApiSession), the start and the shutdown of its coordinators *)
(* (EntryShutdown), the commands (CommandDispatch), the daily anchors        *)
(* (DailyAnchor) and the statistics backfill (DayBackfill).                  *)
(*****************************************************************************)
EXTENDS MCAccount, Queues_proofs, FiniteSetTheorems, TLAPS

-------------------------------------------------------------------------------
(***************************************************************************)
(* Start, shutdown and reaper, for any coordinators and shutdown tasks      *)
(* (EntryShutdown).                                                         *)
(***************************************************************************)

\* The coordinators that still poll the cloud.
Running == {c \in Coordinators : baseShutdown[c] \in {"live", "stopping"}}

Owning  == {"setup", "loaded", "unload"}
Waiting == {"release", "teardown_wait", "rollback_wait"}
Fencing == Waiting \cup {"teardown", "rollback"}

\* The tasks a reference names are the coordinator's, and a task that has ended
\* well has ended its coordinator's base shutdown.
Names(c, t) ==
  /\ c \in Coordinators /\ t \in ShutdownTasks
  /\ shutdownTask[t].c = c
  /\ shutdownTask[t].at = "ok" => baseShutdown[c] = "stopped"

\* Only the owner may be running while there is one; otherwise only what is fenced.
StageInv ==
  /\ entryFlow.at \in Owning =>
       /\ entryFlow.c \in Coordinators /\ runtimeData = entryFlow.c
       /\ baseShutdown[entryFlow.c] = "live"
       /\ entryFlow.c \notin {shutdownRecord.c, shutdownReaper.c}
       /\ Running \subseteq {entryFlow.c}
  /\ entryFlow.at = "construct" => Running = {}
  /\ entryFlow.at \notin Owning => Running \subseteq {unloading}
  /\ entryFlow.at \in Fencing =>
       entryFlow.c \in Coordinators /\ unloading \in {entryFlow.c, NoCoordinator}

NamesInv ==
  /\ entryFlow.at \in Waiting => Names(entryFlow.c, entryFlow.t)
  /\ shutdownRecord # NoRecord => Names(shutdownRecord.c, shutdownRecord.t)
  /\ shutdownReaper.at # "none" => Names(shutdownReaper.c, shutdownReaper.t)
  /\ shutdownReaper.at = "sleep" => shutdownTask[shutdownReaper.t].at = "failed"

\* A task that is not over is on record.
PendingInv ==
  \A t \in ShutdownTasks :
    shutdownTask[t].at \in {"created", "waiting"} =>
      shutdownRecord = [c |-> shutdownTask[t].c, t |-> t]

\* What is referred to has been constructed.
UsedInv ==
  \A c \in {entryFlow.c, unloading, shutdownRecord.c, shutdownReaper.c} \cap Coordinators :
    baseShutdown[c] # "unused"

RuntimeInv == EntryTypeOK /\ StageInv /\ NamesInv /\ PendingInv /\ UsedInv

-------------------------------------------------------------------------------
(* Types.                                                                    *)

LEMMA TypeInit == EntryInit => EntryTypeOK
BY DEF EntryInit, EntryTypeOK, NoFlow, NoRecord, NoReaper, RecordOf, FlowStages

\* A record names a coordinator and its task, or nothing.
LEMMA RecordParts ==
  ASSUME EntryTypeOK
  PROVE  /\ shutdownRecord.c # NoCoordinator <=> shutdownRecord # NoRecord
         /\ shutdownRecord # NoRecord =>
              shutdownRecord.c \in Coordinators /\ shutdownRecord.t \in ShutdownTasks
BY EntryAssumption DEF EntryTypeOK, RecordOf, NoRecord

\* A fresh task is a task, and putting it on record keeps the types.
LEMMA NewTaskType ==
  ASSUME EntryTypeOK, NEW c \in Coordinators, NEW t \in FreshTasks, NewShutdownTask(c, t)
  PROVE  /\ t \in ShutdownTasks
         /\ shutdownRecord' \in RecordOf
         /\ shutdownTask' \in [ShutdownTasks ->
              [c : Coordinators \cup {NoCoordinator},
               at : {"unused", "created", "waiting", "ok", "failed"}]]
BY DEF EntryTypeOK, NewShutdownTask, FreshTasks, RecordOf

\* So does asking for a bounded shutdown.
LEMMA BoundedType ==
  ASSUME EntryTypeOK, NEW c \in Coordinators, NEW stage \in FlowStages, ShutdownBounded(c, stage)
  PROVE  /\ shutdownRecord' \in RecordOf
         /\ shutdownTask' \in [ShutdownTasks ->
              [c : Coordinators \cup {NoCoordinator},
               at : {"unused", "created", "waiting", "ok", "failed"}]]
         /\ entryFlow' \in [at : FlowStages, c : Coordinators \cup {NoCoordinator},
                            t : ShutdownTasks \cup {NoShutdown}]
<1>1. CASE UNCHANGED <<shutdownRecord, shutdownTask>>
  BY <1>1 DEF ShutdownBounded, EntryTypeOK, FlowAt, NoFlow, RecordOf, NoRecord, FlowStages,
              FreshTasks
<1>2. CASE \E t \in FreshTasks : NewShutdownTask(c, t) /\ FlowAt(stage, c, t)
  BY <1>2, NewTaskType DEF FlowAt
<1> QED BY <1>1, <1>2 DEF ShutdownBounded

LEMMA TypeNext == RuntimeInv /\ [EntryNext]_entryVars => EntryTypeOK'
<1> SUFFICES ASSUME RuntimeInv, [EntryNext]_entryVars PROVE EntryTypeOK'
  OBVIOUS
<1>0. EntryTypeOK /\ NoRecord \in RecordOf
  BY DEF RuntimeInv, RecordOf
<1> USE DEF FlowStages
<1>1. CASE SetupReleases \/ FlowShutsDown
  <2>1. \E c \in Coordinators, stage \in FlowStages : ShutdownBounded(c, stage)
    BY <1>0, <1>1 DEF SetupReleases, FlowShutsDown, RuntimeInv, StageInv, Fencing, EntryTypeOK
  <2> QED BY <1>0, <1>1, <2>1, BoundedType DEF SetupReleases, FlowShutsDown, EntryTypeOK
<1>2. CASE SetupNotFenced \/ SetupSucceeds \/ UnloadBegins \/ PlatformsUnload \/ SetupFails
  BY <1>0, <1>2 DEF SetupNotFenced, SetupSucceeds, UnloadBegins, PlatformsUnload, SetupFails,
                    FlowAt, EntryTypeOK
<1>3. CASE Released \/ FlowShutDown \/ FlowGivesUp
  BY <1>0, <1>3 DEF Released, FlowShutDown, FlowGivesUp, ClearRecord, ClearReferences, FlowAt,
                    NoFlow, EntryTypeOK
<1>4. CASE ShutdownNotSeen
  BY <1>0, <1>4 DEF ShutdownNotSeen, ScheduleReaper, NoFlow, EntryTypeOK
<1>5. CASE SetupConstructs
  BY <1>0, <1>5 DEF SetupConstructs, FreshCoordinators, FlowAt, EntryTypeOK
<1>6. ASSUME NEW t \in ShutdownTasks, ShutdownTaskRuns(t) PROVE EntryTypeOK'
  BY <1>0, <1>6 DEF ShutdownTaskRuns, EntryTypeOK
<1>7. ASSUME NEW c \in Coordinators, NEW ok \in BOOLEAN, BaseShutdownEnds(c, ok)
      PROVE  EntryTypeOK'
  BY <1>0, <1>7 DEF BaseShutdownEnds, EntryTypeOK
<1>8. CASE ReaperReleases \/ ReaperSeesFailure
  BY <1>0, <1>8 DEF ReaperReleases, ReaperSeesFailure, ClearRecord, ClearReferences, NoReaper,
                    EntryTypeOK
<1>9. CASE ReaperRetries
  <2>1. shutdownReaper.c \in Coordinators
    BY <1>9 DEF ReaperRetries, RuntimeInv, NamesInv, Names
  <2>2. CASE \E u \in FreshTasks :
               /\ NewShutdownTask(shutdownReaper.c, u)
               /\ shutdownReaper' = [shutdownReaper EXCEPT !.at = "wait", !.t = u]
    BY <1>0, <1>9, <2>1, <2>2, NewTaskType DEF ReaperRetries, EntryTypeOK
  <2>3. CASE shutdownReaper' = NoReaper /\ UNCHANGED <<shutdownRecord, shutdownTask>>
    BY <1>0, <1>9, <2>3 DEF ReaperRetries, NoReaper, EntryTypeOK
  <2>4. CASE /\ shutdownRecord.c = shutdownReaper.c
             /\ shutdownReaper' = [shutdownReaper EXCEPT !.at = "wait", !.t = shutdownRecord.t]
             /\ UNCHANGED <<shutdownRecord, shutdownTask>>
    <3>1. shutdownRecord.t \in ShutdownTasks
      BY <1>0, <2>1, <2>4, EntryAssumption, RecordParts
    <3> QED BY <1>0, <1>9, <2>4, <3>1 DEF ReaperRetries, EntryTypeOK
  <2> QED BY <1>9, <2>2, <2>3, <2>4 DEF ReaperRetries
<1>10. CASE HassStarted
  BY <1>0, <1>10 DEF HassStarted, EntryTypeOK
<1>11. CASE UNCHANGED entryVars
  BY <1>0, <1>11 DEF entryVars, EntryTypeOK
<1> QED BY <1>1, <1>2, <1>3, <1>4, <1>5, <1>6, <1>7, <1>8, <1>9, <1>10, <1>11
        DEF EntryNext, FlowStep, ReaperStep

-------------------------------------------------------------------------------
(* The steps.                                                                *)

RestInv == StageInv /\ NamesInv /\ PendingInv /\ UsedInv

LEMMA RestInit == EntryInit => RestInv
BY EntryAssumption
   DEF EntryInit, RestInv, StageInv, NamesInv, PendingInv, UsedInv, Running, NoFlow, NoRecord,
       NoReaper, Owning, Fencing, Waiting

(* A task made for c when the one on record, if any, is over: it goes on     *)
(* record, and no reference is to a task that is used again.                 *)
LEMMA NewTaskStep ==
  ASSUME RuntimeInv, NEW c \in Coordinators, NEW t \in FreshTasks, NewShutdownTask(c, t),
         shutdownRecord # NoRecord => TaskDone(shutdownRecord.t),
         baseShutdown[c] # "unused", UNCHANGED baseShutdown
  PROVE  /\ PendingInv' /\ Names(c, t)'
         /\ t \in ShutdownTasks /\ shutdownRecord' = [c |-> c, t |-> t]
         /\ \A u \in ShutdownTasks \ {t} : shutdownTask'[u] = shutdownTask[u]
<1>1. /\ t \in ShutdownTasks /\ shutdownTask[t].at \notin {"created", "waiting"}
      /\ shutdownRecord' = [c |-> c, t |-> t]
      /\ shutdownTask' = [shutdownTask EXCEPT ![t] = [c |-> c, at |-> "created"]]
      /\ EntryTypeOK
  BY DEF NewShutdownTask, FreshTasks, RuntimeInv
<1>2. /\ shutdownTask'[t] = [c |-> c, at |-> "created"]
      /\ \A u \in ShutdownTasks \ {t} : shutdownTask'[u] = shutdownTask[u]
  BY <1>1 DEF EntryTypeOK
<1>3. \A u \in ShutdownTasks : shutdownTask[u].at \notin {"created", "waiting"}
  <2> SUFFICES ASSUME NEW u \in ShutdownTasks, shutdownTask[u].at \in {"created", "waiting"}
               PROVE  FALSE
    OBVIOUS
  <2>1. shutdownRecord = [c |-> shutdownTask[u].c, t |-> u]
    BY DEF RuntimeInv, PendingInv
  <2>2. shutdownRecord # NoRecord
    BY <2>1, EntryAssumption DEF NoRecord
  <2> QED BY <2>1, <2>2 DEF TaskDone
<1> QED BY <1>1, <1>2, <1>3 DEF PendingInv, Names

\* A flow that asks for a bounded shutdown of the fenced coordinator.
LEMMA BoundedStep ==
  ASSUME RuntimeInv, NEW c \in Coordinators, NEW stage \in Waiting, ShutdownBounded(c, stage),
         entryFlow.at \notin Owning, unloading \in {c, NoCoordinator},
         baseShutdown[c] # "unused",
         UNCHANGED <<runtimeData, unloading, baseShutdown, shutdownReaper, hassRunning>>
  PROVE  RestInv'
<1>0. /\ EntryTypeOK /\ StageInv /\ NamesInv /\ PendingInv /\ UsedInv
      /\ Running \subseteq {unloading} /\ Running' = Running
  BY DEF RuntimeInv, StageInv, Running
<1>1. CASE /\ shutdownRecord.c = c
           /\ FlowAt(stage, c, shutdownRecord.t)
           /\ UNCHANGED <<shutdownRecord, shutdownTask>>
  <2>1. shutdownRecord # NoRecord /\ Names(c, shutdownRecord.t)
    BY <1>0, <1>1, EntryAssumption DEF NamesInv, NoRecord
  <2>2. entryFlow' = [at |-> stage, c |-> c, t |-> shutdownRecord.t]
    BY <1>1 DEF FlowAt
  <2>3. StageInv'
    BY <1>0, <2>2 DEF StageInv, Owning, Fencing, Waiting
  <2>4. NamesInv'
    BY <1>0, <1>1, <2>1, <2>2 DEF NamesInv, Names
  <2>5. PendingInv' /\ UsedInv'
    BY <1>0, <1>1, <2>2 DEF PendingInv, UsedInv
  <2> QED BY <2>3, <2>4, <2>5 DEF RestInv
<1>2. CASE entryFlow' = NoFlow /\ UNCHANGED <<shutdownRecord, shutdownTask>>
  <2>1. StageInv'
    BY <1>0, <1>2 DEF StageInv, Owning, Fencing, Waiting, NoFlow
  <2>2. NamesInv'
    BY <1>0, <1>2 DEF NamesInv, Names, Waiting, NoFlow
  <2>3. PendingInv' /\ UsedInv'
    BY <1>0, <1>2, EntryAssumption DEF PendingInv, UsedInv, NoFlow
  <2> QED BY <2>1, <2>2, <2>3 DEF RestInv
<1>3. CASE /\ shutdownRecord.c # NoCoordinator => TaskDone(shutdownRecord.t)
           /\ \E t \in FreshTasks : NewShutdownTask(c, t) /\ FlowAt(stage, c, t)
  <2>1. PICK t \in FreshTasks : NewShutdownTask(c, t) /\ FlowAt(stage, c, t)
    BY <1>3
  <2>2. /\ PendingInv' /\ Names(c, t)'
        /\ t \in ShutdownTasks /\ shutdownRecord' = [c |-> c, t |-> t]
        /\ \A u \in ShutdownTasks \ {t} : shutdownTask'[u] = shutdownTask[u]
    BY <1>0, <1>3, <2>1, NewTaskStep, RecordParts
  <2>3. entryFlow' = [at |-> stage, c |-> c, t |-> t] /\ t # shutdownReaper.t
    BY <2>1 DEF FlowAt, FreshTasks
  <2>4. StageInv'
    BY <1>0, <2>3 DEF StageInv, Owning, Fencing, Waiting
  <2>5. NamesInv'
    BY <1>0, <2>2, <2>3 DEF NamesInv, Names
  <2>6. UsedInv'
    BY <1>0, <2>2, <2>3 DEF UsedInv
  <2> QED BY <2>2, <2>4, <2>5, <2>6 DEF RestInv
<1> QED BY <1>1, <1>2, <1>3 DEF ShutdownBounded

\* A reference is dropped whose coordinator's base shutdown has ended.
LEMMA ReleaseStep ==
  ASSUME RuntimeInv, NEW c, NEW t, Names(c, t), shutdownTask[t].at = "ok",
         ClearRecord(c, t), ClearReferences(c), UNCHANGED <<shutdownTask, baseShutdown>>
  PROVE  /\ PendingInv'
         /\ c \notin Running /\ Running' = Running
         /\ unloading' \in {unloading, NoCoordinator} /\ c # unloading'
         /\ runtimeData # c => runtimeData' = runtimeData
         /\ Running \subseteq {unloading} => Running \subseteq {unloading'}
         /\ shutdownRecord' \in {shutdownRecord, NoRecord}
         /\ shutdownRecord' # NoRecord => Names(shutdownRecord.c, shutdownRecord.t)'
<1>1. c \notin Running /\ Running' = Running
  BY DEF Names, Running
<1>2. /\ unloading' \in {unloading, NoCoordinator} /\ c # unloading'
      /\ runtimeData # c => runtimeData' = runtimeData
      /\ Running \subseteq {unloading} => Running \subseteq {unloading'}
  BY <1>1, EntryAssumption DEF ClearReferences, Names, Running
<1>3. PendingInv'
  BY DEF RuntimeInv, PendingInv, ClearRecord
<1>4. /\ shutdownRecord' \in {shutdownRecord, NoRecord}
      /\ shutdownRecord' # NoRecord => Names(shutdownRecord.c, shutdownRecord.t)'
  BY DEF RuntimeInv, NamesInv, Names, ClearRecord
<1> QED BY <1>1, <1>2, <1>3, <1>4

LEMMA RestNext == RuntimeInv /\ [EntryNext]_entryVars => RestInv'
<1> SUFFICES ASSUME RuntimeInv, [EntryNext]_entryVars PROVE RestInv'
  OBVIOUS
<1>0. EntryTypeOK /\ StageInv /\ NamesInv /\ PendingInv /\ UsedInv
  BY DEF RuntimeInv
<1> USE DEF Owning, Fencing, Waiting
<1>1. CASE SetupReleases
  <2>1. unloading \in Coordinators /\ baseShutdown[unloading] # "unused"
    BY <1>0, <1>1 DEF SetupReleases, EntryTypeOK, UsedInv
  <2> QED BY <1>1, <2>1, BoundedStep DEF SetupReleases
<1>2. CASE FlowShutsDown
  <2>1. /\ entryFlow.c \in Coordinators /\ unloading \in {entryFlow.c, NoCoordinator}
        /\ baseShutdown[entryFlow.c] # "unused"
    BY <1>0, <1>2 DEF FlowShutsDown, StageInv, UsedInv
  <2> QED BY <1>2, <2>1, BoundedStep DEF FlowShutsDown
<1>3. CASE SetupNotFenced
  <2>1. Running = {} /\ Running' = Running
    BY <1>0, <1>3, EntryAssumption DEF SetupNotFenced, StageInv, Running
  <2>2. StageInv'
    BY <1>0, <1>3, <2>1 DEF SetupNotFenced, FlowAt, StageInv
  <2>3. NamesInv' /\ PendingInv' /\ UsedInv'
    BY <1>0, <1>3, EntryAssumption
       DEF SetupNotFenced, FlowAt, NamesInv, Names, PendingInv, UsedInv
  <2> QED BY <2>2, <2>3 DEF RestInv
<1>4. CASE Released
  <2>1. /\ PendingInv' /\ UNCHANGED <<shutdownTask, baseShutdown, shutdownReaper>>
        /\ entryFlow.c \notin Running /\ Running' = Running /\ Running \subseteq {unloading'}
        /\ unloading' \in {unloading, NoCoordinator} /\ entryFlow.c # unloading'
        /\ shutdownRecord' \in {shutdownRecord, NoRecord}
        /\ shutdownRecord' # NoRecord => Names(shutdownRecord.c, shutdownRecord.t)'
        /\ entryFlow' = [at |-> "construct", c |-> NoCoordinator, t |-> NoShutdown]
        /\ unloading \in {entryFlow.c, NoCoordinator}
    BY <1>0, <1>4, ReleaseStep DEF Released, NamesInv, StageInv, FlowAt
  <2>2. Running = {}
    BY <2>1, EntryAssumption DEF Running
  <2>3. StageInv'
    BY <2>1, <2>2 DEF StageInv
  <2>4. NamesInv' /\ UsedInv'
    BY <1>0, <2>1, EntryAssumption DEF NamesInv, Names, UsedInv, NoRecord
  <2> QED BY <2>1, <2>3, <2>4 DEF RestInv
<1>5. CASE SetupConstructs
  <2>1. PICK c \in FreshCoordinators :
          /\ runtimeData' = c
          /\ baseShutdown' = [baseShutdown EXCEPT ![c] = "live"]
          /\ entryFlow' = [at |-> "setup", c |-> c, t |-> NoShutdown]
    BY <1>5 DEF SetupConstructs, FlowAt
  <2>2. /\ c \in Coordinators /\ c \notin {unloading, shutdownRecord.c, shutdownReaper.c}
        /\ UNCHANGED <<unloading, shutdownRecord, shutdownTask, shutdownReaper>>
        /\ Running = {} /\ baseShutdown'[c] = "live"
        /\ \A d \in Coordinators \ {c} : baseShutdown'[d] = baseShutdown[d]
    BY <1>0, <1>5, <2>1 DEF SetupConstructs, FreshCoordinators, StageInv, EntryTypeOK
  <2>3. StageInv'
    <3>1. Running' = {c}
      BY <2>2 DEF Running
    <3> QED BY <2>1, <2>2, <3>1 DEF StageInv
  <2>4. NamesInv' /\ PendingInv' /\ UsedInv'
    BY <1>0, <2>1, <2>2 DEF NamesInv, Names, PendingInv, UsedInv
  <2> QED BY <2>3, <2>4 DEF RestInv
<1>6. CASE SetupSucceeds \/ UnloadBegins \/ SetupFails \/ PlatformsUnload
  <2>1. /\ entryFlow.at \in Owning /\ entryFlow'.c = entryFlow.c
        /\ entryFlow'.at \in {"loaded", "unload", "rollback", "teardown"}
        /\ IF entryFlow'.at \in {"rollback", "teardown"}
             THEN unloading' = entryFlow.c ELSE UNCHANGED unloading
        /\ UNCHANGED <<runtimeData, shutdownRecord, shutdownTask, baseShutdown, shutdownReaper>>
    BY <1>0, <1>6 DEF SetupSucceeds, UnloadBegins, SetupFails, PlatformsUnload, FlowAt, StageInv
  <2>2. Running' = Running
    BY <2>1 DEF Running
  <2>3. StageInv'
    BY <1>0, <2>1, <2>2 DEF StageInv
  <2>4. NamesInv' /\ PendingInv' /\ UsedInv'
    BY <1>0, <2>1 DEF NamesInv, Names, PendingInv, UsedInv
  <2> QED BY <2>3, <2>4 DEF RestInv
<1>7. CASE FlowGivesUp
  <2>1. Running' = Running
    BY <1>7 DEF FlowGivesUp, Running
  <2>2. StageInv'
    BY <1>0, <1>7, <2>1 DEF FlowGivesUp, StageInv, NoFlow
  <2>3. NamesInv' /\ PendingInv' /\ UsedInv'
    BY <1>0, <1>7, EntryAssumption DEF FlowGivesUp, NoFlow, NamesInv, Names, PendingInv, UsedInv
  <2> QED BY <2>2, <2>3 DEF RestInv
<1>8. CASE FlowShutDown
  <2>1. /\ PendingInv' /\ UNCHANGED <<shutdownTask, baseShutdown, shutdownReaper>>
        /\ Running' = Running /\ Running \subseteq {unloading'}
        /\ unloading' \in {unloading, NoCoordinator}
        /\ shutdownRecord' \in {shutdownRecord, NoRecord}
        /\ shutdownRecord' # NoRecord => Names(shutdownRecord.c, shutdownRecord.t)'
        /\ entryFlow' = NoFlow
    BY <1>0, <1>8, ReleaseStep DEF FlowShutDown, NamesInv, StageInv
  <2>2. StageInv'
    BY <2>1 DEF StageInv, NoFlow
  <2>3. NamesInv' /\ UsedInv'
    BY <1>0, <2>1, EntryAssumption DEF NamesInv, Names, UsedInv, NoRecord, NoFlow
  <2> QED BY <2>1, <2>2, <2>3 DEF RestInv
<1>9. CASE ShutdownNotSeen
  <2>1. /\ entryFlow' = NoFlow /\ Running' = Running
        /\ UNCHANGED <<unloading, runtimeData, shutdownRecord, shutdownTask, baseShutdown>>
        /\ shutdownReaper' \in {shutdownReaper,
                                [at |-> "wait", c |-> entryFlow.c, t |-> entryFlow.t]}
        /\ Names(entryFlow.c, entryFlow.t)
    BY <1>0, <1>9 DEF ShutdownNotSeen, ScheduleReaper, Running, NamesInv
  <2>2. StageInv'
    BY <1>0, <1>9, <2>1 DEF ShutdownNotSeen, StageInv, NoFlow
  <2>3. NamesInv'
    BY <1>0, <2>1 DEF NamesInv, Names, NoFlow
  <2>4. PendingInv' /\ UsedInv'
    BY <1>0, <2>1, EntryAssumption DEF PendingInv, UsedInv, NoFlow
  <2> QED BY <2>2, <2>3, <2>4 DEF RestInv
<1>10. ASSUME NEW t \in ShutdownTasks, ShutdownTaskRuns(t) PROVE RestInv'
  <2> DEFINE c == shutdownTask[t].c
  <2>1. /\ shutdownRecord = [c |-> c, t |-> t] /\ shutdownRecord # NoRecord
        /\ c \in Coordinators /\ baseShutdown[c] # "unused"
    BY <1>0, <1>10, EntryAssumption, RecordParts
       DEF ShutdownTaskRuns, PendingInv, NoRecord, UsedInv
  <2>2. /\ UNCHANGED <<entryFlow, runtimeData, unloading, shutdownRecord, shutdownReaper>>
        /\ shutdownTask'[t].c = c /\ shutdownTask'[t].at \in {"ok", "waiting"}
        /\ shutdownTask'[t].at = "ok" => baseShutdown[c] = "stopped" /\ UNCHANGED baseShutdown
        /\ shutdownTask'[t].at = "waiting" =>
             baseShutdown[c] # "stopped" /\ baseShutdown'[c] = "stopping"
        /\ \A u \in ShutdownTasks \ {t} : shutdownTask'[u] = shutdownTask[u]
        /\ \A d \in Coordinators \ {c} : baseShutdown'[d] = baseShutdown[d]
    <3>1. CASE baseShutdown[c] = "stopped"
      BY <1>0, <1>10, <2>1, <3>1 DEF ShutdownTaskRuns, EntryTypeOK
    <3>2. CASE baseShutdown[c] # "stopped"
      BY <1>0, <1>10, <2>1, <3>2 DEF ShutdownTaskRuns, EntryTypeOK
    <3> QED BY <3>1, <3>2
  <2>3. Running' = Running
    BY <1>0, <2>1, <2>2 DEF Running, EntryTypeOK
  <2>4. StageInv'
    BY <1>0, <2>1, <2>2, <2>3 DEF StageInv
  <2>5. NamesInv'
    BY <1>0, <1>10, <2>1, <2>2 DEF NamesInv, Names, ShutdownTaskRuns
  <2>6. PendingInv' /\ UsedInv'
    BY <1>0, <2>1, <2>2 DEF PendingInv, UsedInv
  <2> QED BY <2>4, <2>5, <2>6 DEF RestInv
<1>11. ASSUME NEW c \in Coordinators, NEW ok \in BOOLEAN, BaseShutdownEnds(c, ok)
       PROVE  RestInv'
  <2>1. /\ UNCHANGED <<entryFlow, runtimeData, unloading, shutdownRecord, shutdownReaper>>
        /\ baseShutdown[c] = "stopping" /\ baseShutdown'[c] \in {"stopped", "live"}
        /\ \A d \in Coordinators \ {c} : baseShutdown'[d] = baseShutdown[d]
        /\ \A u \in ShutdownTasks :
             \/ shutdownTask'[u] = shutdownTask[u]
             \/ /\ shutdownTask[u].at = "waiting" /\ shutdownTask[u].c = c
                /\ shutdownTask'[u].c = c /\ shutdownTask'[u].at \in {"ok", "failed"}
                /\ shutdownTask'[u].at = "ok" => baseShutdown'[c] = "stopped"
    BY <1>0, <1>11 DEF BaseShutdownEnds, EntryTypeOK
  <2>2. Running' \subseteq Running
    BY <2>1 DEF Running
  <2>3. StageInv'
    BY <1>0, <2>1, <2>2 DEF StageInv
  <2>4. NamesInv'
    BY <1>0, <2>1 DEF NamesInv, Names
  <2>5. PendingInv' /\ UsedInv'
    BY <1>0, <2>1 DEF PendingInv, UsedInv
  <2> QED BY <2>3, <2>4, <2>5 DEF RestInv
<1>12. CASE ReaperReleases
  <2>1. /\ PendingInv' /\ UNCHANGED <<entryFlow, shutdownTask, baseShutdown>>
        /\ shutdownReaper.c \notin Running /\ Running' = Running
        /\ Running \subseteq {unloading} => Running \subseteq {unloading'}
        /\ unloading' \in {unloading, NoCoordinator}
        /\ runtimeData # shutdownReaper.c => runtimeData' = runtimeData
        /\ shutdownRecord' \in {shutdownRecord, NoRecord}
        /\ shutdownRecord' # NoRecord => Names(shutdownRecord.c, shutdownRecord.t)'
        /\ shutdownReaper' = NoReaper
    BY <1>0, <1>12, ReleaseStep DEF ReaperReleases, NamesInv
  <2>2. StageInv'
    BY <1>0, <2>1, EntryAssumption DEF StageInv, NoReaper, NoRecord
  <2>3. NamesInv' /\ UsedInv'
    BY <1>0, <2>1, EntryAssumption DEF NamesInv, Names, UsedInv, NoRecord, NoReaper
  <2> QED BY <2>1, <2>2, <2>3 DEF RestInv
<1>13. CASE ReaperSeesFailure
  <2>1. /\ UNCHANGED <<entryFlow, runtimeData, unloading, shutdownTask, baseShutdown>>
        /\ Running' = Running /\ shutdownTask[shutdownReaper.t].at = "failed"
        /\ shutdownReaper' = NoReaper
              \/ (/\ shutdownReaper'.at = "sleep" /\ shutdownReaper'.c = shutdownReaper.c
                  /\ shutdownReaper'.t = shutdownReaper.t /\ UNCHANGED shutdownRecord)
        /\ shutdownRecord' \in {shutdownRecord, NoRecord}
        /\ shutdownRecord' # shutdownRecord => shutdownRecord.t = shutdownReaper.t
        /\ Names(shutdownReaper.c, shutdownReaper.t)
    BY <1>0, <1>13 DEF ReaperSeesFailure, ClearRecord, Running, NamesInv, EntryTypeOK
  <2>2. StageInv'
    BY <1>0, <2>1, EntryAssumption DEF StageInv, NoReaper, NoRecord
  <2>3. NamesInv'
    BY <1>0, <2>1 DEF NamesInv, Names, NoReaper
  <2>4. PendingInv'
    BY <1>0, <2>1 DEF PendingInv
  <2>5. UsedInv'
    BY <1>0, <2>1, EntryAssumption DEF UsedInv, NoRecord, NoReaper
  <2> QED BY <2>2, <2>3, <2>4, <2>5 DEF RestInv
<1>14. CASE ReaperRetries
  <2>1. /\ UNCHANGED <<entryFlow, runtimeData, unloading, baseShutdown>> /\ Running' = Running
        /\ Names(shutdownReaper.c, shutdownReaper.t)
        /\ shutdownTask[shutdownReaper.t].at = "failed"
        /\ shutdownReaper.c \in Coordinators /\ baseShutdown[shutdownReaper.c] # "unused"
    BY <1>0, <1>14 DEF ReaperRetries, Running, NamesInv, Names, UsedInv
  <2>2. CASE /\ shutdownRecord.c = shutdownReaper.c
             /\ shutdownReaper' = [shutdownReaper EXCEPT !.at = "wait", !.t = shutdownRecord.t]
             /\ UNCHANGED <<shutdownRecord, shutdownTask>>
    <3>1. /\ shutdownReaper'.at = "wait" /\ shutdownReaper'.c = shutdownReaper.c
          /\ shutdownReaper'.t = shutdownRecord.t /\ shutdownRecord # NoRecord
      BY <1>0, <2>1, <2>2, EntryAssumption DEF EntryTypeOK, NoRecord
    <3>2. StageInv'
      BY <1>0, <2>1, <2>2, <3>1 DEF StageInv
    <3>3. NamesInv'
      BY <1>0, <2>1, <2>2, <3>1 DEF NamesInv, Names
    <3>4. PendingInv' /\ UsedInv'
      BY <1>0, <2>1, <2>2, <3>1 DEF PendingInv, UsedInv
    <3> QED BY <3>2, <3>3, <3>4 DEF RestInv
  <2>3. CASE shutdownReaper' = NoReaper /\ UNCHANGED <<shutdownRecord, shutdownTask>>
    <3>1. StageInv'
      BY <1>0, <2>1, <2>3, EntryAssumption DEF StageInv, NoReaper
    <3>2. NamesInv' /\ PendingInv' /\ UsedInv'
      BY <1>0, <2>1, <2>3, EntryAssumption DEF NamesInv, Names, PendingInv, UsedInv, NoReaper
    <3> QED BY <3>1, <3>2 DEF RestInv
  <2>4. CASE /\ shutdownRecord = [c |-> shutdownReaper.c, t |-> shutdownReaper.t]
             /\ \E u \in FreshTasks :
                  /\ NewShutdownTask(shutdownReaper.c, u)
                  /\ shutdownReaper' = [shutdownReaper EXCEPT !.at = "wait", !.t = u]
    <3> DEFINE c == shutdownReaper.c
    <3>1. PICK u \in FreshTasks :
            /\ NewShutdownTask(c, u)
            /\ shutdownReaper' = [shutdownReaper EXCEPT !.at = "wait", !.t = u]
      BY <2>4
    <3>2. /\ PendingInv' /\ Names(c, u)'
          /\ u \in ShutdownTasks /\ shutdownRecord' = [c |-> c, t |-> u]
          /\ \A v \in ShutdownTasks \ {u} : shutdownTask'[v] = shutdownTask[v]
      <4>1. shutdownRecord # NoRecord => TaskDone(shutdownRecord.t)
        BY <2>1, <2>4 DEF TaskDone
      <4> QED BY <2>1, <3>1, <4>1, NewTaskStep
    <3>3. /\ shutdownReaper'.at = "wait" /\ shutdownReaper'.c = c /\ shutdownReaper'.t = u
          /\ u # entryFlow.t
      BY <1>0, <3>1 DEF EntryTypeOK, FreshTasks
    <3>4. StageInv'
      BY <1>0, <2>1, <2>4, <3>2, <3>3 DEF StageInv
    <3>5. NamesInv'
      BY <1>0, <2>1, <3>2, <3>3 DEF NamesInv, Names
    <3>6. UsedInv'
      BY <1>0, <2>1, <3>2, <3>3 DEF UsedInv
    <3> QED BY <3>2, <3>4, <3>5, <3>6 DEF RestInv
  <2> QED BY <1>14, <2>2, <2>3, <2>4 DEF ReaperRetries
<1>15. CASE HassStarted \/ UNCHANGED entryVars
  <2>1. UNCHANGED <<entryFlow, runtimeData, unloading, shutdownRecord, shutdownTask,
                    baseShutdown, shutdownReaper>>
    BY <1>15 DEF HassStarted, entryVars
  <2> QED BY <1>0, <2>1 DEF RestInv, StageInv, NamesInv, Names, PendingInv, UsedInv, Running
<1> QED BY <1>1, <1>2, <1>3, <1>4, <1>5, <1>6, <1>7, <1>8, <1>9, <1>10, <1>11, <1>12, <1>13,
           <1>14, <1>15 DEF EntryNext, FlowStep, ReaperStep

LEMMA RuntimeInvariance == EntrySpec => []RuntimeInv
<1>1. EntryInit => RuntimeInv
  BY TypeInit, RestInit DEF RuntimeInv, RestInv
<1>2. RuntimeInv /\ [EntryNext]_entryVars => RuntimeInv'
  BY TypeNext, RestNext DEF RuntimeInv, RestInv
<1> QED BY <1>1, <1>2, PTL DEF EntrySpec

-------------------------------------------------------------------------------
(* Theorems.                                                                 *)

\* The bookkeeping of setup, unload and reaper keeps its types.
THEOREM EntryTypeCorrect == EntrySpec => []EntryTypeOK
<1>1. RuntimeInv => EntryTypeOK
  BY DEF RuntimeInv
<1> QED BY <1>1, RuntimeInvariance, PTL

\* No two coordinators are in operation at once, and one that is is the entry's or the
\* fence holds it, through any number of reloads, time limits and failures.
THEOREM OneRuntimeAtATime == EntrySpec => []OneRuntime
<1>1. RuntimeInv => OneRuntime
  <2> SUFFICES ASSUME RuntimeInv PROVE OneRuntime
    OBVIOUS
  <2>1. Running \subseteq {runtimeData} \/ Running \subseteq {unloading}
    BY DEF RuntimeInv, StageInv
  <2>2. Cardinality(Running) <= 1
    <3>1. PICK c : Running \subseteq {c}
      BY <2>1
    <3>2. IsFiniteSet({c}) /\ Cardinality({c}) = 1
      BY FS_Singleton
    <3>3. Cardinality(Running) <= Cardinality({c})
      BY <3>1, <3>2, FS_Subset
    <3> QED BY <3>2, <3>3
  <2>3. Running \subseteq {runtimeData, unloading}
    BY <2>1
  <2> QED BY <2>2, <2>3 DEF OneRuntime, Running
<1> QED BY <1>1, RuntimeInvariance, PTL

-------------------------------------------------------------------------------
(* The HTTP session: the types, the queue of the lock, and where tokens come    *)
(* from.                                                                        *)

\* Who waits for the lock, or logs in under it, is in its queue.
ApiQueued == \A r \in Requests : request[r].at \in {"ensure", "recover", "login", "relogin"} =>
               \E i \in DOMAIN apiLock : apiLock[i] = r

\* Who logs in holds it.
ApiServed == \A r \in Requests : request[r].at \in {"login", "relogin"} =>
               apiLock # <<>> /\ apiLock[1] = r

\* A token that a login is about to bring is nobody else's yet.
GrantsAreNew ==
  /\ \A r \in Requests : request[r].granted # NoToken =>
       /\ request[r].granted # token /\ request[r].granted # setup.granted
       /\ \A q \in Requests : /\ request[r].granted \notin {request[q].used, request[q].sent}
                              /\ q # r => request[r].granted # request[q].granted
  /\ setup.granted # NoToken =>
       /\ setup.granted # token
       /\ \A q \in Requests : setup.granted \notin {request[q].used, request[q].sent}

\* Of one request: as long as the token it began with is in place, that is the one
\* it sent, and its refusal is remembered.
Remembers(req) ==
  /\ req.at \in {"sent", "recover"} => req.used # NoToken
  /\ req.at = "sent" /\ req.used = token => req.sent = token
  /\ req.at = "recover" /\ req.used = token => distrusted

RefusalsKnown == \A r \in Requests : Remembers(request[r])

ApiInv == ApiTypeOK /\ ApiQueued /\ ApiServed /\ GrantsAreNew /\ RefusalsKnown

LEMMA NoRequestType ==
  /\ NoRequest \in ApiRequest /\ NoRequest.at = "idle" /\ NoRequest.used = NoToken
  /\ NoRequest.sent = NoToken /\ NoRequest.granted = NoToken
BY DEF NoRequest, ApiRequest, ApiStages

LEMMA ApiInvInit == ApiInit => ApiInv
<1> SUFFICES ASSUME ApiInit PROVE ApiInv
  OBVIOUS
<1>1. ApiTypeOK
  <2>1. apiLock \in Seq(Requests)
    BY EmptySeq DEF ApiInit
  <2>2. setup \in SetupState
    BY ApiAssumption DEF ApiInit, SetupState
  <2>3. request \in [Requests -> ApiRequest] /\ cooldown \in 0..Cooldown
    BY NoRequestType, ApiAssumption DEF ApiInit
  <2> QED BY <2>1, <2>2, <2>3 DEF ApiInit, ApiTypeOK
<1>2. ApiQueued /\ ApiServed /\ GrantsAreNew
  BY NoRequestType DEF ApiInit, ApiQueued, ApiServed, GrantsAreNew
<1>3. RefusalsKnown
  BY NoRequestType DEF ApiInit, RefusalsKnown, Remembers
<1> QED BY <1>1, <1>2, <1>3 DEF ApiInv

\* Steps of a request r that bring no token: what the others know stays true.
LEMMA RequestKeeps ==
  ASSUME ApiInv, NEW r \in Requests, NEW new \in ApiRequest,
         request' = [request EXCEPT ![r] = new],
         apiLock' \in Seq(Requests), cooldown' \in 0..Cooldown, distrusted' \in BOOLEAN,
         token' \in {token, NoToken}, setup' = setup, session' = session,
         token' = token /\ token # NoToken => (distrusted => distrusted'),
         new.granted \in {request[r].granted, NoToken},
         new.used \in {request[r].used, token, NoToken},
         new.sent \in {request[r].sent, token, NoToken},
         new.at \in {"sent", "recover"} => new.used # NoToken,
         new.at = "sent" /\ new.used = token' => new.sent = token',
         new.at = "recover" /\ new.used = token' => distrusted',
         \A q \in Requests \ {r} : (\E i \in DOMAIN apiLock : apiLock[i] = q)
                                     => \E i \in DOMAIN apiLock' : apiLock'[i] = q,
         \A q \in Requests \ {r} : apiLock # <<>> /\ apiLock[1] = q
                                     => apiLock' # <<>> /\ apiLock'[1] = q,
         new.at \in {"ensure", "recover", "login", "relogin"} =>
           \E i \in DOMAIN apiLock' : apiLock'[i] = r,
         new.at \in {"login", "relogin"} => apiLock' # <<>> /\ apiLock'[1] = r
  PROVE  ApiInv'
<1>0. ApiTypeOK /\ ApiQueued /\ ApiServed /\ GrantsAreNew /\ RefusalsKnown
  BY DEF ApiInv
<1>1. /\ request \in [Requests -> ApiRequest] /\ request'[r] = new
      /\ \A q \in Requests \ {r} : request'[q] = request[q]
  BY <1>0 DEF ApiTypeOK
<1>2. ApiTypeOK'
  BY <1>0, <1>1 DEF ApiTypeOK
<1>3. ApiQueued' /\ ApiServed'
  BY <1>0, <1>1 DEF ApiQueued, ApiServed
<1>4. GrantsAreNew'
  BY <1>0, <1>1 DEF GrantsAreNew
<1>5. RefusalsKnown'
  <2>1. Remembers(new)'
    BY DEF Remembers
  <2>2. ASSUME NEW q \in Requests \ {r} PROVE Remembers(request[q])'
    BY <1>0, <1>1 DEF RefusalsKnown, Remembers
  <2> QED BY <1>1, <2>1, <2>2 DEF RefusalsKnown, Remembers
<1> QED BY <1>2, <1>3, <1>4, <1>5 DEF ApiInv

-------------------------------------------------------------------------------
\* What a step of r may do with the queue of the lock.
OthersStay(r) ==
  /\ apiLock' \in Seq(Requests)
  /\ \A q \in Requests \ {r} : (\E i \in DOMAIN apiLock : apiLock[i] = q)
                                 => \E i \in DOMAIN apiLock' : apiLock'[i] = q
  /\ \A q \in Requests \ {r} : apiLock # <<>> /\ apiLock[1] = q
                                 => apiLock' # <<>> /\ apiLock'[1] = q

LEMMA LockSame == ASSUME ApiTypeOK, NEW r \in Requests, apiLock' = apiLock PROVE OthersStay(r)
BY DEF ApiTypeOK, OthersStay

LEMMA LockReleased ==
  ASSUME ApiTypeOK, NEW r \in Requests, apiLock # <<>>, apiLock[1] = r, apiLock' = Tail(apiLock)
  PROVE  OthersStay(r)
<1>1. apiLock \in Seq(Requests)
  BY DEF ApiTypeOK
<1>2. ASSUME NEW q \in Requests \ {r}, NEW i \in DOMAIN apiLock, apiLock[i] = q
      PROVE  \E j \in DOMAIN apiLock' : apiLock'[j] = q
  <2>1. apiLock[i] # apiLock[1]
    BY <1>2
  <2>2. \E j \in DOMAIN Tail(apiLock) : Tail(apiLock)[j] = apiLock[i]
    BY <1>1, <2>1, TailStays
  <2> QED BY <1>2, <2>2
<1>3. apiLock' \in Seq(Requests)
  BY <1>1
<1> QED BY <1>2, <1>3 DEF OthersStay

LEMMA LockAwaited ==
  ASSUME ApiTypeOK, NEW r \in Requests, apiLock' = Append(apiLock, r)
  PROVE  /\ OthersStay(r) /\ \E i \in DOMAIN apiLock' : apiLock'[i] = r
         /\ apiLock = <<>> => apiLock' # <<>> /\ apiLock'[1] = r
<1>1. apiLock \in Seq(Requests)
  BY DEF ApiTypeOK
<1>2. /\ apiLock' \in Seq(Requests) /\ apiLock' # <<>>
      /\ apiLock'[Len(apiLock) + 1] = r /\ Len(apiLock) + 1 \in DOMAIN apiLock'
      /\ \A i \in DOMAIN apiLock : i \in DOMAIN apiLock' /\ apiLock'[i] = apiLock[i]
      /\ apiLock # <<>> => apiLock'[1] = apiLock[1]
  BY <1>1, AppendFacts
<1>3. ASSUME NEW q \in Requests \ {r}, NEW i \in DOMAIN apiLock, apiLock[i] = q
      PROVE  \E j \in DOMAIN apiLock' : apiLock'[j] = q
  BY <1>2, <1>3
<1>4. apiLock = <<>> => apiLock'[1] = r
  BY <1>2
<1> QED BY <1>2, <1>3, <1>4 DEF OthersStay

LEMMA LockLeftBy ==
  ASSUME ApiTypeOK, NEW r \in Requests, apiLock' = Left(apiLock, r) PROVE OthersStay(r)
<1>1. apiLock \in Seq(Requests)
  BY DEF ApiTypeOK
<1> QED BY <1>1, LeftType, LeftStays, LeftHead DEF OthersStay

\* An attempt of a request that begins with the token in place.
LEMMA SentFields ==
  ASSUME ApiTypeOK, NEW req \in ApiRequest, NEW repeats \in BOOLEAN
  PROVE  LET new == [AttemptSent(req, "sent") EXCEPT !.used = token, !.again = repeats]
         IN  /\ new \in ApiRequest /\ new.at = "sent" /\ new.used = token /\ new.sent = token
             /\ new.granted = req.granted
BY DEF AttemptSent, ApiRequest, ApiStages, ApiTypeOK

\* Each action but the logins, which bring tokens.
LEMMA CallsKeep ==
  ASSUME ApiInv, NEW r \in Requests, CallsWithToken(r) PROVE ApiInv'
<1> DEFINE new == [AttemptSent(NoRequest, "sent") EXCEPT !.used = token, !.again = r \in Repeating]
<1>0. ApiTypeOK /\ token # NoToken /\ request' = [request EXCEPT ![r] = new]
      /\ UNCHANGED <<token, apiLock, cooldown, setup, session, distrusted>>
  BY DEF ApiInv, CallsWithToken
<1>1. /\ new \in ApiRequest /\ new.at = "sent" /\ new.used = token /\ new.sent = token
      /\ new.granted = NoToken
  <2>1. (r \in Repeating) \in BOOLEAN
    OBVIOUS
  <2> QED BY <1>0, <2>1, NoRequestType, SentFields
<1> HIDE DEF new
<1>2. OthersStay(r)
  BY <1>0, LockSame
<1> QED BY <1>0, <1>1, <1>2, RequestKeeps DEF OthersStay, ApiTypeOK

LEMMA CallsWithoutKeep ==
  ASSUME ApiInv, NEW r \in Requests, CallsWithoutToken(r) PROVE ApiInv'
<1> DEFINE stage == IF apiLock = << >> THEN "login" ELSE "ensure"
           new == [NoRequest EXCEPT !.at = stage]
<1>0. ApiTypeOK /\ request' = [request EXCEPT ![r] = new] /\ apiLock' = Append(apiLock, r)
      /\ UNCHANGED <<token, cooldown, setup, session, distrusted>>
  BY DEF ApiInv, CallsWithoutToken
<1>1. /\ new \in ApiRequest /\ new.at = stage /\ new.used = NoToken /\ new.sent = NoToken
      /\ new.granted = NoToken
  BY <1>0, NoRequestType DEF ApiRequest, ApiStages
<1>2. stage \in {"login", "ensure"} /\ (stage = "login" => apiLock = <<>>)
  OBVIOUS
<1> HIDE DEF new, stage
<1>3. /\ OthersStay(r) /\ \E i \in DOMAIN apiLock' : apiLock'[i] = r
      /\ apiLock = <<>> => apiLock' # <<>> /\ apiLock'[1] = r
  BY <1>0, LockAwaited
<1> QED BY <1>0, <1>1, <1>2, <1>3, RequestKeeps DEF OthersStay, ApiTypeOK

\* A request that ends, and leaves the lock if it is in its queue.
LEMMA EndingKeeps ==
  ASSUME ApiInv, NEW r \in Requests, request' = [request EXCEPT ![r] = NoRequest],
         OthersStay(r), cooldown' \in 0..Cooldown, distrusted' \in BOOLEAN,
         token' = token, setup' = setup, session' = session, distrusted => distrusted'
  PROVE  ApiInv'
BY NoRequestType, RequestKeeps DEF OthersStay

LEMMA LoginFailsKeeps ==
  ASSUME ApiInv, NEW r \in Requests, LoginFails(r) PROVE ApiInv'
<1>1. apiLock # <<>> /\ apiLock[1] = r /\ ApiTypeOK
  BY DEF LoginFails, ApiInv, ApiServed
<1>2. OthersStay(r)
  BY <1>1, LockReleased DEF LoginFails
<1> QED BY <1>1, <1>2, EndingKeeps DEF LoginFails, ApiTypeOK

LEMMA AcceptedKeeps ==
  ASSUME ApiInv, NEW r \in Requests, RequestAccepted(r) PROVE ApiInv'
<1>1. ApiTypeOK /\ OthersStay(r)
  BY LockSame DEF ApiInv, RequestAccepted
<1> QED BY <1>1, EndingKeeps DEF RequestAccepted, ApiTypeOK

LEMMA RefusedAgainKeeps ==
  ASSUME ApiInv, NEW r \in Requests, RefusedAgain(r) PROVE ApiInv'
<1>1. ApiTypeOK /\ OthersStay(r)
  BY LockSame DEF ApiInv, RefusedAgain
<1>2. distrusted' \in BOOLEAN /\ (distrusted => distrusted')
  BY <1>1 DEF RefusedAgain, ApiTypeOK
<1> QED BY <1>1, <1>2, EndingKeeps DEF RefusedAgain, ApiTypeOK

LEMMA RequestCancelledKeeps ==
  ASSUME ApiInv, NEW r \in Requests, RequestCancelled(r) PROVE ApiInv'
<1>1. ApiTypeOK /\ OthersStay(r)
  BY LockLeftBy DEF ApiInv, RequestCancelled
<1>2. cooldown' \in 0..Cooldown
  BY <1>1, ApiAssumption DEF RequestCancelled, ApiTypeOK
<1> QED BY <1>1, <1>2, EndingKeeps DEF RequestCancelled, ApiTypeOK

LEMMA AttemptFailsKeeps ==
  ASSUME ApiInv, NEW r \in Requests, AttemptFails(r) PROVE ApiInv'
<1>0. /\ ApiTypeOK /\ request[r] \in ApiRequest /\ Remembers(request[r])
      /\ request[r].at \in {"sent", "resent"} /\ OthersStay(r)
      /\ UNCHANGED <<token, apiLock, cooldown, setup, session, distrusted>>
  BY LockSame DEF ApiInv, AttemptFails, ApiTypeOK, RefusalsKnown
<1>1. CASE request' = [request EXCEPT ![r] = NoRequest]
  BY <1>0, <1>1, EndingKeeps DEF ApiTypeOK
<1>2. CASE request' = [request EXCEPT ![r] =
                         [AttemptSent(request[r], request[r].at) EXCEPT !.again = FALSE]]
  <2> DEFINE new == [AttemptSent(request[r], request[r].at) EXCEPT !.again = FALSE]
  <2>1. /\ new \in ApiRequest /\ new.at = request[r].at /\ new.used = request[r].used
        /\ new.sent = token /\ new.granted = request[r].granted
    BY <1>0 DEF AttemptSent, ApiRequest, ApiTypeOK
  <2>2. request' = [request EXCEPT ![r] = new]
    BY <1>2
  <2> HIDE DEF new
  <2>3. new.at \in {"sent", "recover"} => new.used # NoToken
    BY <1>0, <2>1 DEF Remembers
  <2> QED BY <1>0, <2>1, <2>2, <2>3, RequestKeeps DEF OthersStay, ApiTypeOK
<1> QED BY <1>1, <1>2 DEF AttemptFails

LEMMA EnsureKeeps ==
  ASSUME ApiInv, NEW r \in Requests, EnsureGetsLock(r) PROVE ApiInv'
<1>0. /\ ApiTypeOK /\ request[r] \in ApiRequest /\ apiLock # <<>> /\ apiLock[1] = r
      /\ UNCHANGED <<token, cooldown, setup, session, distrusted>>
  BY DEF ApiInv, EnsureGetsLock, HoldsApiLock, ApiTypeOK
<1>1. CASE token = NoToken
  <2> DEFINE new == [request[r] EXCEPT !.at = "login"]
  <2>1. /\ new \in ApiRequest /\ new.at = "login" /\ new.used = request[r].used
        /\ new.sent = request[r].sent /\ new.granted = request[r].granted
    BY <1>0 DEF ApiRequest, ApiStages
  <2>2. request' = [request EXCEPT ![r] = new] /\ apiLock' = apiLock
    BY <1>1 DEF EnsureGetsLock
  <2> HIDE DEF new
  <2>3. OthersStay(r) /\ \E i \in DOMAIN apiLock' : apiLock'[i] = r
    BY <1>0, <2>2, LockSame DEF ApiTypeOK
  <2> QED BY <1>0, <2>1, <2>2, <2>3, RequestKeeps DEF OthersStay, ApiTypeOK
<1>2. CASE token # NoToken
  <2> DEFINE new == [AttemptSent(request[r], "sent") EXCEPT !.used = token, !.again = r \in Repeating]
  <2>1. /\ new \in ApiRequest /\ new.at = "sent" /\ new.used = token
        /\ new.sent = token /\ new.granted = request[r].granted
    <3>1. (r \in Repeating) \in BOOLEAN
      OBVIOUS
    <3> QED BY <1>0, <3>1, SentFields
  <2>2. request' = [request EXCEPT ![r] = new] /\ apiLock' = Tail(apiLock)
    BY <1>2 DEF EnsureGetsLock
  <2> HIDE DEF new
  <2>3. OthersStay(r)
    BY <1>0, <2>2, LockReleased
  <2> QED BY <1>0, <1>2, <2>1, <2>2, <2>3, RequestKeeps DEF OthersStay, ApiTypeOK
<1> QED BY <1>1, <1>2

\* The recovery of r, which holds the lock (or has just taken it).
LEMMA RecoveryKeeps ==
  ASSUME ApiInv, NEW r \in Requests, NEW base \in ApiRequest, NEW lock, NEW doubt \in BOOLEAN,
         RecoverUnderLock(r, [request EXCEPT ![r] = base], lock, doubt),
         \/ lock = apiLock /\ apiLock # <<>> /\ apiLock[1] = r
         \/ lock = <<r>> /\ apiLock = <<>>,
         base.used = request[r].used, base.granted = request[r].granted,
         base.sent \in {request[r].sent, NoToken}, distrusted => doubt,
         setup' = setup, session' = session
  PROVE  ApiInv'
<1> DEFINE rs == [request EXCEPT ![r] = base]
<1>a. ApiTypeOK /\ request \in [Requests -> ApiRequest]
  BY DEF ApiInv, ApiTypeOK
<1>b. rs \in [Requests -> ApiRequest] /\ rs[r] = base
  BY <1>a
<1>c. ASSUME NEW new \in ApiRequest PROVE [rs EXCEPT ![r] = new] = [request EXCEPT ![r] = new]
  BY <1>a
<1>0. /\ ApiTypeOK /\ rs \in [Requests -> ApiRequest] /\ rs[r] = base
      /\ \A new \in ApiRequest : [rs EXCEPT ![r] = new] = [request EXCEPT ![r] = new]
  BY <1>a, <1>b, <1>c
<1>1. lock \in Seq(Requests) /\ lock # <<>> /\ lock[1] = r
  <2>1. CASE lock = apiLock /\ apiLock # <<>> /\ apiLock[1] = r
    BY <1>a, <2>1 DEF ApiTypeOK
  <2>2. CASE lock = <<r>>
    BY <2>2
  <2> QED BY <2>1, <2>2
<1>2. apiLock' = Tail(lock) => OthersStay(r)
  <2>1. CASE lock = apiLock /\ apiLock # <<>> /\ apiLock[1] = r
    BY <1>0, <2>1, LockReleased
  <2>2. CASE lock = <<r>> /\ apiLock = <<>>
    <3>1. Tail(lock) \in Seq(Requests)
      BY <1>1
    <3> QED BY <2>2, <3>1 DEF OthersStay
  <2> QED BY <2>1, <2>2
<1>3. apiLock' = lock => OthersStay(r) /\ \E i \in DOMAIN apiLock' : apiLock'[i] = r
  <2>1. 1 \in DOMAIN lock
    BY <1>1
  <2> QED BY <1>1, <2>1 DEF OthersStay
<1>4. CASE /\ request' = [rs EXCEPT ![r] =
                [AttemptSent(base, "resent") EXCEPT !.again = r \in Repeating]]
           /\ apiLock' = Tail(lock) /\ distrusted' = doubt /\ UNCHANGED <<token, cooldown>>
  <2> DEFINE again == r \in Repeating
             new == [AttemptSent(base, "resent") EXCEPT !.again = again]
  <2>1. again \in BOOLEAN
    OBVIOUS
  <2> HIDE DEF again
  <2>2. /\ new \in ApiRequest /\ new.at = "resent" /\ new.used = base.used
        /\ new.sent = token /\ new.granted = base.granted
    BY <1>0, <2>1 DEF AttemptSent, ApiRequest, ApiStages, ApiTypeOK
  <2>3. request' = [rs EXCEPT ![r] = new]
    BY <1>4 DEF again
  <2> HIDE DEF new, rs
  <2>4. request' = [request EXCEPT ![r] = new]
    BY <1>0, <2>2, <2>3
  <2>5. OthersStay(r) /\ distrusted' \in BOOLEAN /\ cooldown' \in 0..Cooldown
    BY <1>0, <1>2, <1>4 DEF ApiTypeOK
  <2>6. /\ new.at \notin {"sent", "recover", "ensure", "login", "relogin"}
        /\ new.used = request[r].used /\ new.sent = token /\ new.granted = request[r].granted
        /\ token' = token /\ (distrusted => distrusted')
    BY <1>4, <2>2
  <2> QED BY <2>2, <2>4, <2>5, <2>6, RequestKeeps DEF OthersStay
<1>5. CASE /\ request' = [rs EXCEPT ![r] = NoRequest]
           /\ apiLock' = Tail(lock) /\ distrusted' = doubt /\ UNCHANGED <<token, cooldown>>
  <2>1. request' = [request EXCEPT ![r] = NoRequest]
    BY <1>0, <1>5, NoRequestType
  <2> HIDE DEF rs
  <2> QED BY <1>0, <1>2, <1>5, <2>1, EndingKeeps DEF ApiTypeOK
<1>6. CASE /\ request' = [rs EXCEPT ![r].at = "relogin"] /\ apiLock' = lock
           /\ cooldown' = Cooldown /\ token' = NoToken /\ distrusted' = FALSE
  <2> DEFINE new == [base EXCEPT !.at = "relogin"]
  <2>1. /\ new \in ApiRequest /\ new.at = "relogin" /\ new.used = base.used
        /\ new.sent = base.sent /\ new.granted = base.granted
    BY DEF ApiRequest, ApiStages
  <2>2. request' = [rs EXCEPT ![r] = new]
    BY <1>0, <1>6
  <2> HIDE DEF new, rs
  <2>4. request' = [request EXCEPT ![r] = new]
    BY <1>0, <2>1, <2>2
  <2>3. Cooldown \in 0..Cooldown
    BY ApiAssumption
  <2>5. OthersStay(r) /\ \E i \in DOMAIN apiLock' : apiLock'[i] = r
    BY <1>3, <1>6
  <2>6. /\ apiLock' # <<>> /\ apiLock'[1] = r /\ token' = NoToken /\ distrusted' \in BOOLEAN
        /\ cooldown' \in 0..Cooldown
        /\ new.used = request[r].used /\ new.granted = request[r].granted
        /\ new.sent \in {request[r].sent, NoToken}
    BY <1>1, <1>6, <2>1, <2>3
  <2> QED BY <2>1, <2>4, <2>5, <2>6, RequestKeeps DEF OthersStay
<1> HIDE DEF rs
<1>7. RecoverUnderLock(r, rs, lock, doubt)
  BY DEF rs
<1> QED BY <1>0, <1>4, <1>5, <1>6, <1>7 DEF RecoverUnderLock

\* What a refused first attempt leaves of its request.
LEMMA RefusedFields ==
  ASSUME ApiInv, NEW r \in Requests, request[r].at = "sent"
  PROVE  LET base == [request[r] EXCEPT !.at = "recover", !.sent = NoToken]
         IN  /\ base \in ApiRequest /\ base.at = "recover" /\ base.used = request[r].used
             /\ base.sent = NoToken /\ base.granted = request[r].granted
             /\ [request EXCEPT ![r].at = "recover", ![r].sent = NoToken]
                  = [request EXCEPT ![r] = base]
BY DEF ApiInv, ApiTypeOK, ApiRequest, ApiStages

LEMMA RefusedFirstKeeps ==
  ASSUME ApiInv, NEW r \in Requests, RefusedFirst(r) PROVE ApiInv'
<1> DEFINE base == [request[r] EXCEPT !.at = "recover", !.sent = NoToken]
           rs == [request EXCEPT ![r].at = "recover", ![r].sent = NoToken]
           doubt == distrusted \/ (request[r].sent = token /\ token # NoToken)
<1>0. /\ ApiTypeOK /\ request[r].at = "sent" /\ Remembers(request[r])
      /\ setup' = setup /\ session' = session
  BY DEF ApiInv, RefusedFirst, RefusalsKnown
<1>1. /\ base \in ApiRequest /\ base.at = "recover" /\ base.used = request[r].used
      /\ base.sent = NoToken /\ base.granted = request[r].granted
      /\ rs = [request EXCEPT ![r] = base]
  BY <1>0, RefusedFields
<1>2. doubt \in BOOLEAN /\ (distrusted => doubt)
      /\ (base.used = token => doubt) /\ base.used # NoToken
  BY <1>0, <1>1 DEF ApiTypeOK, Remembers
<1>3. \/ apiLock = <<>> /\ RecoverUnderLock(r, rs, <<r>>, doubt)
      \/ /\ request' = rs /\ apiLock' = Append(apiLock, r) /\ distrusted' = doubt
         /\ UNCHANGED <<token, cooldown>>
  BY DEF RefusedFirst
<1> HIDE DEF base, rs, doubt
<1>4. CASE apiLock = <<>> /\ RecoverUnderLock(r, rs, <<r>>, doubt)
  BY <1>0, <1>1, <1>2, <1>4, RecoveryKeeps
<1>5. CASE /\ request' = rs /\ apiLock' = Append(apiLock, r) /\ distrusted' = doubt
           /\ UNCHANGED <<token, cooldown>>
  <2>1. OthersStay(r) /\ \E i \in DOMAIN apiLock' : apiLock'[i] = r
    BY <1>0, <1>5, LockAwaited
  <2> QED BY <1>0, <1>1, <1>2, <1>5, <2>1, RequestKeeps DEF OthersStay, ApiTypeOK
<1> QED BY <1>3, <1>4, <1>5

LEMMA RecoverKeeps ==
  ASSUME ApiInv, NEW r \in Requests, RecoverGetsLock(r) PROVE ApiInv'
<1>1. /\ request = [request EXCEPT ![r] = request[r]] /\ request[r] \in ApiRequest
      /\ apiLock # <<>> /\ apiLock[1] = r /\ distrusted \in BOOLEAN
      /\ setup' = setup /\ session' = session
  BY DEF ApiInv, ApiTypeOK, RecoverGetsLock, HoldsApiLock
<1>2. RecoverUnderLock(r, [request EXCEPT ![r] = request[r]], apiLock, distrusted)
  BY <1>1 DEF RecoverGetsLock
<1> QED BY <1>1, <1>2, RecoveryKeeps

-------------------------------------------------------------------------------
(* The logins, and what else happens to the session.                            *)

LEMMA LoginReturnsKeeps ==
  ASSUME ApiInv, NEW r \in Requests, LoginReturns(r) PROVE ApiInv'
<1> DEFINE g == request[r].granted
           again == r \in Repeating
           new == [at |-> IF request[r].at = "login" THEN "sent" ELSE "resent",
                   used |-> IF request[r].at = "login" THEN g ELSE request[r].used,
                   sent |-> g, granted |-> NoToken, again |-> again]
<1>0. /\ ApiTypeOK /\ ApiQueued /\ ApiServed /\ GrantsAreNew /\ RefusalsKnown
      /\ request[r].at \in {"login", "relogin"} /\ g # NoToken /\ request[r] \in ApiRequest
      /\ apiLock # <<>> /\ apiLock[1] = r
  BY DEF ApiInv, ApiTypeOK, LoginReturns, ApiServed
<1>1. /\ token' = g /\ distrusted' = FALSE /\ request' = [request EXCEPT ![r] = new]
      /\ apiLock' = Tail(apiLock) /\ UNCHANGED <<cooldown, setup, session>>
  BY DEF LoginReturns, StoresLogin
<1>2. again \in BOOLEAN
  OBVIOUS
<1> HIDE DEF again
<1>3. /\ new \in ApiRequest /\ new.at \in {"sent", "resent"} /\ new.sent = g
      /\ new.granted = NoToken /\ new.used \in {g, request[r].used}
      /\ new.at = "sent" => new.used = g
  BY <1>0, <1>2 DEF ApiRequest, ApiStages
<1> HIDE DEF new
<1>4. /\ request'[r] = new /\ \A q \in Requests \ {r} : request'[q] = request[q]
      /\ request' \in [Requests -> ApiRequest]
  BY <1>0, <1>1, <1>3 DEF ApiTypeOK
<1>5. OthersStay(r)
  BY <1>0, <1>1, LockReleased
<1>6. ApiTypeOK'
  <2>1. g \in Tokens \cup {NoToken}
    BY <1>0 DEF ApiRequest
  <2> QED BY <1>0, <1>1, <1>4, <1>5, <2>1 DEF ApiTypeOK, OthersStay
<1>7. ApiQueued' /\ ApiServed'
  BY <1>0, <1>3, <1>4, <1>5 DEF ApiQueued, ApiServed, OthersStay
<1>8. GrantsAreNew'
  <2>1. ASSUME NEW q \in Requests, request'[q].granted # NoToken
        PROVE  /\ request'[q].granted # token' /\ request'[q].granted # setup'.granted
               /\ \A p \in Requests : /\ request'[q].granted \notin {request'[p].used, request'[p].sent}
                                      /\ p # q => request'[q].granted # request'[p].granted
    <3>1. q # r /\ request'[q] = request[q]
      BY <1>3, <1>4, <2>1
    <3>2. request[q].granted # g /\ request[q].granted # setup.granted
      BY <1>0, <2>1, <3>1 DEF GrantsAreNew
    <3>3. ASSUME NEW p \in Requests
          PROVE  /\ request[q].granted \notin {request'[p].used, request'[p].sent}
                 /\ p # q => request[q].granted # request'[p].granted
      BY <1>0, <1>3, <1>4, <2>1, <3>1, <3>2 DEF GrantsAreNew
    <3> QED BY <1>1, <3>1, <3>2, <3>3
  <2>2. ASSUME setup.granted # NoToken
        PROVE  /\ setup.granted # token'
               /\ \A q \in Requests : setup.granted \notin {request'[q].used, request'[q].sent}
    <3>1. setup.granted # g
      BY <1>0 DEF GrantsAreNew
    <3> QED BY <1>0, <1>1, <1>3, <1>4, <2>2, <3>1 DEF GrantsAreNew
  <2> QED BY <1>1, <2>1, <2>2 DEF GrantsAreNew
<1>9. RefusalsKnown'
  <2>1. Remembers(request[r])'
    BY <1>0, <1>1, <1>3, <1>4 DEF Remembers
  <2>2. ASSUME NEW q \in Requests \ {r} PROVE Remembers(request[q])'
    <3>1. request[q].used # g
      BY <1>0 DEF GrantsAreNew
    <3>2. Remembers(request[q]) /\ request'[q] = request[q]
      BY <1>0, <1>4 DEF RefusalsKnown
    <3> QED BY <1>1, <3>1, <3>2 DEF Remembers
  <2> QED BY <2>1, <2>2 DEF RefusalsKnown
<1> QED BY <1>6, <1>7, <1>8, <1>9 DEF ApiInv

\* Steps that leave the requests and the lock as they are.
LEMMA ApiAsideKeeps ==
  ASSUME ApiInv, request' = request, apiLock' = apiLock, cooldown' \in 0..Cooldown,
         setup' \in SetupState, setup'.granted \in {setup.granted, NoToken},
         session' \in Tokens \cup {NoToken},
         \/ token' = token /\ distrusted' = distrusted
         \/ token' = NoToken /\ distrusted' \in BOOLEAN
         \/ token' = setup.granted /\ setup.granted # NoToken /\ setup'.granted = NoToken
            /\ distrusted' \in BOOLEAN
  PROVE  ApiInv'
<1>0. ApiTypeOK /\ ApiQueued /\ ApiServed /\ GrantsAreNew /\ RefusalsKnown
  BY DEF ApiInv
<1>1. ApiTypeOK'
  BY <1>0 DEF ApiTypeOK, SetupState
<1>2. ApiQueued' /\ ApiServed'
  BY <1>0 DEF ApiQueued, ApiServed
<1>3. GrantsAreNew'
  BY <1>0 DEF GrantsAreNew
<1>4. RefusalsKnown'
  <2> SUFFICES ASSUME NEW r \in Requests PROVE Remembers(request[r])'
    BY DEF RefusalsKnown
  <2>1. Remembers(request[r]) /\ (setup.granted # NoToken => request[r].used # setup.granted)
    BY <1>0 DEF RefusalsKnown, GrantsAreNew
  <2> QED BY <2>1 DEF Remembers
<1> QED BY <1>1, <1>2, <1>3, <1>4 DEF ApiInv

LEMMA SetupKeeps == ASSUME ApiInv, SetupStep PROVE ApiInv'
<1>0. ApiTypeOK /\ SetupAttempts \in Nat \ {0}
  BY ApiAssumption DEF ApiInv
<1>1. CASE SetupLogin
  <2>1. setup' \in SetupState /\ setup'.granted = setup.granted
    BY <1>0, <1>1 DEF SetupLogin, ApiTypeOK, SetupState
  <2> QED BY <1>0, <1>1, <2>1, ApiAsideKeeps DEF SetupLogin, ApiTypeOK
<1>2. CASE SetupLoginReturns
  <2>1. setup' \in SetupState /\ setup'.granted = NoToken
    BY <1>0, <1>2 DEF SetupLoginReturns, ApiTypeOK, SetupState
  <2> QED BY <1>0, <1>2, <2>1, ApiAsideKeeps DEF SetupLoginReturns, StoresLogin, ApiTypeOK
<1>3. CASE SetupLoginRejected
  <2>1. setup' \in SetupState /\ setup'.granted = setup.granted
    <3>1. CASE setup.attempt < SetupAttempts
      <4>1. setup \in SetupState
        BY <1>0 DEF ApiTypeOK
      <4>2. setup.attempt \in 1 .. SetupAttempts
        BY <4>1 DEF SetupState
      <4>3. setup.attempt + 1 \in 1 .. SetupAttempts
        BY <1>0, <3>1, <4>2
      <4>4. setup' = [setup EXCEPT !.at = "sleep", !.attempt = setup.attempt + 1]
        BY <1>3, <3>1 DEF SetupLoginRejected
      <4> QED BY <4>1, <4>3, <4>4 DEF SetupState
    <3>2. CASE ~(setup.attempt < SetupAttempts)
      BY <1>0, <1>3, <3>2 DEF SetupLoginRejected, ApiTypeOK, SetupState
    <3> QED BY <3>1, <3>2
  <2> QED BY <1>0, <1>3, <2>1, ApiAsideKeeps DEF SetupLoginRejected, ApiTypeOK
<1>4. CASE SetupLoginFails
  <2>1. setup' \in SetupState /\ setup'.granted = NoToken
    BY <1>0, <1>4 DEF SetupLoginFails, ApiTypeOK, SetupState
  <2> QED BY <1>0, <1>4, <2>1, ApiAsideKeeps DEF SetupLoginFails, ApiTypeOK
<1> QED BY <1>1, <1>2, <1>3, <1>4 DEF SetupStep

LEMMA OthersKeep == ASSUME ApiInv, SessionTaken \/ BrokerRefused \/ CooldownTick PROVE ApiInv'
<1>0. ApiTypeOK /\ Cooldown \in Nat
  BY ApiAssumption DEF ApiInv
<1>1. CASE SessionTaken
  BY <1>0, <1>1, ApiAsideKeeps DEF SessionTaken, ApiTypeOK
<1>2. CASE BrokerRefused
  BY <1>0, <1>2, ApiAsideKeeps DEF BrokerRefused, ApiTypeOK
<1>3. CASE CooldownTick
  <2>1. cooldown' \in 0..Cooldown
    BY <1>0, <1>3 DEF CooldownTick, ApiTypeOK
  <2> QED BY <1>0, <1>3, <2>1, ApiAsideKeeps DEF CooldownTick, ApiTypeOK
<1> QED BY <1>1, <1>2, <1>3

\* The cloud issues a token nobody holds.
LEMMA NotHeld ==
  ASSUME NEW t \in Tokens \ TokensHeld
  PROVE  /\ t # token /\ t # session /\ t # setup.granted
         /\ \A q \in Requests : /\ t # request[q].used /\ t # request[q].sent
                               /\ t # request[q].granted
BY DEF TokensHeld

LEMMA GrantsKeeps == ASSUME ApiInv, Grants PROVE ApiInv'
<1>0. ApiTypeOK /\ ApiQueued /\ ApiServed /\ GrantsAreNew /\ RefusalsKnown
  BY DEF ApiInv
<1>1. PICK t \in Tokens \ TokensHeld : CloudGrants(t)
  BY DEF Grants
<1>2. /\ t # token /\ t # setup.granted
      /\ \A q \in Requests : t # request[q].used /\ t # request[q].sent /\ t # request[q].granted
  BY NotHeld
<1>3. session' = t /\ UNCHANGED <<token, apiLock, cooldown, distrusted>>
  BY <1>1 DEF CloudGrants
<1>4. CASE /\ setup.at = "login" /\ setup.granted = NoToken
           /\ setup' = [setup EXCEPT !.granted = t] /\ request' = request
  <2>1. setup' \in SetupState /\ setup'.granted = t
    BY <1>0, <1>4 DEF ApiTypeOK, SetupState
  <2>2. ApiTypeOK'
    BY <1>0, <1>3, <1>4, <2>1 DEF ApiTypeOK
  <2>3. ApiQueued' /\ ApiServed'
    BY <1>0, <1>3, <1>4 DEF ApiQueued, ApiServed
  <2>4. GrantsAreNew'
    <3>1. ASSUME NEW q \in Requests, request[q].granted # NoToken
          PROVE  /\ request[q].granted # token /\ request[q].granted # t
                 /\ \A p \in Requests : /\ request[q].granted \notin {request[p].used, request[p].sent}
                                        /\ p # q => request[q].granted # request[p].granted
      <4>1. /\ request[q].granted # token
            /\ \A p \in Requests : /\ request[q].granted \notin {request[p].used, request[p].sent}
                                   /\ p # q => request[q].granted # request[p].granted
        BY <1>0, <3>1 DEF GrantsAreNew
      <4>2. request[q].granted # t
        BY <1>2
      <4> QED BY <4>1, <4>2
    <3> QED BY <1>2, <1>3, <1>4, <2>1, <3>1 DEF GrantsAreNew
  <2>5. RefusalsKnown'
    BY <1>0, <1>3, <1>4 DEF RefusalsKnown, Remembers
  <2> QED BY <2>2, <2>3, <2>4, <2>5 DEF ApiInv
<1>5. ASSUME NEW r \in Requests, request[r].at \in {"login", "relogin"}, request[r].granted = NoToken,
             request' = [request EXCEPT ![r].granted = t], setup' = setup
      PROVE  ApiInv'
  <2>1. /\ request' \in [Requests -> ApiRequest]
        /\ request'[r].at = request[r].at /\ request'[r].used = request[r].used
        /\ request'[r].sent = request[r].sent /\ request'[r].granted = t
        /\ \A q \in Requests \ {r} : request'[q] = request[q]
    <3>1. request \in [Requests -> ApiRequest] /\ request[r] \in ApiRequest
      BY <1>0 DEF ApiTypeOK
    <3> QED BY <1>5, <3>1 DEF ApiRequest
  <2>2. ApiTypeOK'
    BY <1>0, <1>3, <1>5, <2>1 DEF ApiTypeOK
  <2>3. ApiQueued' /\ ApiServed'
    BY <1>0, <1>3, <2>1 DEF ApiQueued, ApiServed
  <2>4. GrantsAreNew'
    <3>1. \A q \in Requests : /\ request'[q].used = request[q].used
                             /\ request'[q].sent = request[q].sent
      BY <2>1
    <3>2. ASSUME NEW q \in Requests, request'[q].granted # NoToken
          PROVE  /\ request'[q].granted # token' /\ request'[q].granted # setup'.granted
                 /\ \A p \in Requests : /\ request'[q].granted \notin {request'[p].used, request'[p].sent}
                                        /\ p # q => request'[q].granted # request'[p].granted
      <4>1. CASE q = r
        BY <1>2, <1>3, <1>5, <2>1, <3>1, <4>1
      <4>2. CASE q # r
        <5>1. request'[q] = request[q] /\ request[q].granted # t
          BY <1>2, <2>1, <4>2
        <5> QED BY <1>0, <1>3, <1>5, <2>1, <3>1, <3>2, <5>1 DEF GrantsAreNew
      <4> QED BY <4>1, <4>2
    <3> QED BY <1>0, <1>3, <1>5, <3>1, <3>2 DEF GrantsAreNew
  <2>5. RefusalsKnown'
    BY <1>0, <1>3, <2>1 DEF RefusalsKnown, Remembers
  <2> QED BY <2>2, <2>3, <2>4, <2>5 DEF ApiInv
<1> QED BY <1>1, <1>4, <1>5 DEF CloudGrants

LEMMA ApiInvNext == ASSUME ApiInv, [ApiNext]_apiVars PROVE ApiInv'
<1>1. CASE UNCHANGED apiVars
  BY <1>1 DEF apiVars, ApiInv, ApiTypeOK, ApiQueued, ApiServed, GrantsAreNew, RefusalsKnown, Remembers
<1>2. CASE \E r \in Requests : RequestStep(r)
  BY <1>2, CallsKeep, CallsWithoutKeep, EnsureKeeps, LoginReturnsKeeps, LoginFailsKeeps,
     AcceptedKeeps, AttemptFailsKeeps, RefusedFirstKeeps, RecoverKeeps, RefusedAgainKeeps,
     RequestCancelledKeeps DEF RequestStep
<1>3. CASE SetupStep
  BY <1>3, SetupKeeps
<1>4. CASE Grants
  BY <1>4, GrantsKeeps
<1>5. CASE SessionTaken \/ BrokerRefused \/ CooldownTick
  BY <1>5, OthersKeep
<1> QED BY <1>1, <1>2, <1>3, <1>4, <1>5 DEF ApiNext

LEMMA ApiAlways == ApiSpec => []ApiInv
<1>1. ApiInit => ApiInv
  BY ApiInvInit
<1>2. ApiInv /\ [ApiNext]_apiVars => ApiInv'
  BY ApiInvNext
<1> QED BY <1>1, <1>2, PTL DEF ApiSpec

\* The HTTP session's types, for any number of requests and tokens: the lock's queue
\* holds callers, and every request is at one of its awaits with what it remembers.
THEOREM ApiTypeCorrect == ApiSpec => []ApiTypeOK
<1>1. ApiInv => ApiTypeOK
  BY DEF ApiInv
<1> QED BY <1>1, ApiAlways, PTL

-------------------------------------------------------------------------------
(* A token that works is not thrown away.                                       *)

\* A request that ends, or sends an attempt, is in no re-login.
LEMMA NoRelogin ==
  ASSUME ApiTypeOK, NEW r \in Requests, NEW req, request' = [request EXCEPT ![r] = req],
         req.at # "relogin", NEW q \in Requests, request[q].at # "relogin"
  PROVE  request'[q].at # "relogin"
BY DEF ApiTypeOK

\* Under the lock a re-login begins only if the token in place is the refused one.
LEMMA ReloginUnderLock ==
  ASSUME NEW r \in Requests, NEW rs \in [Requests -> ApiRequest], NEW lock, NEW doubt,
         RecoverUnderLock(r, rs, lock, doubt), NEW q \in Requests, rs[q].at # "relogin",
         request'[q].at = "relogin", token # NoToken
  PROVE  q = r /\ rs[r].used = token
<1>1. CASE LoggedInMeanwhile(rs[r].used)
  <2>1. request' = [rs EXCEPT ![r] = [AttemptSent(rs[r], "resent") EXCEPT !.again = r \in Repeating]]
    BY <1>1 DEF RecoverUnderLock
  <2>2. [AttemptSent(rs[r], "resent") EXCEPT !.again = r \in Repeating].at = "resent"
    BY DEF AttemptSent, ApiRequest
  <2> QED BY <2>1, <2>2
<1>2. CASE ~LoggedInMeanwhile(rs[r].used)
  <2>1. \/ request' = [rs EXCEPT ![r] = NoRequest]
        \/ request' = [rs EXCEPT ![r].at = "relogin"]
    BY <1>2 DEF RecoverUnderLock
  <2> QED BY <1>2, <2>1, NoRequestType DEF LoggedInMeanwhile
<1> QED BY <1>1, <1>2

LEMMA ReloginOfOne ==
  ASSUME ApiInv, NEW r \in Requests, RequestStep(r), NEW q \in Requests,
         request[q].at # "relogin", request'[q].at = "relogin", token # NoToken
  PROVE  distrusted \/ (request[q].at = "sent" /\ request[q].sent = token)
<1>0. ApiTypeOK /\ Remembers(request[r]) /\ request \in [Requests -> ApiRequest]
  BY DEF ApiInv, RefusalsKnown, ApiTypeOK
<1>1. CASE RefusedFirst(r)
  <2> DEFINE rs == [request EXCEPT ![r].at = "recover", ![r].sent = NoToken]
             doubt == distrusted \/ (request[r].sent = token /\ token # NoToken)
  <2>1. /\ request[r].at = "sent" /\ rs \in [Requests -> ApiRequest]
        /\ rs[r].used = request[r].used /\ rs[r].at = "recover"
        /\ \A p \in Requests \ {r} : rs[p] = request[p]
    BY <1>0, <1>1 DEF RefusedFirst, ApiRequest, ApiStages
  <2>2. RecoverUnderLock(r, rs, <<r>>, doubt) \/ request' = rs
    BY <1>1 DEF RefusedFirst
  <2> HIDE DEF rs, doubt
  <2>3. rs[q].at # "relogin"
    BY <2>1
  <2>4. RecoverUnderLock(r, rs, <<r>>, doubt)
    BY <2>2, <2>3
  <2>5. q = r /\ rs[r].used = token
    BY <2>1, <2>3, <2>4, ReloginUnderLock
  <2> QED BY <1>0, <2>1, <2>5 DEF Remembers
<1>2. CASE RecoverGetsLock(r)
  <2>1. request[r].at = "recover" /\ RecoverUnderLock(r, request, apiLock, distrusted)
    BY <1>2 DEF RecoverGetsLock
  <2>2. q = r /\ request[r].used = token
    BY <1>0, <2>1, ReloginUnderLock
  <2> QED BY <1>0, <2>1, <2>2 DEF Remembers
<1>3. CASE CallsWithToken(r)
  <2> DEFINE new == [AttemptSent(NoRequest, "sent") EXCEPT !.used = token, !.again = r \in Repeating]
  <2>1. request' = [request EXCEPT ![r] = new] /\ new.at = "sent"
    BY <1>3, NoRequestType DEF CallsWithToken, AttemptSent, ApiRequest
  <2> HIDE DEF new
  <2> QED BY <1>0, <2>1, NoRelogin
<1>4. CASE CallsWithoutToken(r)
  BY <1>4 DEF CallsWithoutToken
<1>5. CASE EnsureGetsLock(r)
  <2> DEFINE new == [AttemptSent(request[r], "sent") EXCEPT !.used = token, !.again = r \in Repeating]
  <2>1. request' = [request EXCEPT ![r] = new] /\ new.at = "sent"
    BY <1>0, <1>5 DEF EnsureGetsLock, AttemptSent, ApiRequest
  <2> HIDE DEF new
  <2> QED BY <1>0, <2>1, NoRelogin
<1>6. CASE LoginReturns(r)
  <2> DEFINE new == [at |-> IF request[r].at = "login" THEN "sent" ELSE "resent",
                     used |-> IF request[r].at = "login" THEN request[r].granted ELSE request[r].used,
                     sent |-> request[r].granted, granted |-> NoToken, again |-> r \in Repeating]
  <2>1. request' = [request EXCEPT ![r] = new] /\ new.at # "relogin"
    BY <1>6 DEF LoginReturns
  <2> HIDE DEF new
  <2> QED BY <1>0, <2>1, NoRelogin
<1>7. CASE LoginFails(r) \/ RequestAccepted(r) \/ RefusedAgain(r) \/ RequestCancelled(r)
  <2>1. request' = [request EXCEPT ![r] = NoRequest]
    BY <1>7 DEF LoginFails, RequestAccepted, RefusedAgain, RequestCancelled
  <2> QED BY <1>0, <2>1, NoRequestType, NoRelogin
<1>8. CASE AttemptFails(r)
  <2> DEFINE new == [AttemptSent(request[r], request[r].at) EXCEPT !.again = FALSE]
  <2>1. request' = [request EXCEPT ![r] = new] \/ request' = [request EXCEPT ![r] = NoRequest]
    BY <1>8 DEF AttemptFails
  <2>2. new.at # "relogin"
    BY <1>0, <1>8 DEF AttemptFails, AttemptSent, ApiRequest
  <2> HIDE DEF new
  <2> QED BY <1>0, <2>1, <2>2, NoRequestType, NoRelogin
<1> QED BY <1>1, <1>2, <1>3, <1>4, <1>5, <1>6, <1>7, <1>8 DEF RequestStep

LEMMA ReloginNext ==
  ASSUME ApiInv, [ApiNext]_apiVars
  PROVE  \A r \in Requests :
           /\ request[r].at # "relogin" /\ request'[r].at = "relogin"
           /\ token # NoToken
           => \/ distrusted
              \/ request[r].at = "sent" /\ request[r].sent = token
<1>0. request \in [Requests -> ApiRequest]
  BY DEF ApiInv, ApiTypeOK
<1>1. CASE \E r \in Requests : RequestStep(r)
  BY <1>1, ReloginOfOne
<1>2. CASE UNCHANGED apiVars \/ SetupStep \/ SessionTaken \/ BrokerRefused \/ CooldownTick
  <2>1. request' = request
    BY <1>2 DEF apiVars, SetupStep, SetupLogin, SetupLoginReturns, SetupLoginRejected,
                SetupLoginFails, SessionTaken, BrokerRefused, CooldownTick
  <2> QED BY <2>1
<1>3. CASE Grants
  <2>1. PICK t \in Tokens \ TokensHeld : CloudGrants(t)
    BY <1>3 DEF Grants
  <2>2. request' = request \/ \E r \in Requests : request' = [request EXCEPT ![r].granted = t]
    BY <2>1 DEF CloudGrants
  <2>3. \A r \in Requests : request'[r].at = request[r].at
    BY <1>0, <2>2 DEF ApiRequest
  <2> QED BY <2>3
<1> QED BY <1>1, <1>2, <1>3 DEF ApiNext

\* A re-login throws away only a token that was refused: either its own attempt was
\* answered with the refusal of it, or an earlier one was.  Requests refused with one
\* token, that came to the lock one after the other, find what the first has left.
THEOREM FreshTokensKept == ApiSpec => FreshTokenKept
<1>1. ApiInv /\ [ApiNext]_apiVars =>
        [\A r \in Requests :
           /\ request[r].at # "relogin" /\ request'[r].at = "relogin"
           /\ token # NoToken
           => \/ distrusted
              \/ request[r].at = "sent" /\ request[r].sent = token]_apiVars
  BY ReloginNext
<1> QED BY <1>1, ApiAlways, PTL DEF ApiSpec, FreshTokenKept

(***************************************************************************)
(* Theorems about CommandDispatch, for every number of commands and of      *)
(* broker sessions.                                                         *)
(***************************************************************************)

-------------------------------------------------------------------------------
(* Types.                                                                    *)

\* The helpers keep to the numbers of the commands there are.
LEMMA OfSessionType ==
  ASSUME NEW value \in Ids
  PROVE  OfSession(value) \in Ids /\ OfSession(value) \in {0, value}
BY DispatchAssumption DEF OfSession, Ids

LEMMA BindType ==
  ASSUME CdTypeOK, NEW n \in Commands, NEW cmd \in Command, Bind(n, cmd)
  PROVE  /\ cdCommand' \in [Commands -> Command]
         /\ cdKnown' \in 0..MaxGenerations
         /\ cdAttempt' \in Ids /\ cdFailure' \in Ids /\ cdSuccess' \in Ids
<1>1. [cmd EXCEPT !.gen = cdClient.gen] \in Command
  BY DEF Command, CdTypeOK
<1>2. n \in Ids
  BY DEF Commands, Ids
<1> QED BY <1>1, <1>2, OfSessionType DEF Bind, CdTypeOK

LEMMA RecordType ==
  ASSUME CdTypeOK, NEW n \in Commands, RecordResult(n)
  PROVE  /\ cdKnown' \in 0..MaxGenerations
         /\ cdAttempt' \in Ids /\ cdFailure' \in Ids /\ cdSuccess' \in Ids
<1>1. n \in Ids /\ 0 \in Ids
  BY DispatchAssumption DEF Commands, Ids
<1> QED BY <1>1, OfSessionType DEF RecordResult, CdTypeOK

\* What a cancellation leaves of the command.
LEMMA CancelledFields ==
  ASSUME CdTypeOK, NEW n \in Commands, CommandCancelled(n)
  PROVE  LET old == cdCommand[n]
             new == cdCommand'[n]
         IN  /\ new \in Command
             /\ new.caller = IF old.caller = "wait" THEN "cancelled" ELSE old.caller
             /\ new.ble = IF BleOver(n) THEN old.ble ELSE "cancelled"
             /\ new.cloud = IF CloudOver(n) THEN old.cloud ELSE "cancelled"
<1>1. cdCommand[n] \in Command /\ cdCommand \in [Commands -> Command]
  BY DEF CdTypeOK
<1> QED BY <1>1 DEF CommandCancelled, Command, Callers, BleStages, CloudStages

LEMMA CdTypeInit == CdInit => CdTypeOK
<1>1. NoCommand \in Command
  BY DispatchAssumption DEF NoCommand, Command, Callers, BleStages, CloudStages
<1> QED BY <1>1, DispatchAssumption DEF CdInit, CdTypeOK, Ids

LEMMA CdTypeNext == CdTypeOK /\ [CdNext]_cdVars => CdTypeOK'
<1> SUFFICES ASSUME CdTypeOK, [CdNext]_cdVars PROVE CdTypeOK'
  OBVIOUS
<1>0. NoCommand \in Command
  BY DispatchAssumption DEF NoCommand, Command, Callers, BleStages, CloudStages
<1>1. ASSUME NEW n \in Commands, CommandStep(n) PROVE CdTypeOK'
  <2> USE <1>1
  <2>0. cdCommand[n] \in Command
    BY DEF CdTypeOK
  <2>1. ASSUME NEW ble \in BOOLEAN, NEW ensure \in BOOLEAN, CommandBegins(n, ble, ensure)
        PROVE  CdTypeOK'
    <3>1. [NoCommand EXCEPT !.caller = "wait", !.ble = IF ble THEN "run" ELSE "none",
             !.cloud = IF ensure \/ cdClient.up THEN "created" ELSE "none"] \in Command
      BY <1>0 DEF Command, Callers, BleStages, CloudStages, CloudRunning
    <3> QED BY <2>1, <3>1, BindType DEF CommandBegins, CdTypeOK
  <2>2. CASE CallerSucceeds(n)
    <3>1. cdCommand' \in [Commands -> Command]
      BY <2>0, <2>2 DEF CallerSucceeds, CdTypeOK, Command, Callers, BleOver, CloudOver
    <3> QED BY <2>2, <3>1, RecordType DEF CallerSucceeds, CdTypeOK
  <2>3. CASE CallerFails(n) \/ RestEnds(n)
    <3>1. CASE CallerFails(n)
      BY <2>0, <3>1, RecordType DEF CallerFails, CdTypeOK, Command, Callers
    <3>2. CASE RestEnds(n)
      BY <2>0, <3>2, RecordType DEF RestEnds, CdTypeOK, Command
    <3> QED BY <2>3, <3>1, <3>2
  <2>4. CASE CommandCancelled(n)
    <3>1. cdCommand' \in [Commands -> Command]
      BY <2>4, CancelledFields DEF CommandCancelled, CdTypeOK
    <3> QED BY <2>4, <3>1 DEF CommandCancelled, CdTypeOK
  <2>5. ASSUME NEW ok \in BOOLEAN, BleEnds(n, ok) PROVE CdTypeOK'
    BY <2>0, <2>5 DEF BleEnds, CdTypeOK, Command, BleStages
  <2>6. CASE CloudPublishes(n) \/ CloudFails(n)
    <3>1. /\ [cdCommand[n] EXCEPT !.cloud = "publish"] \in Command
          /\ [cdCommand[n] EXCEPT !.cloud = "failed"] \in Command
      BY <2>0 DEF Command, CloudStages, CloudRunning
    <3> QED BY <2>6, <3>1, BindType DEF CloudPublishes, CloudFails, CdTypeOK
  <2>7. CASE CloudEnsures(n) \/ CloudSucceeds(n) \/ CloudRetries(n)
    BY <2>0, <2>7 DEF CloudEnsures, CloudSucceeds, CloudRetries, CdTypeOK, Command,
                      CloudStages, CloudRunning
  <2>8. CASE CloudStops(n)
    <3>1. cdCommand' \in [Commands -> Command]
      BY <2>0, <2>8 DEF CloudStops, CdTypeOK, Command, CloudStages, CloudRunning
    <3>2. cdClient' \in [gen : 0..MaxGenerations, up : BOOLEAN]
      BY <2>8, DispatchAssumption DEF CloudStops, CdTypeOK
    <3> QED BY <2>8, <3>1, <3>2 DEF CloudStops, CdTypeOK
  <2> QED BY <2>1, <2>2, <2>3, <2>4, <2>5, <2>6, <2>7, <2>8 DEF CommandStep
<1>2. CASE SessionBegins
  BY <1>2, DispatchAssumption DEF SessionBegins, CdTypeOK
<1>3. CASE LinkChanges
  BY <1>3 DEF LinkChanges, CdTypeOK
<1>4. CASE SessionNoticed
  BY <1>4, DispatchAssumption DEF SessionNoticed, CdTypeOK, Ids
<1>5. CASE UNCHANGED cdVars
  BY <1>5 DEF cdVars, CdTypeOK
<1> QED BY <1>1, <1>2, <1>3, <1>4, <1>5 DEF CdNext

\* The record of the commands and of the session keeps its types.
THEOREM DispatchTypeCorrect == CdSpec => []CdTypeOK
BY CdTypeInit, CdTypeNext, PTL DEF CdSpec

-------------------------------------------------------------------------------
(* The caller's answer.                                                      *)

\* A command that has not begun has no transport at work.
UnusedIsBlank == \A n \in Commands : cdCommand[n].caller = "none" => cdCommand[n] = NoCommand

AnswerInv == UnusedIsBlank /\ AnswerIsFinal

LEMMA AnswerInit == CdInit => AnswerInv
BY DEF CdInit, AnswerInv, UnusedIsBlank, AnswerIsFinal, NoCommand, BleOver, CloudOver,
       CloudRunning

\* What AnswerInv says of one command.
AnswerOf(n) ==
  /\ cdCommand[n].caller = "none" => cdCommand[n] = NoCommand
  /\ cdCommand[n].caller = "ok" => Succeeded(n)
  /\ cdCommand[n].caller = "failed" => BleOver(n) /\ CloudOver(n) /\ ~Succeeded(n)
  /\ cdCommand[n].caller = "cancelled" => BleOver(n) /\ CloudOver(n)

\* A step of n leaves the other commands alone.
LEMMA OthersUnchanged ==
  ASSUME CdTypeOK, NEW n \in Commands, CommandStep(n), NEW m \in Commands, m # n
  PROVE  cdCommand'[m] = cdCommand[m]
BY DEF CdTypeOK, CommandStep, CommandBegins, CallerSucceeds, CallerFails, RestEnds,
       CommandCancelled, BleEnds, CloudPublishes, CloudEnsures, CloudSucceeds,
       CloudRetries, CloudStops, CloudFails, Bind

LEMMA AnswerStep ==
  ASSUME CdTypeOK, NEW n \in Commands, AnswerOf(n), CommandStep(n)
  PROVE  AnswerOf(n)'
<1>0. cdCommand[n] \in Command /\ cdCommand \in [Commands -> Command]
  BY DEF CdTypeOK
<1> USE <1>0 DEF AnswerOf, Succeeded, BleOver, CloudOver, CloudRunning
<1>1. ASSUME NEW ble \in BOOLEAN, NEW ensure \in BOOLEAN, CommandBegins(n, ble, ensure)
      PROVE  AnswerOf(n)'
  BY <1>1 DEF CommandBegins, Bind, NoCommand
<1>2. CASE CallerSucceeds(n) \/ CallerFails(n) \/ RestEnds(n)
  BY <1>2 DEF CallerSucceeds, CallerFails, RestEnds, Command, NoCommand
<1>3. CASE CommandCancelled(n)
  <2>1. BleOver(n)' /\ CloudOver(n)'
    BY <1>3, CancelledFields
  <2>2. Succeeded(n)' <=> Succeeded(n)
    BY <1>3, CancelledFields
  <2>3. cdCommand[n].caller # "none"
    BY <1>3 DEF CommandCancelled, NoCommand
  <2> QED BY <1>3, <2>1, <2>2, <2>3, CancelledFields
<1>4. ASSUME NEW ok \in BOOLEAN, BleEnds(n, ok) PROVE AnswerOf(n)'
  BY <1>4 DEF BleEnds, Command, NoCommand
<1>5. CASE CloudPublishes(n) \/ CloudFails(n)
  <2>1. /\ cdCommand[n].cloud \in CloudRunning
        /\ cdCommand'[n].caller = cdCommand[n].caller /\ cdCommand'[n].ble = cdCommand[n].ble
    BY <1>5 DEF CloudPublishes, CloudFails, Bind, Command
  <2>2. cdCommand[n].caller \notin {"none", "failed", "cancelled"}
    BY <2>1 DEF NoCommand
  <2>3. cdCommand[n].caller = "ok" => cdCommand[n].ble = "ok"
    BY <2>1
  <2> QED BY <2>1, <2>2, <2>3
<1>6. CASE CloudEnsures(n) \/ CloudSucceeds(n) \/ CloudRetries(n) \/ CloudStops(n)
  BY <1>6 DEF CloudEnsures, CloudSucceeds, CloudRetries, CloudStops, Command, NoCommand
<1> QED BY <1>1, <1>2, <1>3, <1>4, <1>5, <1>6 DEF CommandStep

LEMMA AnswerNext == CdTypeOK /\ AnswerInv /\ [CdNext]_cdVars => AnswerInv'
<1> SUFFICES ASSUME CdTypeOK, AnswerInv, [CdNext]_cdVars PROVE AnswerInv'
  OBVIOUS
<1>1. AnswerInv <=> \A m \in Commands : AnswerOf(m)
  BY DEF AnswerInv, UnusedIsBlank, AnswerIsFinal, AnswerOf
<1>2. AnswerInv' <=> \A m \in Commands : AnswerOf(m)'
  BY DEF AnswerInv, UnusedIsBlank, AnswerIsFinal, AnswerOf
<1>3. ASSUME NEW n \in Commands, CommandStep(n), NEW m \in Commands PROVE AnswerOf(m)'
  <2>1. CASE m = n
    BY <1>1, <1>3, <2>1, AnswerStep
  <2>2. CASE m # n
    BY <1>1, <1>3, <2>2, OthersUnchanged DEF AnswerOf, Succeeded, BleOver, CloudOver
  <2> QED BY <2>1, <2>2
<1>4. CASE UNCHANGED cdCommand
  BY <1>1, <1>2, <1>4 DEF AnswerOf, Succeeded, BleOver, CloudOver
<1> QED BY <1>2, <1>3, <1>4 DEF CdNext, SessionBegins, LinkChanges, SessionNoticed, cdVars

\* The caller's answer is final: see AnswerIsFinal.
THEOREM AnswersAreFinal == CdSpec => []AnswerIsFinal
<1>1. AnswerInv => AnswerIsFinal
  BY DEF AnswerInv
<1> QED BY <1>1, CdTypeInit, CdTypeNext, AnswerInit, AnswerNext, PTL DEF CdSpec

-------------------------------------------------------------------------------
(* The record of the cloud's results.                                        *)

\* The success recorded belongs to a bound command whose cloud task has ended well;
\* so its record cannot fail later, nor can that of a command bound before it.
SuccessIsBound == cdSuccess <= cdAttempt
SuccessIsOver  == cdSuccess # 0 => cdCommand[cdSuccess].cloud = "ok"

RecordInv == SuccessIsBound /\ SuccessIsOver /\ NewerOutcomeStands

LEMMA RecordInit == CdInit => RecordInv
BY DEF CdInit, RecordInv, SuccessIsBound, SuccessIsOver, NewerOutcomeStands

\* A cloud task that has ended well keeps its result.
LEMMA CloudOkIsFinal ==
  ASSUME CdTypeOK, AnswerInv, NEW n \in Commands, CommandStep(n),
         NEW m \in Commands, cdCommand[m].cloud = "ok"
  PROVE  cdCommand'[m].cloud = "ok"
<1>1. CASE m # n
  BY <1>1, OthersUnchanged
<1>2. CASE m = n
  <2>1. cdCommand[n] \in Command /\ cdCommand \in [Commands -> Command]
    BY DEF CdTypeOK
  <2>2. cdCommand[n].caller # "none"
    BY <1>2 DEF AnswerInv, UnusedIsBlank, NoCommand
  <2>3. CASE CommandCancelled(n)
    BY <1>2, <2>3, CancelledFields DEF CloudOver, CloudRunning
  <2>4. CASE CallerSucceeds(n) \/ CallerFails(n) \/ RestEnds(n)
    BY <1>2, <2>1, <2>4 DEF Command, CallerSucceeds, CallerFails, RestEnds
  <2>5. CASE \E ok \in BOOLEAN : BleEnds(n, ok)
    BY <1>2, <2>1, <2>5 DEF Command, BleEnds
  <2> QED BY <1>2, <2>2, <2>3, <2>4, <2>5
          DEF CommandStep, CommandBegins, CloudPublishes, CloudEnsures, CloudSucceeds,
              CloudRetries, CloudStops, CloudFails, CloudRunning
<1> QED BY <1>1, <1>2

\* Binding a command, and noticing a session, keep the order of the results.
LEMMA BindKeepsOrder ==
  ASSUME CdTypeOK, SuccessIsBound, NewerOutcomeStands,
         NEW n \in Commands, NEW cmd, Bind(n, cmd)
  PROVE  SuccessIsBound' /\ NewerOutcomeStands' /\ cdSuccess' \in {0, cdSuccess}
<1>1. /\ cdSuccess \in Nat /\ cdAttempt \in Nat /\ cdFailure \in Nat /\ n \in Nat
  BY DispatchAssumption DEF CdTypeOK, Ids, Commands
<1> QED BY <1>1 DEF Bind, OfSession, SuccessIsBound, NewerOutcomeStands

\* A result is recorded only for the command bound last, which is not older than
\* the success recorded, and is not that one when it failed.
LEMMA RecordKeepsOrder ==
  ASSUME CdTypeOK, RecordInv, NEW n \in Commands, RecordResult(n)
  PROVE  /\ SuccessIsBound' /\ NewerOutcomeStands'
         /\ cdSuccess' \in {0, cdSuccess} \/ (cdSuccess' = n /\ cdCommand[n].cloud = "ok")
<1>1. /\ cdSuccess \in Nat /\ cdAttempt \in Nat /\ cdFailure \in Nat /\ n \in Nat /\ n # 0
  BY DispatchAssumption DEF CdTypeOK, Ids, Commands
<1>2. CASE IsCurrent(n)
  <2>1. cdKnown = cdClient.gen /\ cdAttempt = n
    BY <1>1, <1>2 DEF IsCurrent, OfSession
  <2>2. cdCommand[n].cloud = "failed" => cdSuccess # n
    BY <1>1 DEF RecordInv, SuccessIsOver
  <2> QED BY <1>1, <1>2, <2>1, <2>2 DEF RecordResult, OfSession, RecordInv, SuccessIsBound,
                                       NewerOutcomeStands
<1>3. CASE ~IsCurrent(n)
  BY <1>1, <1>3 DEF RecordResult, OfSession, RecordInv, SuccessIsBound, NewerOutcomeStands
<1> QED BY <1>2, <1>3

LEMMA RecordNext == CdTypeOK /\ AnswerInv /\ RecordInv /\ [CdNext]_cdVars => RecordInv'
<1> SUFFICES ASSUME CdTypeOK, AnswerInv, RecordInv, [CdNext]_cdVars PROVE RecordInv'
  OBVIOUS
<1>0. /\ cdSuccess \in Nat
      /\ cdSuccess # 0 => cdSuccess \in Commands
      /\ SuccessIsBound /\ SuccessIsOver /\ NewerOutcomeStands
  BY DispatchAssumption DEF CdTypeOK, Ids, Commands, RecordInv
<1>1. ASSUME NEW n \in Commands, CommandStep(n) PROVE RecordInv'
  <2>1. /\ SuccessIsBound' /\ NewerOutcomeStands'
        /\ cdSuccess' \in {0, cdSuccess} \/ (cdSuccess' = n /\ cdCommand[n].cloud = "ok")
    <3>1. CASE \/ \E ble, ensure \in BOOLEAN : CommandBegins(n, ble, ensure)
               \/ CloudPublishes(n) \/ CloudFails(n)
      BY <1>0, <3>1, BindKeepsOrder DEF CommandBegins, CloudPublishes, CloudFails
    <3>2. CASE RecordResult(n)
      BY <3>2, RecordKeepsOrder
    <3>3. CASE UNCHANGED <<cdAttempt, cdFailure, cdSuccess>>
      BY <1>0, <3>3 DEF SuccessIsBound, NewerOutcomeStands
    <3> QED BY <1>1, <3>1, <3>2, <3>3
            DEF CommandStep, CallerSucceeds, CallerFails, RestEnds, CommandCancelled, BleEnds,
                CloudEnsures, CloudSucceeds, CloudRetries, CloudStops
  <2>2. SuccessIsOver'
    <3> SUFFICES ASSUME cdSuccess' # 0 PROVE cdCommand'[cdSuccess'].cloud = "ok"
      BY DEF SuccessIsOver
    <3>1. cdSuccess' \in Commands /\ cdCommand[cdSuccess'].cloud = "ok"
      <4>1. CASE cdSuccess' = n /\ cdCommand[n].cloud = "ok"
        BY <4>1
      <4>2. CASE cdSuccess' = cdSuccess
        BY <1>0, <4>2 DEF SuccessIsOver
      <4> QED BY <2>1, <4>1, <4>2
    <3> QED BY <1>1, <3>1, CloudOkIsFinal
  <2> QED BY <2>1, <2>2 DEF RecordInv
<1>2. CASE SessionBegins \/ LinkChanges \/ UNCHANGED cdVars
  BY <1>0, <1>2 DEF SessionBegins, LinkChanges, cdVars, RecordInv, SuccessIsBound,
                    SuccessIsOver, NewerOutcomeStands
<1>3. CASE SessionNoticed
  BY <1>3 DEF SessionNoticed, RecordInv, SuccessIsBound, SuccessIsOver, NewerOutcomeStands
<1> QED BY <1>1, <1>2, <1>3 DEF CdNext

\* No late failure of an earlier command displaces a recorded success.
THEOREM NewerOutcomeKept == CdSpec => []NewerOutcomeStands
<1>1. RecordInv => NewerOutcomeStands
  BY DEF RecordInv
<1> QED BY <1>1, CdTypeInit, CdTypeNext, AnswerInit, AnswerNext, RecordInit, RecordNext, PTL
        DEF CdSpec

-------------------------------------------------------------------------------
(***************************************************************************)
(* Proof of DailyAnchor's property for every number of dates and readings.  *)
(*                                                                          *)
(* No row of the device, in memory, in a write or in the store, is of a     *)
(* later date than the last one with a reading (RowsAreTrue).  So a cycle   *)
(* that saw the date change reads the first value of its date (DatesInv:    *)
(* the date was noted before, on an earlier date than any it could have     *)
(* read on), and one of the current date finds the row that is stored and   *)
(* being written (CurrentRowKept).                                          *)
(***************************************************************************)

TrueRow(row) ==
  /\ row.day <= dyFirst.day
  /\ row.full /\ row.day = dyFirst.day => row.anchor = dyFirst.reading

RowsAreTrue ==
  /\ TrueRow(dyAnchor) /\ TrueRow(dyStore)
  /\ TrueRow(dyPersisted) /\ TrueRow(dyWrite.row)

DatesInv ==
  /\ dyFirst.day <= dyToday
  /\ dyCached # 0 => dyFirst.day <= dyCached /\ dyCached <= dyToday
  /\ dyCycle.at = "fetch" =>
       /\ dyCached # 0 /\ dyCycle.today = dyCached
       /\ dyCycle.rollover => dyFirst.day < dyCycle.today

RowIsCurrent(row) == row.full /\ row.day = dyToday /\ row.day = dyFirst.day

CurrentRowKept ==
  /\ dyRun # "loaded" => dyWrite.at # "save"
  /\ dyRun = "loaded" /\ RowIsCurrent(dyStore) => dyAnchor = dyStore
  /\ dyWrite.at = "save" /\ RowIsCurrent(dyWrite.row) => dyAnchor = dyWrite.row
  /\ dyWrite.at = "save" /\ RowIsCurrent(dyStore) => dyWrite.row = dyStore

AnchorInv == DyTypeOK /\ RowsAreTrue /\ DatesInv /\ CurrentRowKept

-------------------------------------------------------------------------------
\* A cycle of a date that has a row leaves the row as it is.
LEMMA SameDayKeepsRow ==
  ASSUME AnchorInv, dyCycle.at = "fetch", dyAnchor.day = dyCycle.today, NEW reading
  PROVE  Refreshed(dyAnchor, reading) = dyAnchor
<1> USE AnchorAssumption DEF Dates, Readings
<1>1. dyCycle.rollover = FALSE
  BY DEF AnchorInv, DyTypeOK, RowsAreTrue, TrueRow, DatesInv, Row
<1>2. dyAnchor = [day |-> dyAnchor.day, anchor |-> dyAnchor.anchor, full |-> dyAnchor.full]
  BY DEF AnchorInv, DyTypeOK, Row
<1> QED BY <1>1, <1>2 DEF Refreshed, AnchorInv, DyTypeOK, Row

LEMMA AnchorInit == DyInit => AnchorInv
BY AnchorAssumption
   DEF DyInit, AnchorInv, DyTypeOK, RowsAreTrue, TrueRow, DatesInv, CurrentRowKept,
       RowIsCurrent, Row, NoRow, NoCycle, NoWrite, Dates, Readings

\* Every step keeps the invariant.
LEMMA AnchorNext == ASSUME AnchorInv, [DyNext]_dyVars PROVE AnchorInv'
<1> USE AnchorAssumption DEF Dates, Readings
<1> USE DEF AnchorInv
<1>1. CASE AnchorsLoaded
  <2>1. DyTypeOK'
    BY <1>1 DEF AnchorsLoaded, Scheduled, DyTypeOK
  <2>2. /\ dyWrite'.row = dyWrite.row /\ dyWrite'.at # "save"
    BY <1>1 DEF AnchorsLoaded, Scheduled, DyTypeOK, CurrentRowKept
  <2> QED
    BY <1>1, <2>1, <2>2
       DEF AnchorsLoaded, RowsAreTrue, TrueRow, DatesInv, CurrentRowKept, RowIsCurrent
<1>2. CASE AnchorsNotLoaded
  BY <1>2 DEF AnchorsNotLoaded, DyTypeOK, RowsAreTrue, TrueRow, DatesInv, CurrentRowKept,
              RowIsCurrent
<1>3. CASE CycleStarts
  <2>1. DyTypeOK'
    BY <1>3 DEF CycleStarts, RolloverSeen, DyTypeOK
  <2>2. DatesInv'
    <3>1. /\ dyCycle'.today = dyToday /\ dyCached' = dyToday
          /\ dyCycle'.rollover <=> RolloverSeen
          /\ UNCHANGED <<dyToday, dyFirst>>
      BY <1>3 DEF CycleStarts
    <3>2. dyFirst.day \in Nat /\ dyCached \in Nat /\ dyToday \in Nat \ {0}
      BY DEF DyTypeOK
    <3>3. RolloverSeen => dyFirst.day < dyToday
      BY <3>2 DEF RolloverSeen, DatesInv
    <3> QED
      BY <3>1, <3>2, <3>3 DEF DatesInv
  <2> QED
    BY <1>3, <2>1, <2>2 DEF CycleStarts, RowsAreTrue, TrueRow, CurrentRowKept, RowIsCurrent
<1>4. ASSUME NEW reading \in Readings, CycleReads(reading) PROVE AnchorInv'
  <2>1. UNCHANGED dyWrite
    BY <1>4 DEF CycleReads
  <2>2. dyFirst'.day = dyCycle.today /\ dyFirst.day <= dyCycle.today
    BY <1>4 DEF CycleReads, DatesInv
  <2>3. DyTypeOK'
    BY <1>4 DEF CycleReads, Refreshed, DyTypeOK, Row
  <2>4. DatesInv'
    BY <1>4, <2>2 DEF CycleReads, DyTypeOK, DatesInv
  <2>5. CASE dyAnchor.day = dyCycle.today
    <3>1. dyFirst' = dyFirst /\ dyAnchor' = dyAnchor
      BY <1>4, <2>2, <2>5, SameDayKeepsRow
         DEF CycleReads, DyTypeOK, Row, RowsAreTrue, TrueRow
    <3> QED
      BY <1>4, <2>1, <2>3, <2>4, <3>1
         DEF CycleReads, RowsAreTrue, TrueRow, CurrentRowKept, RowIsCurrent
  <2>6. CASE dyAnchor.day # dyCycle.today
    <3>1. dyAnchor' = [day |-> dyCycle.today, anchor |-> reading,
                       full |-> dyCycle.rollover]
      BY <1>4, <2>6 DEF CycleReads, Refreshed
    <3>2. dyCycle.rollover => dyFirst' = [day |-> dyCycle.today, reading |-> reading]
      BY <1>4, <2>2 DEF CycleReads, DatesInv, DyTypeOK
    <3>3. RowsAreTrue'
      <4>1. TrueRow(dyAnchor)'
        BY <2>2, <2>3, <3>1, <3>2 DEF TrueRow, DyTypeOK
      <4>2. \A row \in Row : TrueRow(row) =>
              /\ row.day <= dyFirst'.day
              /\ row.full /\ row.day = dyFirst'.day => row.anchor = dyFirst'.reading
        BY <1>4, <2>2, <2>3 DEF CycleReads, TrueRow, DyTypeOK, Row
      <4>3. TrueRow(dyStore)' /\ TrueRow(dyPersisted)' /\ TrueRow(dyWrite.row)'
        BY <1>4, <2>1, <4>2 DEF CycleReads, RowsAreTrue, TrueRow, DyTypeOK
      <4> QED BY <4>1, <4>3 DEF RowsAreTrue
    <3>4. CurrentRowKept'
      <4>1. ASSUME NEW row \in Row, TrueRow(row), row.full, row.day = dyToday,
                   row.day = dyCycle.today
            PROVE  RowIsCurrent(row)
        BY <4>1, <2>2 DEF TrueRow, RowIsCurrent, DyTypeOK, Row
      <4>2. ~ (dyRun = "loaded" /\ RowIsCurrent(dyStore)')
        BY <1>4, <2>2, <2>6, <4>1
           DEF CycleReads, CurrentRowKept, RowIsCurrent, RowsAreTrue, DyTypeOK
      <4>3. ~ (dyWrite.at = "save" /\ RowIsCurrent(dyWrite.row)')
        BY <1>4, <2>1, <2>2, <2>6, <4>1
           DEF CycleReads, CurrentRowKept, RowIsCurrent, RowsAreTrue, DyTypeOK
      <4> QED
        BY <1>4, <2>1, <4>2, <4>3 DEF CycleReads, CurrentRowKept
    <3> QED BY <2>3, <2>4, <3>3, <3>4
  <2> QED BY <2>5, <2>6
<1>5. CASE CycleLacksCounter
  <2>1. UNCHANGED dyWrite
    BY <1>5 DEF CycleLacksCounter
  <2>2. /\ dyAnchor.day = dyCycle.today => dyAnchor' = dyAnchor
        /\ dyAnchor.day # dyCycle.today => dyAnchor' = NoRow
    BY <1>5, SameDayKeepsRow DEF CycleLacksCounter
  <2>3. DyTypeOK'
    BY <1>5, <2>2 DEF CycleLacksCounter, DyTypeOK, Row, NoRow
  <2>4. DatesInv'
    BY <1>5 DEF CycleLacksCounter, DyTypeOK, DatesInv
  <2>5. RowsAreTrue'
    BY <1>5, <2>1, <2>2 DEF CycleLacksCounter, RowsAreTrue, TrueRow, NoRow, DyTypeOK
  <2>6. CurrentRowKept'
    <3>1. ASSUME NEW row \in Row, RowIsCurrent(row) PROVE row.day = dyCycle.today
      BY <1>5, <3>1 DEF CycleLacksCounter, RowIsCurrent, DatesInv, DyTypeOK, Row
    <3> QED
      BY <1>5, <2>1, <2>2, <3>1 DEF CycleLacksCounter, CurrentRowKept, RowIsCurrent, DyTypeOK
  <2> QED BY <2>3, <2>4, <2>5, <2>6
<1>6. CASE CycleFetchFails
  BY <1>6 DEF CycleFetchFails, DyTypeOK, RowsAreTrue, TrueRow, DatesInv, CurrentRowKept,
              RowIsCurrent
<1>7. CASE CycleEnds
  <2>1. dyWrite'.row = dyWrite.row /\ (dyWrite'.at = "save" <=> dyWrite.at = "save")
    BY <1>7 DEF CycleEnds, Scheduled, DyTypeOK
  <2>2. DyTypeOK'
    BY <1>7 DEF CycleEnds, Scheduled, DyTypeOK, NoCycle
  <2> QED
    BY <1>7, <2>1, <2>2
       DEF CycleEnds, NoCycle, RowsAreTrue, TrueRow, DatesInv, CurrentRowKept, RowIsCurrent
<1>8. CASE CycleBreaksOff
  BY <1>8 DEF CycleBreaksOff, NoCycle, DyTypeOK, RowsAreTrue, TrueRow, DatesInv,
              CurrentRowKept, RowIsCurrent
<1>9. CASE WriteBegins
  <2>1. DyTypeOK'
    BY <1>9 DEF WriteBegins, DyTypeOK, NoWrite, NoRow, Row
  <2> QED
    BY <1>9, <2>1 DEF WriteBegins, NoWrite, NoRow, DyTypeOK, RowsAreTrue, TrueRow, DatesInv,
                      CurrentRowKept, RowIsCurrent
<1>10. CASE WriteEnds
  <2>1. DyTypeOK'
    BY <1>10 DEF WriteEnds, DyTypeOK, NoWrite, NoRow, Row
  <2> QED
    BY <1>10, <2>1 DEF WriteEnds, NoWrite, NoRow, DyTypeOK, RowsAreTrue, TrueRow, DatesInv,
                      CurrentRowKept, RowIsCurrent
<1>11. CASE WriteFails
  <2>1. DyTypeOK'
    BY <1>11 DEF WriteFails, DyTypeOK, NoWrite, NoRow, Row
  <2> QED
    BY <1>11, <2>1 DEF WriteFails, NoWrite, NoRow, DyTypeOK, RowsAreTrue, TrueRow, DatesInv,
                      CurrentRowKept, RowIsCurrent
<1>12. CASE CoordinatorReplaced
  <2>1. dyStore' = dyStore \/ dyStore' = dyWrite.row
    BY <1>12 DEF CoordinatorReplaced
  <2>2. DyTypeOK'
    BY <1>12, <2>1 DEF CoordinatorReplaced, DyTypeOK, NoWrite, NoRow, NoCycle, Row
  <2> QED
    BY <1>12, <2>1, <2>2
       DEF CoordinatorReplaced, NoWrite, NoRow, NoCycle, DyTypeOK, RowsAreTrue, TrueRow,
           DatesInv, CurrentRowKept, RowIsCurrent
<1>13. CASE Midnight
  <2>1. DyTypeOK'
    BY <1>13 DEF Midnight, DyTypeOK
  <2>2. DatesInv'
    BY <1>13 DEF Midnight, DyTypeOK, DatesInv
  <2>3. ASSUME NEW row \in Row, TrueRow(row) PROVE row.day # dyToday'
    BY <1>13, <2>3 DEF Midnight, DyTypeOK, DatesInv, TrueRow, Row
  <2> QED
    BY <1>13, <2>1, <2>2, <2>3
       DEF Midnight, DyTypeOK, RowsAreTrue, TrueRow, CurrentRowKept, RowIsCurrent
<1>14. CASE UNCHANGED dyVars
  BY <1>14 DEF dyVars, DyTypeOK, RowsAreTrue, TrueRow, DatesInv, CurrentRowKept, RowIsCurrent
<1> QED
  BY <1>1, <1>2, <1>3, <1>4, <1>5, <1>6, <1>7, <1>8, <1>9, <1>10, <1>11, <1>12,
     <1>13, <1>14
  DEF DyNext

\* A step that starts and ends in the invariant leaves the current day's stored anchor.
LEMMA StoreKept ==
  ASSUME AnchorInv, [DyNext]_dyVars,
         dyStore.full, dyStore.day = dyToday, dyStore.day = dyFirst'.day
  PROVE  dyStore' = dyStore
<1>1. CASE WriteEnds
  BY <1>1 DEF WriteEnds, AnchorInv, CurrentRowKept, RowIsCurrent
<1>2. CASE CoordinatorReplaced
  BY <1>2 DEF CoordinatorReplaced, AnchorInv, CurrentRowKept, RowIsCurrent
<1>3. CASE ~ WriteEnds /\ ~ CoordinatorReplaced
  BY <1>3 DEF DyNext, dyVars, AnchorsLoaded, AnchorsNotLoaded, CycleStarts, CycleReads,
              CycleLacksCounter, CycleFetchFails, CycleEnds, CycleBreaksOff, WriteBegins,
              WriteFails, Midnight
<1> QED BY <1>1, <1>2, <1>3

-------------------------------------------------------------------------------
\* Whatever the number of dates and readings: the anchor of a whole day is that day's
\* first reading, in memory and in the store, and is not lost on that day.
THEOREM AnchorStands == DySpec => DailyAnchorStands
<1>1. AnchorInv => DayIsCountedWhole
  BY DEF AnchorInv, RowsAreTrue, TrueRow, DayIsCountedWhole
<1>2. AnchorInv /\ [DyNext]_dyVars =>
        [/\ DayIsCountedWhole'
         /\ dyStore.full /\ dyStore.day = dyToday /\ dyStore.day = dyFirst'.day
              => dyStore' = dyStore]_dyVars
  <2> SUFFICES ASSUME AnchorInv, [DyNext]_dyVars
               PROVE  /\ DayIsCountedWhole'
                      /\ dyStore.full /\ dyStore.day = dyToday /\ dyStore.day = dyFirst'.day
                           => dyStore' = dyStore
    OBVIOUS
  <2>1. AnchorInv'
    BY AnchorNext
  <2>2. DayIsCountedWhole'
    BY <2>1 DEF AnchorInv, RowsAreTrue, TrueRow, DayIsCountedWhole
  <2> QED BY <2>2, StoreKept
<1>3. AnchorInv /\ [DyNext]_dyVars => AnchorInv'
  BY AnchorNext
<1>4. DyInit => AnchorInv
  BY AnchorInit
<1> QED BY <1>2, <1>3, <1>4, PTL DEF DySpec, DailyAnchorStands

(***************************************************************************)
(* Theorems about DayBackfill, for any devices, buckets and budgets.        *)
(***************************************************************************)

-------------------------------------------------------------------------------
(* The statistics backfill.  What a cycle counts as actionable is exactly what   *)
(* it has collected and not visited (Counted), so a count of zero at the end of  *)
(* a cycle that saw all devices means that nothing is missing.                   *)

\* What the cycle has collected so far.
Collected(d, b) ==
  \/ d < bfJob.d
  \/ d = bfJob.d /\ b \in DayBuckets /\ bfJob.at \in {"day", "between", "period", "import"}
  \/ /\ d = bfJob.d /\ b \in PeriodBuckets
     /\ bfJob.at = "period" \/ (bfJob.at = "import" /\ bfJob.writing \cap DayBuckets = {})

Missing == {p \in BfIds \X Buckets : Collected(p[1], p[2]) /\ IsCandidate(p[1], p[2])}

Counted == bfJob.all => bfJob.actionable = Cardinality(Missing)

JobKnown ==
  /\ bfJob.at = "idle" => bfJob = NoJob
  /\ bfJob.at \in {"day", "between", "period", "import"} => bfJob.d \in BfIds
  /\ bfJob.at = "end" /\ bfJob.all => bfJob.d = BfDevices + 1
  /\ bfJob.at # "end" => bfJob.all

\* The queue and the bucket being imported are candidates, and of one kind.
QueueKnown ==
  /\ bfJob.at \in {"day", "period", "import"} =>
       \A b \in bfJob.todo \cup bfJob.writing : IsCandidate(bfJob.d, b)
  /\ bfJob.at = "day" => bfJob.todo \subseteq DayBuckets
  /\ bfJob.at = "period" => bfJob.todo \subseteq PeriodBuckets
  /\ bfJob.at = "import" =>
       \E b \in Buckets :
         /\ bfJob.writing = {b} /\ b \notin bfJob.todo
         /\ b \in DayBuckets => bfJob.todo \subseteq DayBuckets
         /\ b \in PeriodBuckets => bfJob.todo \subseteq PeriodBuckets
  /\ bfJob.at # "import" => bfJob.writing = {}

BfInv == BfTypeOK /\ JobKnown /\ QueueKnown /\ Counted

Recorders ==
  [rows : SUBSET (BfIds \X Buckets), queued : SUBSET (BfIds \X Buckets),
   lost : SUBSET (BfIds \X Buckets)]

AttemptsTyped(attempts) ==
  attempts \in [BfIds -> AttemptsOfDevice] /\ \A d \in BfIds : IsInjective(attempts[d].order)

LEMMA JobType ==
  ASSUME NEW at \in {"idle", "device", "day", "between", "period", "import", "end"},
         NEW d \in 1 .. BfDevices + 1, NEW todo \in SUBSET Buckets, NEW writing \in SUBSET Buckets,
         NEW left \in Int, NEW actionable \in Nat, NEW all \in BOOLEAN, NEW late \in BOOLEAN,
         NEW stopped \in BOOLEAN
  PROVE  [at |-> at, d |-> d, todo |-> todo, writing |-> writing, left |-> left,
          actionable |-> actionable, all |-> all, late |-> late, stopped |-> stopped] \in Jobs
BY DEF Jobs

LEMMA NoJobType ==
  /\ NoJob \in Jobs /\ NoJob.at = "idle" /\ NoJob.d = 1 /\ NoJob.todo = {} /\ NoJob.writing = {}
  /\ NoJob.actionable = 0 /\ NoJob.all
<1>1. 1 \in 1 .. BfDevices + 1 /\ {} \in SUBSET Buckets
  BY BackfillAssumption
<1> QED BY <1>1 DEF NoJob, Jobs

LEMMA BucketsFinite ==
  /\ IsFiniteSet(Buckets) /\ IsFiniteSet(BfIds) /\ IsFiniteSet(BfIds \X Buckets)
  /\ \A b \in Buckets : b \in DayBuckets <=> b \notin PeriodBuckets
<1>1. IsFiniteSet(Buckets)
  BY BackfillAssumption, FS_Union DEF Buckets
<1>2. IsFiniteSet(BfIds)
  BY BackfillAssumption, FS_Interval DEF BfIds
<1>3. IsFiniteSet(BfIds \X Buckets)
  BY <1>1, <1>2, FS_Product
<1> QED BY <1>1, <1>2, <1>3, BackfillAssumption DEF Buckets

LEMMA MissingFinite == IsFiniteSet(Missing) /\ Cardinality(Missing) \in Nat
<1>1. Missing \in SUBSET (BfIds \X Buckets)
  BY DEF Missing
<1>2. IsFiniteSet(Missing)
  BY <1>1, BucketsFinite, FS_Subset
<1> QED BY <1>2, FS_CardinalityType

\* Before a cycle and at its first device nothing is collected.
LEMMA NothingCollected ==
  ASSUME bfJob.d = 1, bfJob.at \in {"idle", "device"} PROVE Missing = {}
BY DEF Missing, Collected, BfIds

LEMMA NothingCollectedNext ==
  ASSUME bfJob'.d = 1, bfJob'.at \in {"idle", "device"} PROVE Missing' = {}
BY DEF Missing, Collected, BfIds

LEMMA BfInvInit == BfInit => BfInv
<1> SUFFICES ASSUME BfInit PROVE BfInv
  OBVIOUS
<1>1. BfTypeOK
  <2>1. <<>> \in Seq(Buckets) /\ IsInjective(<<>>)
    BY DEF IsInjective
  <2>2. bfStatus \in [BfIds -> [Buckets -> Statuses]]
    BY DEF BfInit, BfInitWith, Statuses
  <2>3. NoAttempts \in AttemptsOfDevice /\ NoAttempts.order = <<>>
    BY <2>1 DEF NoAttempts, AttemptsOfDevice
  <2>4. /\ bfAttempts \in [BfIds -> AttemptsOfDevice]
        /\ \A d \in BfIds : IsInjective(bfAttempts[d].order)
    BY <2>1, <2>3 DEF BfInit, BfInitWith
  <2>5. bfRecorder \in Recorders /\ bfVisited \subseteq BfIds \X Buckets
    BY DEF BfInit, BfInitWith, Recorders
  <2>6. bfSaved = [status |-> bfStatus, attempts |-> bfAttempts] /\ bfStartup \in BOOLEAN
    BY DEF BfInit, BfInitWith
  <2> QED BY <2>2, <2>4, <2>5, <2>6, NoJobType DEF BfInit, BfInitWith, BfTypeOK, Recorders
<1>2. JobKnown /\ QueueKnown
  BY NoJobType DEF BfInit, BfInitWith, JobKnown, QueueKnown
<1>3. Counted
  <2>1. Missing = {}
    BY NoJobType, NothingCollected DEF BfInit, BfInitWith
  <2> QED BY <2>1, NoJobType, FS_EmptySet DEF BfInit, BfInitWith, Counted
<1> QED BY <1>1, <1>2, <1>3 DEF BfInv

\* A cycle that ends, or has not begun, whatever the step does to the rest.
LEMMA IdleKeeps ==
  ASSUME bfJob' = NoJob, BfTypeOK' PROVE BfInv'
<1>1. JobKnown' /\ QueueKnown'
  BY NoJobType DEF JobKnown, QueueKnown
<1>2. Counted'
  <2>1. Missing' = {}
    BY NoJobType, NothingCollectedNext
  <2> QED BY <2>1, NoJobType, FS_EmptySet DEF Counted
<1> QED BY <1>1, <1>2 DEF BfInv

\* Steps that keep the candidates and what is collected.
LEMMA SameMissing ==
  ASSUME UNCHANGED <<bfStatus, bfStartup, bfVisited>>,
         \A d \in BfIds, b \in Buckets : Collected(d, b)' <=> Collected(d, b)
  PROVE  Missing' = Missing
BY DEF Missing, IsCandidate

\* The attempt of a bucket.
LEMMA WithAttemptType ==
  ASSUME NEW tries \in [Buckets -> Nat], NEW b \in Buckets
  PROVE  WithAttempt(tries, b) \in [Buckets -> Nat]
<1> DEFINE count == IF b \in DayBuckets THEN 1
                    ELSE IF tries[b] < AttemptLimit THEN tries[b] + 1 ELSE tries[b]
           more  == [tries EXCEPT ![b] = count]
           level == IF b \in PeriodBuckets /\ \A p \in PeriodBuckets : more[p] > 0
                      THEN PeriodBuckets ELSE {}
<1>1. more \in [Buckets -> Nat]
  OBVIOUS
<1>2. WithAttempt(tries, b) = [c \in Buckets |-> IF c \in level THEN more[c] - 1 ELSE more[c]]
  BY DEF WithAttempt
<1> HIDE DEF more
<1>3. \A c \in Buckets : (IF c \in level THEN more[c] - 1 ELSE more[c]) \in Nat
  BY <1>1
<1> QED BY <1>2, <1>3

LEMMA AttemptType ==
  ASSUME BfTypeOK, NEW b \in Buckets, bfJob.d \in BfIds, Attempt(bfJob.d, b)
  PROVE  AttemptsTyped(bfAttempts')
<1> DEFINE old == bfAttempts[bfJob.d]
           new == [order |-> Append(Left(old.order, b), b), tries |-> WithAttempt(old.tries, b)]
<1>0. /\ bfAttempts \in [BfIds -> AttemptsOfDevice]
      /\ \A d \in BfIds : IsInjective(bfAttempts[d].order)
  BY DEF BfTypeOK
<1>1. bfAttempts' = [bfAttempts EXCEPT ![bfJob.d] = new]
  BY DEF Attempt
<1>2. old.order \in Seq(Buckets) /\ IsInjective(old.order) /\ old.tries \in [Buckets -> Nat]
  BY <1>0 DEF AttemptsOfDevice
<1> HIDE DEF old
<1>3. /\ Append(Left(old.order, b), b) \in Seq(Buckets)
      /\ IsInjective(Append(Left(old.order, b), b))
  BY <1>2, MovedToEnd
<1>4. new \in AttemptsOfDevice /\ IsInjective(new.order)
  BY <1>2, <1>3, WithAttemptType DEF AttemptsOfDevice
<1> HIDE DEF new
<1> QED BY <1>0, <1>1, <1>4 DEF AttemptsTyped

\* What a collection adds to what is missing: the candidates it found.
LEMMA FoundAdds ==
  ASSUME BfTypeOK, NEW d \in BfIds, NEW queue \in SUBSET Buckets,
         \A e \in BfIds, b \in Buckets : IsCandidate(e, b)' <=> IsCandidate(e, b),
         \A e \in BfIds, b \in Buckets :
           Collected(e, b)' <=> Collected(e, b) \/ (e = d /\ b \in queue),
         \A b \in queue : ~Collected(d, b)
  PROVE  Cardinality(Missing') = Cardinality(Missing) + Cardinality(Candidates(d, queue))
<1> DEFINE found == Candidates(d, queue)
           new == {d} \X found
<1>1. found \subseteq queue /\ \A b \in queue : b \in found <=> IsCandidate(d, b)
  BY DEF Candidates
<1>2. IsFiniteSet(found) /\ IsFiniteSet(Missing) /\ IsFiniteSet({d}) /\ Cardinality({d}) = 1
  BY <1>1, BucketsFinite, MissingFinite, FS_Subset, FS_Singleton
<1>3. IsFiniteSet(new) /\ Cardinality(new) = Cardinality(found)
  <2>1. Cardinality(found) \in Nat
    BY <1>2, FS_CardinalityType
  <2> QED BY <1>2, <2>1, FS_Product
<1>4. Missing' = Missing \cup new
  <2>1. ASSUME NEW p \in Missing' PROVE p \in Missing \cup new
    BY <1>1, <2>1 DEF Missing
  <2>2. ASSUME NEW p \in Missing \cup new PROVE p \in Missing'
    BY <1>1, <2>2 DEF Missing
  <2> QED BY <2>1, <2>2
<1>5. Missing \cap new = {}
  BY <1>1 DEF Missing
<1> HIDE DEF new, found
<1>6. Cardinality(Missing \cup new) = Cardinality(Missing) + Cardinality(new) - 0
  BY <1>2, <1>3, <1>5, FS_Union, FS_EmptySet
<1>7. Cardinality(new) \in Nat /\ Cardinality(Missing) \in Nat
  BY <1>2, <1>3, FS_CardinalityType
<1> QED BY <1>3, <1>4, <1>6, <1>7 DEF found

LEMMA CollectKeeps ==
  ASSUME BfInv, DaysCollected \/ PeriodsCollected PROVE BfInv'
<1> DEFINE d == bfJob.d
           queue == IF bfJob.at = "device" THEN DayBuckets ELSE PeriodBuckets
           stage == IF bfJob.at = "device" THEN "day" ELSE "period"
           found == Candidates(d, queue)
<1>0. BfTypeOK /\ JobKnown /\ QueueKnown /\ Counted /\ bfJob \in Jobs
  BY DEF BfInv, BfTypeOK
<1>1. /\ \/ bfJob.at = "device" /\ queue = DayBuckets /\ stage = "day"
         \/ bfJob.at = "between" /\ queue = PeriodBuckets /\ stage = "period"
      /\ d \in BfIds /\ Collect(d, queue, stage) /\ bfJob.all /\ bfJob.writing = {}
      /\ UNCHANGED <<bfAttempts, bfSaved, bfRecorder, bfStartup, bfVisited>>
  BY <1>0 DEF DaysCollected, PeriodsCollected, JobKnown, QueueKnown
<1>2. /\ queue \subseteq Buckets /\ found \subseteq queue
      /\ \A b \in queue : b \in found <=> IsCandidate(d, b)
  BY <1>1 DEF Candidates, Buckets
<1>3. /\ bfStatus' = [bfStatus EXCEPT ![d] = [b \in Buckets |-> IF b \in found THEN "pending" ELSE @[b]]]
      /\ \E todo \in SUBSET found :
           bfJob' = [bfJob EXCEPT !.at = stage, !.todo = todo,
                                  !.actionable = @ + Cardinality(found)]
  BY <1>1 DEF Collect
<1>4. Cardinality(found) \in Nat
  BY <1>2, BucketsFinite, FS_Subset, FS_CardinalityType
<1> HIDE DEF found, queue, stage
<1>5. PICK todo \in SUBSET found :
        bfJob' = [bfJob EXCEPT !.at = stage, !.todo = todo,
                               !.actionable = bfJob.actionable + Cardinality(found)]
  BY <1>3
<1>6. /\ bfJob'.at = stage /\ bfJob'.d = d /\ bfJob'.todo = todo /\ bfJob'.writing = {}
      /\ bfJob'.all /\ bfJob'.actionable = bfJob.actionable + Cardinality(found)
      /\ bfJob' \in Jobs
  <2>1. todo \in SUBSET Buckets /\ bfJob.actionable + Cardinality(found) \in Nat
        /\ stage \in {"day", "period"}
    BY <1>0, <1>1, <1>2, <1>4 DEF Jobs
  <2> QED BY <1>0, <1>1, <1>5, <2>1 DEF Jobs
<1>7. /\ bfStatus' \in [BfIds -> [Buckets -> Statuses]]
      /\ \A e \in BfIds, b \in Buckets :
           bfStatus'[e][b] = IF e = d /\ b \in found THEN "pending" ELSE bfStatus[e][b]
  BY <1>0, <1>1, <1>3 DEF BfTypeOK, Statuses
<1>8. \A e \in BfIds, b \in Buckets : IsCandidate(e, b)' <=> IsCandidate(e, b)
  BY <1>1, <1>2, <1>7 DEF IsCandidate, Candidates, found
<1>9. BfTypeOK'
  BY <1>0, <1>1, <1>6, <1>7 DEF BfTypeOK
<1>10. JobKnown'
  BY <1>1, <1>6 DEF JobKnown
<1>11. QueueKnown'
  BY <1>1, <1>2, <1>6, <1>8 DEF QueueKnown
<1>12. Counted'
  <2>1. \A e \in BfIds, b \in Buckets :
          Collected(e, b)' <=> Collected(e, b) \/ (e = d /\ b \in queue)
    BY <1>1, <1>6 DEF Collected
  <2>2. \A b \in queue : ~Collected(d, b)
    BY <1>1, <1>2, BucketsFinite DEF Collected, BfIds
  <2>3. Cardinality(Missing') = Cardinality(Missing) + Cardinality(found)
    BY <1>0, <1>1, <1>2, <1>8, <2>1, <2>2, FoundAdds DEF found
  <2> QED BY <1>0, <1>1, <1>6, <2>3 DEF Counted
<1> QED BY <1>9, <1>10, <1>11, <1>12 DEF BfInv

\* A visit takes one bucket from what is missing.
LEMMA VisitTakes ==
  ASSUME BfTypeOK, NEW d \in BfIds, NEW b \in Buckets, NEW status \in {"checked", "imported"},
         Visit(d, b, status), bfStartup' = bfStartup,
         \A e \in BfIds, c \in Buckets : Collected(e, c)' <=> Collected(e, c),
         Collected(d, b), IsCandidate(d, b)
  PROVE  /\ Cardinality(Missing') = Cardinality(Missing) - 1 /\ Cardinality(Missing') \in Nat
         /\ bfStatus' \in [BfIds -> [Buckets -> Statuses]] /\ bfVisited' \subseteq BfIds \X Buckets
         /\ \A c \in Buckets \ {b} : IsCandidate(d, c) => IsCandidate(d, c)'
<1>0. bfStatus \in [BfIds -> [Buckets -> Statuses]] /\ bfVisited \subseteq BfIds \X Buckets
  BY DEF BfTypeOK
<1>1. /\ bfStatus' = [bfStatus EXCEPT ![d][b] = status] /\ bfVisited' = bfVisited \cup {<<d, b>>}
      /\ status \in Statuses
  BY DEF Visit, Statuses
<1>2. /\ bfStatus' \in [BfIds -> [Buckets -> Statuses]] /\ bfVisited' \subseteq BfIds \X Buckets
      /\ bfStatus'[d][b] = status /\ <<d, b>> \in bfVisited'
  BY <1>0, <1>1
<1>3. \A e \in BfIds, c \in Buckets : ~(e = d /\ c = b) =>
        /\ bfStatus'[e][c] = bfStatus[e][c] /\ (<<e, c>> \in bfVisited' <=> <<e, c>> \in bfVisited)
  BY <1>0, <1>1
<1>4. \A e \in BfIds, c \in Buckets : ~(e = d /\ c = b) => (IsCandidate(e, c)' <=> IsCandidate(e, c))
  BY <1>3 DEF IsCandidate
<1>5. ~IsCandidate(d, b)'
  BY <1>2 DEF IsCandidate
<1>6. Missing' = Missing \ {<<d, b>>}
  <2>1. ASSUME NEW p \in Missing' PROVE p \in Missing \ {<<d, b>>}
    BY <1>4, <1>5, <2>1 DEF Missing
  <2>2. ASSUME NEW p \in Missing \ {<<d, b>>} PROVE p \in Missing'
    <3>1. PICK e \in BfIds, c \in Buckets : p = <<e, c>>
      BY <2>2 DEF Missing
    <3> QED BY <1>4, <2>2, <3>1 DEF Missing
  <2> QED BY <2>1, <2>2
<1>7. <<d, b>> \in Missing
  BY DEF Missing
<1>8. Cardinality(Missing') = Cardinality(Missing) - 1 /\ Cardinality(Missing') \in Nat
  <2>1. /\ IsFiniteSet(Missing \ {<<d, b>>})
        /\ Cardinality(Missing \ {<<d, b>>}) = Cardinality(Missing) - 1
    BY <1>7, MissingFinite, FS_RemoveElement
  <2> QED BY <1>6, <2>1, FS_CardinalityType
<1> QED BY <1>2, <1>4, <1>8

\* Steps that neither collect nor visit.
LEMMA BfAsideKeeps ==
  ASSUME BfInv, UNCHANGED <<bfStatus, bfSaved, bfStartup, bfVisited>>,
         AttemptsTyped(bfAttempts'), bfRecorder' \in Recorders,
         bfJob' \in Jobs, JobKnown', QueueKnown',
         bfJob'.actionable = bfJob.actionable, bfJob'.all => bfJob.all,
         bfJob'.all => \A d \in BfIds, b \in Buckets : Collected(d, b)' <=> Collected(d, b)
  PROVE  BfInv'
<1>0. BfTypeOK /\ Counted
  BY DEF BfInv
<1>1. BfTypeOK'
  BY <1>0 DEF BfTypeOK, AttemptsTyped, Recorders
<1>2. Counted'
  BY <1>0, SameMissing DEF Counted
<1> QED BY <1>1, <1>2 DEF BfInv

LEMMA JobAsideKeeps ==
  ASSUME BfInv, JobStarts \/ JobLate \/ JobBreaksOff \/ DevicesDone PROVE BfInv'
<1>0. BfTypeOK /\ JobKnown /\ QueueKnown /\ Counted /\ bfJob \in Jobs
  BY BackfillAssumption DEF BfInv, BfTypeOK
<1>1. CASE JobStarts
  <2>1. /\ bfJob' \in Jobs /\ bfJob'.at = "device" /\ bfJob'.d = 1 /\ bfJob'.writing = {}
        /\ bfJob'.actionable = 0 /\ bfJob'.all
    <3>1. (IF bfStartup THEN StartupBudget ELSE CycleBudget) \in Int
      BY BackfillAssumption
    <3> QED BY <1>1, <3>1, NoJobType DEF JobStarts, Jobs
  <2>2. BfTypeOK'
    BY <1>0, <1>1, <2>1 DEF JobStarts, BfTypeOK
  <2>3. JobKnown' /\ QueueKnown'
    BY <2>1 DEF JobKnown, QueueKnown
  <2>4. Counted'
    BY <2>1, NothingCollectedNext, FS_EmptySet DEF Counted
  <2> QED BY <2>2, <2>3, <2>4 DEF BfInv
<1>2. CASE JobLate
  <2>1. /\ bfJob' \in Jobs /\ bfJob.at # "idle"
        /\ bfJob'.at = bfJob.at /\ bfJob'.d = bfJob.d /\ bfJob'.writing = bfJob.writing
        /\ bfJob'.todo = bfJob.todo /\ bfJob'.actionable = bfJob.actionable /\ bfJob'.all = bfJob.all
        /\ UNCHANGED <<bfStatus, bfAttempts, bfSaved, bfRecorder, bfStartup, bfVisited>>
    BY <1>0, <1>2 DEF JobLate, Jobs
  <2>2. JobKnown'
    BY <1>0, <2>1 DEF JobKnown
  <2>3. QueueKnown'
    BY <1>0, <2>1 DEF QueueKnown, IsCandidate
  <2>4. \A d \in BfIds, b \in Buckets : Collected(d, b)' <=> Collected(d, b)
    BY <2>1 DEF Collected
  <2> QED BY <1>0, <2>1, <2>2, <2>3, <2>4, BfAsideKeeps DEF BfTypeOK, AttemptsTyped, Recorders
<1>3. CASE JobBreaksOff
  <2>1. /\ bfJob' \in Jobs /\ bfJob'.at = "end" /\ bfJob'.writing = {} /\ ~bfJob'.all
        /\ bfJob'.actionable = bfJob.actionable
        /\ UNCHANGED <<bfStatus, bfAttempts, bfSaved, bfRecorder, bfStartup, bfVisited>>
    BY <1>0, <1>3 DEF JobBreaksOff, Jobs, QueueKnown
  <2>2. JobKnown' /\ QueueKnown'
    BY <2>1 DEF JobKnown, QueueKnown
  <2> QED BY <1>0, <2>1, <2>2, BfAsideKeeps DEF BfTypeOK, AttemptsTyped, Recorders
<1>4. CASE DevicesDone
  <2>1. /\ bfJob' \in Jobs /\ bfJob.at = "device" /\ bfJob'.at = "end" /\ bfJob'.writing = {}
        /\ bfJob'.d = BfDevices + 1 /\ bfJob'.d = bfJob.d /\ bfJob'.all = bfJob.all
        /\ bfJob'.actionable = bfJob.actionable
        /\ UNCHANGED <<bfStatus, bfAttempts, bfSaved, bfRecorder, bfStartup, bfVisited>>
    BY <1>0, <1>4 DEF DevicesDone, Jobs, QueueKnown
  <2>2. JobKnown' /\ QueueKnown'
    BY <2>1 DEF JobKnown, QueueKnown
  <2>3. \A d \in BfIds, b \in Buckets : Collected(d, b)' <=> Collected(d, b)
    BY <2>1 DEF Collected
  <2> QED BY <1>0, <2>1, <2>2, <2>3, BfAsideKeeps DEF BfTypeOK, AttemptsTyped, Recorders
<1> QED BY <1>1, <1>2, <1>3, <1>4

\* What a request finds: the bucket is of the queue, which is collected.
LEMMA FetchFacts ==
  ASSUME BfInv, NEW b, Fetching(b)
  PROVE  /\ BfTypeOK /\ b \in Buckets /\ b \in bfJob.todo /\ bfJob \in Jobs /\ bfJob.d \in BfIds
         /\ \/ bfJob.at = "day" /\ bfJob.todo \subseteq DayBuckets
            \/ bfJob.at = "period" /\ bfJob.todo \subseteq PeriodBuckets
         /\ bfJob.all /\ bfJob.writing = {} /\ \A c \in bfJob.todo : IsCandidate(bfJob.d, c)
         /\ Collected(bfJob.d, b)
<1>1. BfTypeOK /\ JobKnown /\ QueueKnown /\ bfJob \in Jobs /\ b \in bfJob.todo
  BY DEF BfInv, BfTypeOK, Fetching, Due
<1>2. b \in Buckets /\ bfJob.at \in {"day", "period"}
  BY <1>1 DEF Fetching, Jobs
<1>3. bfJob.d \in BfIds /\ bfJob.all
  BY <1>1, <1>2 DEF JobKnown
<1> QED BY <1>1, <1>2, <1>3 DEF QueueKnown, Collected

LEMMA UnsuccessfulKeeps ==
  ASSUME BfInv, NEW b, NEW requests \in 1..2, BucketFails(b, requests) \/ BucketStopsJob(b)
  PROVE  BfInv'
<1>0. Fetching(b) /\ Attempt(bfJob.d, b)
      /\ UNCHANGED <<bfStatus, bfSaved, bfRecorder, bfStartup, bfVisited>>
  BY DEF BucketFails, BucketStopsJob
<1>1. /\ BfTypeOK /\ b \in Buckets /\ b \in bfJob.todo /\ bfJob \in Jobs /\ bfJob.d \in BfIds
      /\ \/ bfJob.at = "day" /\ bfJob.todo \subseteq DayBuckets
         \/ bfJob.at = "period" /\ bfJob.todo \subseteq PeriodBuckets
      /\ bfJob.all /\ bfJob.writing = {} /\ \A c \in bfJob.todo : IsCandidate(bfJob.d, c)
  BY <1>0, FetchFacts
<1>2. /\ bfJob' \in Jobs /\ bfJob'.at = bfJob.at /\ bfJob'.d = bfJob.d /\ bfJob'.writing = {}
      /\ bfJob'.todo \subseteq bfJob.todo /\ bfJob'.actionable = bfJob.actionable
      /\ bfJob'.all = bfJob.all
  <2>0. /\ bfJob.left - requests \in Int /\ bfJob.left - 1 \in Int
        /\ bfJob.todo \ {b} \in SUBSET Buckets /\ {} \in SUBSET Buckets
    BY <1>1 DEF Jobs
  <2>1. CASE BucketFails(b, requests)
    <3>1. bfJob' = [bfJob EXCEPT !.todo = bfJob.todo \ {b}, !.left = bfJob.left - requests]
      BY <2>1 DEF BucketFails
    <3> QED BY <1>1, <2>0, <3>1 DEF Jobs
  <2>2. CASE BucketStopsJob(b)
    <3>1. bfJob' = [bfJob EXCEPT !.todo = {}, !.left = bfJob.left - 1, !.stopped = TRUE]
      BY <2>2 DEF BucketStopsJob
    <3> QED BY <1>1, <2>0, <3>1 DEF Jobs
  <2> QED BY <2>1, <2>2
<1>3. AttemptsTyped(bfAttempts')
  BY <1>0, <1>1, AttemptType
<1>4. JobKnown'
  BY <1>1, <1>2 DEF JobKnown
<1>5. QueueKnown'
  BY <1>0, <1>1, <1>2 DEF QueueKnown, IsCandidate
<1>6. \A d \in BfIds, c \in Buckets : Collected(d, c)' <=> Collected(d, c)
  BY <1>1, <1>2 DEF Collected
<1> QED BY <1>0, <1>1, <1>2, <1>3, <1>4, <1>5, <1>6, BfAsideKeeps DEF BfTypeOK, Recorders

LEMMA RaisedKeeps == ASSUME BfInv, NEW b, BucketRaises(b) PROVE BfInv'
<1>1. BfTypeOK /\ b \in Buckets /\ bfJob.d \in BfIds
  BY FetchFacts DEF BucketRaises
<1>2. AttemptsTyped(bfAttempts')
  BY <1>1, AttemptType DEF BucketRaises
<1>3. BfTypeOK'
  BY <1>1, <1>2, NoJobType DEF BucketRaises, BfTypeOK, AttemptsTyped
<1> QED BY <1>3, IdleKeeps DEF BucketRaises

LEMMA QueuedKeeps ==
  ASSUME BfInv, NEW b, NEW requests \in 1..2, BucketQueued(b, requests) PROVE BfInv'
<1>0. /\ Fetching(b) /\ Attempt(bfJob.d, b)
      /\ bfRecorder' = [bfRecorder EXCEPT !.queued = {<<bfJob.d, b>>},
                           !.lost = bfRecorder.lost \ {<<bfJob.d, b>>}]
      /\ UNCHANGED <<bfStatus, bfSaved, bfStartup, bfVisited>>
  BY DEF BucketQueued
<1>1. /\ BfTypeOK /\ b \in Buckets /\ b \in bfJob.todo /\ bfJob \in Jobs /\ bfJob.d \in BfIds
      /\ \/ bfJob.at = "day" /\ bfJob.todo \subseteq DayBuckets
         \/ bfJob.at = "period" /\ bfJob.todo \subseteq PeriodBuckets
      /\ bfJob.all /\ bfJob.writing = {} /\ \A c \in bfJob.todo : IsCandidate(bfJob.d, c)
  BY <1>0, FetchFacts
<1>2. /\ bfJob' \in Jobs /\ bfJob'.at = "import" /\ bfJob'.d = bfJob.d /\ bfJob'.writing = {b}
      /\ bfJob'.todo = bfJob.todo \ {b} /\ bfJob'.actionable = bfJob.actionable
      /\ bfJob'.all = bfJob.all
  <2>1. /\ bfJob.left - requests \in Int
        /\ bfJob.todo \ {b} \in SUBSET Buckets /\ {b} \in SUBSET Buckets
    BY <1>1 DEF Jobs
  <2>2. bfJob' = [bfJob EXCEPT !.at = "import", !.todo = bfJob.todo \ {b}, !.writing = {b},
                              !.left = bfJob.left - requests]
    BY DEF BucketQueued
  <2> QED BY <1>1, <2>1, <2>2 DEF Jobs
<1>3. AttemptsTyped(bfAttempts')
  BY <1>0, <1>1, AttemptType
<1>4. JobKnown'
  BY <1>1, <1>2 DEF JobKnown
<1>5. b \in DayBuckets <=> b \notin PeriodBuckets
  BY <1>1, BucketsFinite
<1>6. QueueKnown'
  <2>1. ASSUME NEW c \in bfJob'.todo \cup bfJob'.writing PROVE IsCandidate(bfJob.d, c)'
    <3>1. c \in bfJob.todo
      BY <1>1, <1>2
    <3> QED BY <1>0, <1>1, <1>2, <3>1 DEF IsCandidate
  <2>2. \E x \in Buckets :
          /\ bfJob'.writing = {x} /\ x \notin bfJob'.todo
          /\ x \in DayBuckets => bfJob'.todo \subseteq DayBuckets
          /\ x \in PeriodBuckets => bfJob'.todo \subseteq PeriodBuckets
    BY <1>1, <1>2, <1>5
  <2> QED BY <1>2, <2>1, <2>2 DEF QueueKnown
<1>7. \A d \in BfIds, c \in Buckets : Collected(d, c)' <=> Collected(d, c)
  BY <1>1, <1>2, <1>5 DEF Collected
<1>8. bfRecorder' \in Recorders
  <2>1. <<bfJob.d, b>> \in BfIds \X Buckets /\ bfRecorder \in Recorders
    BY <1>1 DEF BfTypeOK, Recorders
  <2> QED BY <1>0, <2>1 DEF Recorders
<1>9. UNCHANGED <<bfStatus, bfSaved, bfStartup, bfVisited>>
  BY <1>0
<1> QED BY <1>2, <1>3, <1>4, <1>6, <1>7, <1>8, <1>9, BfAsideKeeps

LEMMA EmptyKeeps ==
  ASSUME BfInv, NEW b, NEW requests \in 1..2, BucketEmpty(b, requests) PROVE BfInv'
<1> DEFINE d == bfJob.d
<1>0. /\ Fetching(b) /\ Attempt(d, b) /\ Visit(d, b, "checked")
      /\ UNCHANGED <<bfSaved, bfRecorder, bfStartup>>
  BY DEF BucketEmpty
<1>1. /\ BfTypeOK /\ b \in Buckets /\ b \in bfJob.todo /\ bfJob \in Jobs /\ d \in BfIds
      /\ \/ bfJob.at = "day" /\ bfJob.todo \subseteq DayBuckets
         \/ bfJob.at = "period" /\ bfJob.todo \subseteq PeriodBuckets
      /\ bfJob.all /\ bfJob.writing = {} /\ \A c \in bfJob.todo : IsCandidate(d, c)
      /\ Collected(d, b) /\ Counted
  BY <1>0, FetchFacts DEF BfInv
<1>2. bfJob' = [bfJob EXCEPT !.todo = bfJob.todo \ {b}, !.left = bfJob.left - requests,
                            !.actionable = bfJob.actionable - 1]
  BY DEF BucketEmpty
<1>3. /\ bfJob'.at = bfJob.at /\ bfJob'.d = d /\ bfJob'.writing = {}
      /\ bfJob'.todo = bfJob.todo \ {b} /\ bfJob'.actionable = bfJob.actionable - 1
      /\ bfJob'.all = bfJob.all
  BY <1>1, <1>2 DEF Jobs
<1>4. \A e \in BfIds, c \in Buckets : Collected(e, c)' <=> Collected(e, c)
  BY <1>1, <1>3 DEF Collected
<1>5. /\ Cardinality(Missing') = Cardinality(Missing) - 1 /\ Cardinality(Missing') \in Nat
      /\ bfStatus' \in [BfIds -> [Buckets -> Statuses]] /\ bfVisited' \subseteq BfIds \X Buckets
      /\ \A e \in BfIds : e = d => \A c \in Buckets \ {b} : IsCandidate(e, c) => IsCandidate(e, c)'
  <2> SUFFICES ASSUME NEW e \in BfIds, e = d
               PROVE  /\ Cardinality(Missing') = Cardinality(Missing) - 1
                      /\ Cardinality(Missing') \in Nat
                      /\ bfStatus' \in [BfIds -> [Buckets -> Statuses]]
                      /\ bfVisited' \subseteq BfIds \X Buckets
                      /\ \A c \in Buckets \ {b} : IsCandidate(e, c) => IsCandidate(e, c)'
    BY <1>1
  <2>1. Visit(e, b, "checked") /\ Collected(e, b) /\ IsCandidate(e, b)
    BY <1>0, <1>1
  <2> HIDE DEF d
  <2> QED BY <1>0, <1>1, <1>4, <2>1, VisitTakes
<1>6. bfJob' \in Jobs /\ bfJob'.actionable = Cardinality(Missing')
  <2>1. bfJob.actionable - 1 \in Nat /\ bfJob.actionable - 1 = Cardinality(Missing')
    BY <1>1, <1>5 DEF Counted
  <2>2. bfJob.left - requests \in Int /\ bfJob.todo \ {b} \in SUBSET Buckets
    BY <1>1 DEF Jobs
  <2> QED BY <1>1, <1>2, <1>3, <2>1, <2>2 DEF Jobs
<1>7. AttemptsTyped(bfAttempts')
  BY <1>0, <1>1, AttemptType
<1>8. BfTypeOK'
  BY <1>0, <1>1, <1>5, <1>6, <1>7 DEF BfTypeOK, AttemptsTyped
<1>9. JobKnown'
  BY <1>1, <1>3 DEF JobKnown
<1>10. QueueKnown'
  <2>1. ASSUME NEW c \in bfJob'.todo \cup bfJob'.writing PROVE IsCandidate(bfJob.d, c)'
    <3>1. c \in bfJob.todo /\ c \in Buckets \ {b} /\ IsCandidate(d, c)
      BY <1>1, <1>3 DEF Jobs
    <3> QED BY <1>1, <1>3, <1>5, <3>1
  <2> QED BY <1>1, <1>3, <2>1 DEF QueueKnown
<1>11. Counted'
  BY <1>6 DEF Counted
<1> QED BY <1>8, <1>9, <1>10, <1>11 DEF BfInv

LEMMA ImportedKeeps == ASSUME BfInv, BucketImported PROVE BfInv'
<1> DEFINE d == bfJob.d
<1>0. /\ BfTypeOK /\ JobKnown /\ QueueKnown /\ Counted /\ bfJob \in Jobs /\ bfJob.at = "import"
      /\ UNCHANGED <<bfAttempts, bfSaved, bfRecorder, bfStartup>>
  BY DEF BfInv, BfTypeOK, BucketImported
<1>1. PICK b \in bfJob.writing :
        /\ Visit(d, b, "imported")
        /\ bfJob' = [bfJob EXCEPT !.at = IF b \in DayBuckets THEN "day" ELSE "period",
                                  !.writing = {}, !.actionable = bfJob.actionable - 1]
  BY DEF BucketImported
<1>2. /\ b \in Buckets /\ bfJob.writing = {b} /\ b \notin bfJob.todo /\ d \in BfIds
      /\ b \in DayBuckets => bfJob.todo \subseteq DayBuckets
      /\ b \notin DayBuckets => bfJob.todo \subseteq PeriodBuckets
      /\ bfJob.all /\ \A c \in bfJob.todo \cup {b} : IsCandidate(d, c)
      /\ b \in DayBuckets <=> b \notin PeriodBuckets
  BY <1>0, <1>1, BucketsFinite DEF QueueKnown, JobKnown, Buckets
<1> DEFINE stage == IF b \in DayBuckets THEN "day" ELSE "period"
<1>3. /\ bfJob'.at = stage /\ bfJob'.d = d /\ bfJob'.writing = {}
      /\ bfJob'.todo = bfJob.todo /\ bfJob'.actionable = bfJob.actionable - 1
      /\ bfJob'.all = bfJob.all
  BY <1>0, <1>1 DEF Jobs
<1>4. Collected(d, b) /\ \A e \in BfIds, c \in Buckets : Collected(e, c)' <=> Collected(e, c)
  BY <1>0, <1>2, <1>3 DEF Collected, Buckets
<1>5. /\ Cardinality(Missing') = Cardinality(Missing) - 1 /\ Cardinality(Missing') \in Nat
      /\ bfStatus' \in [BfIds -> [Buckets -> Statuses]] /\ bfVisited' \subseteq BfIds \X Buckets
      /\ \A e \in BfIds : e = d => \A c \in Buckets \ {b} : IsCandidate(e, c) => IsCandidate(e, c)'
  <2> SUFFICES ASSUME NEW e \in BfIds, e = d
               PROVE  /\ Cardinality(Missing') = Cardinality(Missing) - 1
                      /\ Cardinality(Missing') \in Nat
                      /\ bfStatus' \in [BfIds -> [Buckets -> Statuses]]
                      /\ bfVisited' \subseteq BfIds \X Buckets
                      /\ \A c \in Buckets \ {b} : IsCandidate(e, c) => IsCandidate(e, c)'
    BY <1>2
  <2>1. Visit(e, b, "imported") /\ Collected(e, b) /\ IsCandidate(e, b)
    BY <1>1, <1>2, <1>4
  <2> HIDE DEF d
  <2> QED BY <1>0, <1>2, <1>4, <2>1, VisitTakes
<1>6. bfJob' \in Jobs /\ bfJob'.actionable = Cardinality(Missing')
  <2>1. bfJob.actionable - 1 \in Nat /\ bfJob.actionable - 1 = Cardinality(Missing')
    BY <1>0, <1>2, <1>5 DEF Counted
  <2> QED BY <1>0, <1>1, <1>3, <2>1 DEF Jobs
<1>7. BfTypeOK'
  BY <1>0, <1>5, <1>6 DEF BfTypeOK
<1>8. JobKnown'
  BY <1>2, <1>3 DEF JobKnown
<1>9. QueueKnown'
  <2>1. ASSUME NEW c \in bfJob'.todo \cup bfJob'.writing PROVE IsCandidate(bfJob.d, c)'
    <3>1. c \in bfJob.todo /\ c \in Buckets \ {b} /\ IsCandidate(d, c)
      BY <1>0, <1>2, <1>3 DEF Jobs
    <3> QED BY <1>2, <1>3, <1>5, <3>1
  <2> QED BY <1>2, <1>3, <2>1 DEF QueueKnown
<1>10. Counted'
  BY <1>6 DEF Counted
<1> QED BY <1>7, <1>8, <1>9, <1>10 DEF BfInv

LEMMA QueueSavedKeeps == ASSUME BfInv, QueueSaved PROVE BfInv'
<1>0. /\ BfTypeOK /\ JobKnown /\ QueueKnown /\ Counted /\ bfJob \in Jobs
      /\ bfJob.at \in {"day", "period"} /\ bfJob.d \in BfIds /\ bfJob.writing = {}
      /\ UNCHANGED <<bfStatus, bfAttempts, bfRecorder, bfStartup, bfVisited>>
  BY DEF BfInv, BfTypeOK, QueueSaved, JobKnown, QueueKnown
<1>1. /\ bfSaved' = [status |-> bfStatus, attempts |-> bfAttempts]
      /\ bfSaved' \in [status : [BfIds -> [Buckets -> Statuses]],
                       attempts : [BfIds -> AttemptsOfDevice]]
      /\ \A d \in BfIds : IsInjective(bfSaved'.attempts[d].order)
  BY <1>0 DEF QueueSaved, Save, BfTypeOK
<1>2. bfJob' \in Jobs => BfTypeOK'
  BY <1>0, <1>1 DEF BfTypeOK
<1>3. CASE bfJob' = NoJob
  BY <1>2, <1>3, NoJobType, IdleKeeps
<1>4. ASSUME bfJob' \in Jobs, bfJob'.at \in {"between", "device"}, bfJob'.writing = {},
             bfJob'.actionable = bfJob.actionable, bfJob'.all = bfJob.all,
             bfJob'.at = "between" => bfJob'.d \in BfIds,
             \A d \in BfIds, b \in Buckets : Collected(d, b)' <=> Collected(d, b)
      PROVE  BfInv'
  <2>1. JobKnown' /\ QueueKnown'
    BY <1>0, <1>4 DEF JobKnown, QueueKnown
  <2>2. Counted'
    BY <1>0, <1>4, SameMissing DEF Counted
  <2> QED BY <1>2, <1>4, <2>1, <2>2 DEF BfInv
<1>5. CASE bfJob.at = "day" /\ bfJob' = [bfJob EXCEPT !.at = "between", !.todo = {}]
  <2>1. /\ bfJob' \in Jobs /\ bfJob'.at = "between" /\ bfJob'.writing = {} /\ bfJob'.d = bfJob.d
        /\ bfJob'.actionable = bfJob.actionable /\ bfJob'.all = bfJob.all
    BY <1>0, <1>5 DEF Jobs
  <2>2. \A d \in BfIds, b \in Buckets : Collected(d, b)' <=> Collected(d, b)
    BY <1>5, <2>1 DEF Collected
  <2> QED BY <1>0, <1>4, <2>1, <2>2
<1>6. CASE bfJob.at = "period" /\ bfJob' = [bfJob EXCEPT !.at = "device", !.d = @ + 1]
  <2>0. bfJob.d + 1 \in 1 .. BfDevices + 1
    BY <1>0, BackfillAssumption DEF BfIds
  <2>1. /\ bfJob' \in Jobs /\ bfJob'.at = "device" /\ bfJob'.writing = {} /\ bfJob'.d = bfJob.d + 1
        /\ bfJob'.actionable = bfJob.actionable /\ bfJob'.all = bfJob.all
    BY <1>0, <1>6, <2>0 DEF Jobs
  <2>2. ASSUME NEW d \in BfIds, NEW b \in Buckets PROVE Collected(d, b)' <=> Collected(d, b)
    <3>1. d < bfJob.d + 1 <=> d < bfJob.d \/ d = bfJob.d
      BY <1>0, BackfillAssumption DEF BfIds
    <3> QED BY <1>6, <2>1, <3>1 DEF Collected, Buckets
  <2> QED BY <1>0, <1>4, <2>1, <2>2
<1> QED BY <1>0, <1>3, <1>5, <1>6 DEF QueueSaved

LEMMA RecorderKeeps == ASSUME BfInv, RecorderCommits PROVE BfInv'
<1>0. BfTypeOK /\ JobKnown /\ QueueKnown /\ Counted
  BY DEF BfInv
<1>1. /\ bfRecorder' = [bfRecorder EXCEPT !.rows = bfRecorder.rows \cup bfRecorder.queued,
                                          !.queued = {}]
      /\ UNCHANGED <<bfStatus, bfAttempts, bfSaved, bfStartup, bfVisited, bfJob>>
  BY DEF RecorderCommits
<1>2. BfTypeOK'
  BY <1>0, <1>1 DEF BfTypeOK
<1>3. JobKnown' /\ QueueKnown'
  BY <1>0, <1>1 DEF JobKnown, QueueKnown, IsCandidate
<1>4. Counted'
  BY <1>0, <1>1, SameMissing DEF Counted, Collected
<1> QED BY <1>2, <1>3, <1>4 DEF BfInv

LEMMA EndsKeep ==
  ASSUME BfInv, JobEnds \/ JobCancelled \/ Reload \/ Crash \/ NewDay PROVE BfInv'
<1>0. BfTypeOK /\ JobKnown
  BY DEF BfInv
<1>1. CASE JobEnds
  <2>1. BfTypeOK'
    BY <1>0, <1>1, NoJobType DEF JobEnds, BfTypeOK
  <2> QED BY <1>1, <2>1, IdleKeeps DEF JobEnds
<1>2. CASE JobCancelled
  <2>1. bfSaved' = [status |-> bfStatus, attempts |-> bfAttempts]
    BY <1>2 DEF JobCancelled, Save
  <2>2. BfTypeOK'
    BY <1>0, <1>2, <2>1, NoJobType DEF JobCancelled, BfTypeOK
  <2> QED BY <1>2, <2>2, IdleKeeps DEF JobCancelled
<1>3. CASE Reload \/ Crash
  <2>1. NewCoordinator /\ bfRecorder' \in Recorders
    BY <1>0, <1>3 DEF Reload, Crash, BfTypeOK, Recorders
  <2>2. BfTypeOK'
    BY <1>0, <2>1, NoJobType DEF NewCoordinator, BfTypeOK, Recorders
  <2> QED BY <2>1, <2>2, IdleKeeps DEF NewCoordinator
<1>4. CASE NewDay
  <2> DEFINE Aged(status) == [d \in BfIds |-> [b \in Buckets |->
                               IF status[d][b] = "checked" THEN "pending" ELSE status[d][b]]]
  <2>1. /\ bfStatus' = Aged(bfStatus) /\ bfSaved' = [bfSaved EXCEPT !.status = Aged(bfSaved.status)]
        /\ UNCHANGED <<bfAttempts, bfRecorder, bfStartup, bfVisited, bfJob>> /\ bfJob.at = "idle"
    BY <1>4 DEF NewDay
  <2>2. \A status \in [BfIds -> [Buckets -> Statuses]] : Aged(status) \in [BfIds -> [Buckets -> Statuses]]
    BY DEF Statuses
  <2> HIDE DEF Aged
  <2>3. BfTypeOK'
    BY <1>0, <2>1, <2>2 DEF BfTypeOK
  <2>4. bfJob' = NoJob
    BY <1>0, <2>1 DEF JobKnown
  <2> QED BY <2>3, <2>4, IdleKeeps
<1> QED BY <1>1, <1>2, <1>3, <1>4

LEMMA BfInvNext == ASSUME BfInv, [BfNext]_bfVars PROVE BfInv'
<1>1. CASE UNCHANGED bfVars
  BY <1>1 DEF bfVars, BfInv, BfTypeOK, JobKnown, QueueKnown, Counted, Missing, Collected, IsCandidate
<1>2. CASE BucketStep
  <2>1. ASSUME NEW b \in Buckets, NEW requests \in 1..2, BucketFails(b, requests) PROVE BfInv'
    BY <2>1, UnsuccessfulKeeps
  <2>2. ASSUME NEW b \in Buckets, BucketStopsJob(b) PROVE BfInv'
    <3>1. 1 \in 1..2
      OBVIOUS
    <3> QED BY <2>2, <3>1, UnsuccessfulKeeps
  <2> QED BY <1>2, <2>1, <2>2, RaisedKeeps, QueuedKeeps, EmptyKeeps DEF BucketStep, BucketAnswered
<1> QED BY <1>1, <1>2, CollectKeeps, JobAsideKeeps, ImportedKeeps, QueueSavedKeeps, RecorderKeeps,
           EndsKeep
        DEF BfNext, BfCalmNext, JobStep

LEMMA BfAlways == BfSpec => []BfInv
<1>1. BfInit => BfInv
  BY BfInvInit
<1>2. BfInv /\ [BfNext]_bfVars => BfInv'
  BY BfInvNext
<1> QED BY <1>1, <1>2, PTL DEF BfSpec

\* The backfill's types, for any devices and buckets: the buckets of a device are in
\* the order of their last attempts, each once, and the count of what is actionable
\* never falls below zero.
THEOREM BackfillTypeCorrect == BfSpec => []BfTypeOK
<1>1. BfInv => BfTypeOK
  BY DEF BfInv
<1> QED BY <1>1, BfAlways, PTL

LEMMA StartupEnds ==
  ASSUME BfInv, [BfNext]_bfVars, bfStartup, ~bfStartup'
  PROVE  \A d \in BfIds, b \in Buckets :
           <<d, b>> \in bfVisited \/ (b \in DayBuckets /\ bfStatus[d][b] \in {"imported", "checked"})
<1>0. JobKnown /\ Counted
  BY DEF BfInv
<1>1. JobEnds
  BY DEF BfNext, BfCalmNext, JobStep, BucketStep, BucketAnswered, bfVars, JobStarts, JobLate,
         JobCancelled, NewDay, Reload, Crash, NewCoordinator, RecorderCommits, DaysCollected,
         PeriodsCollected, JobBreaksOff, DevicesDone, BucketImported, QueueSaved, BucketFails,
         BucketRaises, BucketQueued, BucketEmpty, BucketStopsJob
<1>2. bfJob.at = "end" /\ bfJob.actionable = 0 /\ bfJob.all
  BY <1>1 DEF JobEnds
<1>3. bfJob.d = BfDevices + 1 /\ Cardinality(Missing) = 0
  BY <1>0, <1>2 DEF JobKnown, Counted
<1>4. Missing = {}
  BY <1>3, MissingFinite, FS_EmptySet
<1>5. ASSUME NEW d \in BfIds, NEW b \in Buckets PROVE ~IsCandidate(d, b)
  <2>1. d < bfJob.d
    BY <1>3, BackfillAssumption DEF BfIds
  <2>2. <<d, b>> \notin Missing
    BY <1>4
  <2> QED BY <2>1, <2>2 DEF Missing, Collected
<1> QED BY <1>5 DEF IsCandidate

\* The pass after a start ends only when every bucket of every device was read in it or
\* is known to be done: the zero it ends with is a count over all devices of what they
\* had and nobody read, whatever budgets, time limits, failures and cancellations did.
THEOREM StartupCompletes == BfSpec => StartupIsComplete
<1>1. BfInv /\ [BfNext]_bfVars =>
        [bfStartup /\ ~bfStartup' =>
          \A d \in BfIds, b \in Buckets :
            <<d, b>> \in bfVisited \/ (b \in DayBuckets /\ bfStatus[d][b] \in {"imported", "checked"})
        ]_bfVars
  BY StartupEnds
<1> QED BY <1>1, BfAlways, PTL DEF BfSpec, StartupIsComplete

-------------------------------------------------------------------------------
(* What is marked imported has its rows in the Recorder, committed or queued,    *)
(* unless a crash took them from its queue.                                      *)

\* What the Recorder has, will have, or lost.
Handed == bfRecorder.rows \cup bfRecorder.queued \cup bfRecorder.lost

\* Between the handing over of the rows and the mark, the Recorder has them.
ImportIsBacked ==
  \A b \in bfJob.writing :
    <<bfJob.d, b>> \in bfRecorder.rows \cup bfRecorder.queued /\ <<bfJob.d, b>> \notin bfRecorder.lost

Backed(status, handed) ==
  \A d \in BfIds, b \in Buckets : status[d][b] = "imported" => <<d, b>> \in handed

\* One bucket's rows are waited for at the most.
OneQueued == \E x : bfRecorder.queued \subseteq {x}

\* What was lost is not marked again unless it is handed over again: not in the pass
\* after the crash, and none of the periods, which that pass reads again, after it.
LostIsKnown ==
  \A d \in BfIds, b \in Buckets :
    <<d, b>> \in bfRecorder.lost /\ (<<d, b>> \in bfVisited \/ (~bfStartup /\ b \in PeriodBuckets))
      => bfStatus[d][b] # "imported"

ImportInv ==
  /\ ImportIsBacked /\ OneQueued /\ LostIsKnown
  /\ Backed(bfStatus, Handed) /\ Backed(bfSaved.status, Handed)

LEMMA ImportInit == BfInit => ImportInv
BY NoJobType
DEF BfInit, BfInitWith, ImportInv, ImportIsBacked, OneQueued, LostIsKnown, Backed, Handed

\* Steps of the job that hand nothing over: statuses may only get marks that are not
\* "imported", and the store what the memory holds.
LEMMA ImportAside ==
  ASSUME BfTypeOK, ImportInv, bfRecorder' = bfRecorder, bfStartup' = bfStartup,
         bfJob'.writing \subseteq bfJob.writing, bfJob'.writing # {} => bfJob'.d = bfJob.d,
         bfSaved'.status = bfSaved.status \/ bfSaved'.status = bfStatus',
         \A d \in BfIds, b \in Buckets :
           bfStatus'[d][b] = "imported" =>
             bfStatus[d][b] = "imported" /\ (<<d, b>> \in bfVisited' => <<d, b>> \in bfVisited)
  PROVE  ImportInv'
<1>1. Handed' = Handed
  BY DEF Handed
<1>2. Backed(bfStatus', Handed)
  BY DEF ImportInv, Backed
<1>3. Backed(bfSaved'.status, Handed)
  BY <1>2 DEF ImportInv, Backed
<1>4. ImportIsBacked' /\ OneQueued'
  BY DEF ImportInv, ImportIsBacked, OneQueued
<1>5. LostIsKnown'
  BY DEF ImportInv, LostIsKnown
<1> QED BY <1>1, <1>2, <1>3, <1>4, <1>5 DEF ImportInv, Backed

LEMMA JobHandsNothing ==
  ASSUME BfInv, ImportInv,
         \/ DaysCollected \/ PeriodsCollected \/ JobStarts \/ JobLate \/ JobBreaksOff \/ DevicesDone
         \/ QueueSaved \/ JobCancelled
  PROVE  ImportInv'
<1>0. BfTypeOK /\ bfJob \in Jobs
  BY DEF BfInv, BfTypeOK
<1>1. CASE DaysCollected \/ PeriodsCollected
  <2>1. PICK d, queue, stage : /\ Collect(d, queue, stage) /\ d = bfJob.d
                               /\ UNCHANGED <<bfSaved, bfRecorder, bfStartup, bfVisited>>
    BY <1>1 DEF DaysCollected, PeriodsCollected
  <2> DEFINE found == Candidates(d, queue)
  <2>2. bfStatus' = [bfStatus EXCEPT ![d] =
                       [b \in Buckets |-> IF b \in found THEN "pending" ELSE @[b]]]
    BY <2>1 DEF Collect
  <2> HIDE DEF found
  <2>3. \A e \in BfIds, b \in Buckets : bfStatus'[e][b] = "imported" => bfStatus[e][b] = "imported"
    BY <1>0, <2>2 DEF BfTypeOK
  <2>4. bfJob'.writing = bfJob.writing /\ bfJob'.d = bfJob.d
    BY <1>0, <2>1 DEF Collect, Jobs
  <2> QED BY <1>0, <2>1, <2>3, <2>4, ImportAside
<1>2. CASE JobLate \/ JobBreaksOff \/ DevicesDone
  <2>1. /\ bfJob'.writing = bfJob.writing /\ bfJob'.d = bfJob.d
        /\ UNCHANGED <<bfStatus, bfSaved, bfRecorder, bfStartup, bfVisited>>
    BY <1>0, <1>2 DEF JobLate, JobBreaksOff, DevicesDone, Jobs
  <2> QED BY <1>0, <2>1, ImportAside
<1>3. CASE JobStarts
  <2>1. bfJob'.writing = {} /\ UNCHANGED <<bfStatus, bfSaved, bfRecorder, bfStartup, bfVisited>>
    BY <1>3, NoJobType DEF JobStarts, Jobs
  <2> QED BY <1>0, <2>1, ImportAside
<1>4. CASE QueueSaved \/ JobCancelled
  <2>1. /\ UNCHANGED <<bfStatus, bfRecorder, bfStartup, bfVisited>> /\ bfSaved'.status = bfStatus
    BY <1>4 DEF QueueSaved, JobCancelled, Save
  <2>2. bfJob'.writing = {}
    <3>1. CASE QueueSaved
      <4>1. bfJob.writing = {}
        BY <3>1 DEF BfInv, QueueKnown, QueueSaved
      <4> QED BY <1>0, <3>1, <4>1, NoJobType DEF QueueSaved, Jobs
    <3>2. CASE JobCancelled
      BY <3>2, NoJobType DEF JobCancelled
    <3> QED BY <1>4, <3>1, <3>2
  <2> QED BY <1>0, <2>1, <2>2, ImportAside
<1> QED BY <1>1, <1>2, <1>3, <1>4

LEMMA FailureHandsNothing ==
  ASSUME BfInv, ImportInv, NEW b \in Buckets, NEW requests \in 1..2,
         \/ BucketFails(b, requests) \/ BucketStopsJob(b) \/ BucketRaises(b)
         \/ BucketEmpty(b, requests)
  PROVE  ImportInv'
<1>0. BfTypeOK /\ bfJob \in Jobs
  BY DEF BfInv, BfTypeOK
<1>1. CASE BucketFails(b, requests) \/ BucketStopsJob(b)
  <2>1. /\ bfJob'.writing = bfJob.writing /\ bfJob'.d = bfJob.d
        /\ UNCHANGED <<bfStatus, bfSaved, bfRecorder, bfStartup, bfVisited>>
    BY <1>0, <1>1 DEF BucketFails, BucketStopsJob, Jobs
  <2> QED BY <1>0, <2>1, ImportAside
<1>2. CASE BucketRaises(b)
  <2>1. bfJob'.writing = {} /\ UNCHANGED <<bfStatus, bfSaved, bfRecorder, bfStartup, bfVisited>>
    BY <1>2, NoJobType DEF BucketRaises
  <2> QED BY <1>0, <2>1, ImportAside
<1>3. CASE BucketEmpty(b, requests)
  <2>1. /\ bfJob'.writing = bfJob.writing /\ bfJob'.d = bfJob.d
        /\ UNCHANGED <<bfSaved, bfRecorder, bfStartup>>
        /\ bfStatus' = [bfStatus EXCEPT ![bfJob.d][b] = "checked"]
        /\ bfVisited' = bfVisited \cup {<<bfJob.d, b>>}
    BY <1>0, <1>3 DEF BucketEmpty, Visit, Jobs
  <2>2. bfJob.d \in BfIds
    BY <1>3, FetchFacts DEF BucketEmpty
  <2>3. \A e \in BfIds, c \in Buckets :
          bfStatus'[e][c] = IF e = bfJob.d /\ c = b THEN "checked" ELSE bfStatus[e][c]
    BY <1>0, <2>1, <2>2 DEF BfTypeOK
  <2>4. \A e \in BfIds, c \in Buckets : bfStatus'[e][c] = "imported" =>
          bfStatus[e][c] = "imported" /\ (<<e, c>> \in bfVisited' => <<e, c>> \in bfVisited)
    BY <2>1, <2>3
  <2> QED BY <1>0, <2>1, <2>4, ImportAside
<1> QED BY <1>1, <1>2, <1>3

\* The rows of one bucket are handed over when nothing is queued any more.
LEMMA QueuedIsHanded ==
  ASSUME BfInv, ImportInv, NEW b \in Buckets, NEW requests \in 1..2, BucketQueued(b, requests)
  PROVE  ImportInv'
<1>0. BfTypeOK /\ bfJob \in Jobs /\ bfRecorder \in Recorders
  BY DEF BfInv, BfTypeOK, Recorders
<1>1. /\ bfJob'.writing = {b} /\ bfJob'.d = bfJob.d
      /\ UNCHANGED <<bfStatus, bfSaved, bfStartup, bfVisited>> /\ bfRecorder.queued = {}
      /\ bfRecorder'.rows = bfRecorder.rows /\ bfRecorder'.queued = {<<bfJob.d, b>>}
      /\ bfRecorder'.lost = bfRecorder.lost \ {<<bfJob.d, b>>}
  BY <1>0 DEF BucketQueued, Jobs, Recorders
<1>2. Handed \subseteq Handed'
  BY <1>1 DEF Handed
<1>3. ImportIsBacked' /\ OneQueued' /\ LostIsKnown'
  BY <1>1 DEF ImportInv, ImportIsBacked, OneQueued, LostIsKnown
<1>4. Backed(bfStatus', Handed') /\ Backed(bfSaved'.status, Handed')
  BY <1>1, <1>2 DEF ImportInv, Backed
<1> QED BY <1>3, <1>4 DEF ImportInv, Backed

LEMMA MarkIsBacked == ASSUME BfInv, ImportInv, BucketImported PROVE ImportInv'
<1>0. BfTypeOK /\ bfJob \in Jobs
  BY DEF BfInv, BfTypeOK
<1>1. PICK b \in bfJob.writing :
        /\ bfStatus' = [bfStatus EXCEPT ![bfJob.d][b] = "imported"] /\ bfJob'.writing = {}
        /\ bfVisited' = bfVisited \cup {<<bfJob.d, b>>}
        /\ UNCHANGED <<bfSaved, bfRecorder, bfStartup>>
  BY <1>0 DEF BucketImported, Visit, Jobs
<1>2. bfJob.d \in BfIds /\ b \in Buckets
  BY <1>0 DEF BfInv, JobKnown, BucketImported, Jobs
<1>3. <<bfJob.d, b>> \in Handed /\ <<bfJob.d, b>> \notin bfRecorder.lost /\ Handed' = Handed
  BY <1>1 DEF ImportInv, ImportIsBacked, Handed
<1>4. \A e \in BfIds, c \in Buckets :
        bfStatus'[e][c] = IF e = bfJob.d /\ c = b THEN "imported" ELSE bfStatus[e][c]
  BY <1>0, <1>1, <1>2 DEF BfTypeOK
<1>5. Backed(bfStatus', Handed) /\ Backed(bfSaved'.status, Handed)
  BY <1>1, <1>3, <1>4 DEF ImportInv, Backed
<1>6. LostIsKnown'
  BY <1>1, <1>3, <1>4 DEF ImportInv, LostIsKnown
<1>7. ImportIsBacked' /\ OneQueued'
  BY <1>1 DEF ImportInv, ImportIsBacked, OneQueued
<1> QED BY <1>3, <1>5, <1>6, <1>7 DEF ImportInv, Backed

\* The pass that ends has read every period, so none that was lost is marked.
LEMMA EndIsKnown == ASSUME BfInv, ImportInv, JobEnds PROVE ImportInv'
<1>1. bfJob'.writing = {} /\ UNCHANGED <<bfStatus, bfSaved, bfRecorder, bfVisited>>
  BY NoJobType DEF JobEnds
<1>2. LostIsKnown'
  <2>1. CASE bfStartup' = bfStartup
    BY <1>1, <2>1 DEF ImportInv, LostIsKnown
  <2>2. CASE bfStartup' # bfStartup
    <3>1. bfStartup /\ ~bfStartup'
      BY <2>2 DEF BfInv, BfTypeOK, JobEnds
    <3>2. [BfNext]_bfVars
      BY DEF BfNext, BfCalmNext, JobStep
    <3>3. \A d \in BfIds, b \in PeriodBuckets : <<d, b>> \in bfVisited
      BY <3>1, <3>2, StartupEnds, BucketsFinite DEF Buckets
    <3> QED BY <1>1, <3>3 DEF ImportInv, LostIsKnown
  <2> QED BY <2>1, <2>2
<1> QED BY <1>1, <1>2 DEF ImportInv, ImportIsBacked, OneQueued, Backed, Handed

LEMMA CommitIsBacked == ASSUME BfInv, ImportInv, RecorderCommits PROVE ImportInv'
<1>0. bfRecorder \in Recorders
  BY DEF BfInv, BfTypeOK, Recorders
<1>1. /\ UNCHANGED <<bfStatus, bfSaved, bfStartup, bfVisited, bfJob>>
      /\ bfRecorder'.rows = bfRecorder.rows \cup bfRecorder.queued
      /\ bfRecorder'.queued = {} /\ bfRecorder'.lost = bfRecorder.lost
  BY <1>0 DEF RecorderCommits, Recorders
<1>2. Handed' = Handed
  BY <1>1 DEF Handed
<1> QED BY <1>1, <1>2 DEF ImportInv, ImportIsBacked, OneQueued, LostIsKnown, Backed

\* A new coordinator begins with what the store holds; a crash loses what was queued.
LEMMA NewLifeIsBacked == ASSUME BfInv, ImportInv, Reload \/ Crash PROVE ImportInv'
<1>0. bfRecorder \in Recorders
  BY DEF BfInv, BfTypeOK, Recorders
<1>1. /\ bfStatus' = bfSaved.status /\ bfSaved' = bfSaved /\ bfJob'.writing = {}
      /\ bfStartup' /\ bfVisited' = {}
  BY NoJobType DEF Reload, Crash, NewCoordinator
<1>2. /\ bfRecorder'.queued \subseteq bfRecorder.queued
      /\ Handed \subseteq Handed'
  BY <1>0 DEF Reload, Crash, Recorders, Handed
<1>3. ImportIsBacked' /\ OneQueued' /\ LostIsKnown'
  BY <1>1, <1>2 DEF ImportInv, ImportIsBacked, OneQueued, LostIsKnown
<1>4. Backed(bfStatus', Handed') /\ Backed(bfSaved'.status, Handed')
  BY <1>1, <1>2 DEF ImportInv, Backed
<1> QED BY <1>3, <1>4 DEF ImportInv, Backed

LEMMA NewDayIsBacked == ASSUME BfInv, ImportInv, NewDay PROVE ImportInv'
<1> DEFINE Aged(status) == [d \in BfIds |-> [b \in Buckets |->
                             IF status[d][b] = "checked" THEN "pending" ELSE status[d][b]]]
<1>0. BfTypeOK
  BY DEF BfInv
<1>1. \A status : \A d \in BfIds, b \in Buckets :
        Aged(status)[d][b] = "imported" => status[d][b] = "imported"
  OBVIOUS
<1>2. /\ bfStatus' = Aged(bfStatus) /\ bfSaved' = [bfSaved EXCEPT !.status = Aged(bfSaved.status)]
      /\ UNCHANGED <<bfRecorder, bfStartup, bfVisited, bfJob>>
  BY DEF NewDay
<1> HIDE DEF Aged
<1>3. bfSaved'.status = Aged(bfSaved.status)
  BY <1>0, <1>2 DEF BfTypeOK
<1>4. Handed' = Handed
  BY <1>2 DEF Handed
<1>5. Backed(bfStatus', Handed) /\ Backed(bfSaved'.status, Handed)
  BY <1>1, <1>2, <1>3 DEF ImportInv, Backed
<1>6. ImportIsBacked' /\ OneQueued' /\ LostIsKnown'
  BY <1>1, <1>2 DEF ImportInv, ImportIsBacked, OneQueued, LostIsKnown
<1> QED BY <1>4, <1>5, <1>6 DEF ImportInv, Backed

LEMMA ImportNext == ASSUME BfInv, ImportInv, [BfNext]_bfVars PROVE ImportInv'
<1>1. CASE UNCHANGED bfVars
  BY <1>1 DEF bfVars, ImportInv, ImportIsBacked, OneQueued, LostIsKnown, Backed, Handed
<1>2. CASE BucketStep
  <2>1. 1 \in 1..2
    OBVIOUS
  <2> QED BY <1>2, <2>1, FailureHandsNothing, QueuedIsHanded DEF BucketStep, BucketAnswered
<1>3. CASE BfNext /\ ~BucketStep
  BY <1>3, JobHandsNothing, MarkIsBacked, EndIsKnown, CommitIsBacked, NewLifeIsBacked,
     NewDayIsBacked
  DEF BfNext, BfCalmNext, JobStep
<1> QED BY <1>1, <1>2, <1>3

\* What is marked as imported, in memory or in the store, has its rows in the Recorder,
\* or is the one bucket it has still to commit, or lost them in a crash; and no lost
\* period is marked once the pass after the crash is over.
THEOREM ImportsAreRecorded == BfSpec => []ImportedIsRecorded
<1>1. BfInv /\ ImportInv => ImportedIsRecorded
  <2> SUFFICES ASSUME BfInv, ImportInv PROVE ImportedIsRecorded
    OBVIOUS
  <2>0. bfRecorder.lost \subseteq BfIds \X Buckets
    BY DEF BfInv, BfTypeOK
  <2> DEFINE Imported(d, b) == "imported" \in {bfStatus[d][b], bfSaved.status[d][b]}
             waiting == {x \in BfIds \X Buckets : Imported(x[1], x[2])}
                          \ (bfRecorder.rows \cup bfRecorder.lost)
  <2>1. waiting \subseteq bfRecorder.queued
    BY DEF ImportInv, Backed, Handed
  <2> HIDE DEF waiting
  <2>2. PICK x : waiting \subseteq {x}
    BY <2>1, Zenon DEF ImportInv, OneQueued
  <2>3. Cardinality(waiting) <= 1
    <3>1. waiting = {} \/ waiting = {x}
      BY <2>2
    <3>2. Cardinality({}) = 0 /\ Cardinality({x}) = 1
      BY FS_EmptySet, FS_Singleton
    <3> QED BY <3>1, <3>2
  <2>4. ASSUME ~bfStartup, NEW y \in bfRecorder.lost, y[2] \in PeriodBuckets
        PROVE  bfStatus[y[1]][y[2]] # "imported"
    <3>1. PICK d \in BfIds, b \in Buckets : y = <<d, b>>
      BY <2>0
    <3> QED BY <2>4, <3>1 DEF ImportInv, LostIsKnown
  <2> QED BY <2>1, <2>3, <2>4 DEF ImportedIsRecorded, waiting
<1>2. BfInv /\ BfInv' /\ ImportInv /\ [BfNext]_bfVars => ImportInv'
  BY ImportNext
<1> QED BY <1>1, <1>2, ImportInit, BfAlways, PTL DEF BfSpec

-------------------------------------------------------------------------------
(***************************************************************************)
(* The five parts side by side (MCAccount).                                 *)
(***************************************************************************)

\* What the part that runs keeps; the others stand as they began.
AccountInv ==
  /\ part = "api" => ApiInv
  /\ part = "entry" => RuntimeInv
  /\ part = "backfill" => BfInv
  /\ part = "commands" => CdTypeOK
  /\ part = "anchors" => AnchorInv

LEMMA AccountInvInit == AccountInit => AccountInv
<1>1. EntryInit => RuntimeInv
  BY TypeInit, RestInit DEF RuntimeInv, RestInv
<1> QED BY <1>1, ApiInvInit, BfInvInit, CdTypeInit, AnchorInit DEF AccountInit, AccountInv

LEMMA AccountInvNext == ASSUME AccountInv, [AccountNext]_accountVars PROVE AccountInv'
<1>0. RuntimeInv /\ [EntryNext]_entryVars => RuntimeInv'
  BY TypeNext, RestNext DEF RuntimeInv, RestInv
<1>1. /\ part' = part
      /\ part = "api" => [ApiNext]_apiVars
      /\ part = "entry" => [EntryNext]_entryVars
      /\ part = "backfill" => [BfNext]_bfVars
      /\ part = "commands" => [CdNext]_cdVars
      /\ part = "anchors" => [DyNext]_dyVars
  BY DEF AccountNext, accountVars
<1>2. part = "api" => ApiInv'
  BY <1>1, ApiInvNext DEF AccountInv
<1>3. part = "entry" => RuntimeInv'
  BY <1>0, <1>1 DEF AccountInv
<1>4. part = "backfill" => BfInv'
  BY <1>1, BfInvNext DEF AccountInv
<1>5. part = "commands" => CdTypeOK'
  BY <1>1, CdTypeNext DEF AccountInv
<1>6. part = "anchors" => AnchorInv'
  BY <1>1, AnchorNext DEF AccountInv
<1> QED BY <1>1, <1>2, <1>3, <1>4, <1>5, <1>6 DEF AccountInv

\* Each part of an account keeps its types, for any requests, tokens, coordinators,
\* tasks, devices, buckets, commands and dates.
THEOREM AccountTypeCorrect == AccountSpec => []AccountTypeOK
<1>1. AccountInit => AccountInv
  BY AccountInvInit
<1>2. AccountInv /\ [AccountNext]_accountVars => AccountInv'
  BY AccountInvNext
<1>3. AccountInv => AccountTypeOK
  BY DEF AccountInv, AccountTypeOK, ApiInv, RuntimeInv, BfInv, AnchorInv
<1> QED BY <1>1, <1>2, <1>3, PTL DEF AccountSpec
===============================================================================
