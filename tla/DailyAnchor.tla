------------------------------ MODULE DailyAnchor ------------------------------
(***************************************************************************)
(* The anchor of a daily energy value (coordinator.py and                   *)
(* client/daily_energy.py): the reading of a lifetime counter that today's  *)
(* energy is counted from.  Only a coordinator that saw the date change     *)
(* may take a reading for the whole day's; one that starts later must find  *)
(* the anchor in the store or report nothing.                               *)
(*                                                                          *)
(* One device and one counter, in successive coordinators of one entry.     *)
(* A reading is whatever the update cycle holds for the counter: fresh,     *)
(* stale or reset, so readings come in no order.                            *)
(***************************************************************************)
EXTENDS Naturals

CONSTANTS
  LastDay,      \* bound on the local dates
  LastReading   \* readings are 0..LastReading

ASSUME AnchorAssumption == LastDay \in Nat /\ LastReading \in Nat

VARIABLES
  dyToday,      \* the local date
  dyRun,        \* the coordinator: before, and after a good or a failed, load of the store
  dyCached,     \* _cached_date, 0 for None
  dyAnchor,     \* the device's row in _local_daily_snapshots
  dyPersisted,  \* the row in _persisted_local_daily_signature
  dyCycle,      \* the update cycle in flight
  dyWrite,      \* the background task daily_persist
  dyStore,      \* the row in the Store file
  dyFirst       \* history: the first reading that a cycle took on the last date of one

dyVars == <<dyToday, dyRun, dyCached, dyAnchor, dyPersisted, dyCycle, dyWrite, dyStore, dyFirst>>

Dates == 0..LastDay
Readings == 0..LastReading
Row == [day : Dates, anchor : Readings, full : BOOLEAN]    \* full: in _KEY_FULL_DAY_METRICS
NoRow == [day |-> 0, anchor |-> 0, full |-> FALSE]

NoCycle == [at |-> "idle", today |-> 0, rollover |-> FALSE]
NoWrite == [at |-> "none", row |-> NoRow]

DyTypeOK ==
  /\ dyToday \in 1..(LastDay + 1)
  /\ dyRun \in {"boot", "loaded", "unloaded"}
  /\ dyCached \in Dates
  /\ dyAnchor \in Row /\ dyPersisted \in Row /\ dyStore \in Row
  /\ dyCycle \in [at : {"idle", "fetch", "rest"}, today : Dates, rollover : BOOLEAN]
  /\ dyWrite \in [at : {"none", "created", "save"}, row : Row]
  /\ dyFirst \in [day : Dates, reading : Readings]

DyInit ==
  /\ dyToday = 1
  /\ dyRun = "boot"
  /\ dyCached = 0
  /\ dyAnchor = NoRow /\ dyPersisted = NoRow /\ dyStore = NoRow
  /\ dyCycle = NoCycle /\ dyWrite = NoWrite
  /\ dyFirst = [day |-> 0, reading |-> 0]

\* _schedule_background_once: the task that runs, or a new one.
Scheduled == IF dyWrite.at = "none" THEN [dyWrite EXCEPT !.at = "created"] ELSE dyWrite

-------------------------------------------------------------------------------
(* async_load_local_daily_snapshots, which setup awaits before the first cycle. *)

AnchorsLoaded ==
  /\ dyRun = "boot"
  /\ dyRun' = "loaded"
  /\ dyAnchor' = dyStore /\ dyPersisted' = dyStore
  /\ dyWrite' = Scheduled
  /\ UNCHANGED <<dyToday, dyCached, dyCycle, dyStore, dyFirst>>

\* Nothing is written by a coordinator that could not read.
AnchorsNotLoaded ==
  /\ dyRun = "boot"
  /\ dyRun' = "unloaded"
  /\ UNCHANGED <<dyToday, dyCached, dyAnchor, dyPersisted, dyCycle, dyWrite, dyStore, dyFirst>>

-------------------------------------------------------------------------------
(* The update cycle.                                                         *)

RolloverSeen_ColdStart == dyCached # dyToday
RolloverSeen == dyCached # 0 /\ dyCached # dyToday

\* The date is read, and noted, before the requests.
CycleStarts ==
  /\ dyRun # "boot" /\ dyCycle.at = "idle" /\ dyToday \in Dates
  /\ dyCycle' = [at |-> "fetch", today |-> dyToday, rollover |-> RolloverSeen]
  /\ dyCached' = dyToday
  /\ UNCHANGED <<dyToday, dyRun, dyAnchor, dyPersisted, dyWrite, dyStore, dyFirst>>

\* refresh_snapshot: the day's anchor stays, or the reading becomes the new day's.
Refreshed(row, reading) ==
  IF row.day = dyCycle.today
    THEN [row EXCEPT !.full = @ \/ dyCycle.rollover]
    ELSE [day |-> dyCycle.today, anchor |-> reading, full |-> dyCycle.rollover]

CycleReads(reading) ==
  /\ dyCycle.at = "fetch"
  /\ dyAnchor' = Refreshed(dyAnchor, reading)
  /\ dyFirst' = IF dyFirst.day = dyCycle.today THEN dyFirst
                ELSE [day |-> dyCycle.today, reading |-> reading]
  /\ dyCycle' = [dyCycle EXCEPT !.at = "rest"]
  /\ UNCHANGED <<dyToday, dyRun, dyCached, dyPersisted, dyWrite, dyStore>>

\* The payload has no such counter: a row without values counts as none.
CycleLacksCounter ==
  /\ dyCycle.at = "fetch"
  /\ dyAnchor' = IF dyAnchor.day = dyCycle.today THEN Refreshed(dyAnchor, 0) ELSE NoRow
  /\ dyCycle' = [dyCycle EXCEPT !.at = "rest"]
  /\ UNCHANGED <<dyToday, dyRun, dyCached, dyPersisted, dyWrite, dyStore, dyFirst>>

\* The device's request fails, but another's answer or old data lets the cycle go on:
\* the date has been noted all the same.
CycleFetchFails ==
  /\ dyCycle.at = "fetch"
  /\ dyCycle' = [dyCycle EXCEPT !.at = "rest"]
  /\ UNCHANGED <<dyToday, dyRun, dyCached, dyAnchor, dyPersisted, dyWrite, dyStore, dyFirst>>

CycleEnds ==
  /\ dyCycle.at = "rest"
  /\ dyCycle' = NoCycle
  /\ dyWrite' = Scheduled
  /\ UNCHANGED <<dyToday, dyRun, dyCached, dyAnchor, dyPersisted, dyStore, dyFirst>>

\* A request or the cycle as a whole fails, or begins anew without invalid devices.
CycleBreaksOff ==
  /\ dyCycle.at # "idle"
  /\ dyCycle' = NoCycle
  /\ UNCHANGED <<dyToday, dyRun, dyCached, dyAnchor, dyPersisted, dyWrite, dyStore, dyFirst>>

-------------------------------------------------------------------------------
(* _async_persist_local_daily_snapshots_if_changed.                          *)

WriteBegins ==
  /\ dyWrite.at = "created"
  /\ dyWrite' = IF dyRun = "loaded" /\ dyAnchor # dyPersisted
                  THEN [at |-> "save", row |-> dyAnchor]
                  ELSE NoWrite
  /\ UNCHANGED <<dyToday, dyRun, dyCached, dyAnchor, dyPersisted, dyCycle, dyStore, dyFirst>>

WriteEnds ==
  /\ dyWrite.at = "save"
  /\ dyStore' = dyWrite.row /\ dyPersisted' = dyWrite.row
  /\ dyWrite' = NoWrite
  /\ UNCHANGED <<dyToday, dyRun, dyCached, dyAnchor, dyCycle, dyFirst>>

WriteFails ==
  /\ dyWrite.at = "save"
  /\ dyWrite' = NoWrite
  /\ UNCHANGED <<dyToday, dyRun, dyCached, dyAnchor, dyPersisted, dyCycle, dyStore, dyFirst>>

-------------------------------------------------------------------------------
(* A reload, a restart or a crash: a write in flight is made or not.         *)
CoordinatorReplaced ==
  /\ dyRun' = "boot" /\ dyCached' = 0
  /\ dyAnchor' = NoRow /\ dyPersisted' = NoRow
  /\ dyCycle' = NoCycle /\ dyWrite' = NoWrite
  /\ dyStore' \in {dyStore} \cup {row \in {dyWrite.row} : dyWrite.at = "save"}
  /\ UNCHANGED <<dyToday, dyFirst>>

Midnight ==
  /\ dyToday \in Dates
  /\ dyToday' = dyToday + 1
  /\ UNCHANGED <<dyRun, dyCached, dyAnchor, dyPersisted, dyCycle, dyWrite, dyStore, dyFirst>>

DyNext ==
  \/ AnchorsLoaded \/ AnchorsNotLoaded
  \/ CycleStarts \/ CycleLacksCounter \/ CycleFetchFails \/ CycleEnds \/ CycleBreaksOff
  \/ \E reading \in Readings : CycleReads(reading)
  \/ WriteBegins \/ WriteEnds \/ WriteFails
  \/ CoordinatorReplaced \/ Midnight

DySpec == DyInit /\ [][DyNext]_dyVars

-------------------------------------------------------------------------------
(* Properties.                                                               *)

\* A stored or loaded row claims the whole of a day only with that day's first reading.
DayIsCountedWhole ==
  \A row \in {dyAnchor, dyStore} :
    row.full /\ row.day = dyFirst.day => row.anchor = dyFirst.reading

\* The energy of a day is counted from the first reading taken that day, or not
\* reported: no start in the middle of a day, failed request at midnight, lost write
\* or restart makes a later reading the anchor of the whole day.  And once the anchor
\* of the current day is stored, that day's cycles, writes and restarts leave it ("a
\* cold-start refresh cannot erase the stored same-day anchors").
DailyAnchorStands ==
  [][/\ DayIsCountedWhole'
     /\ dyStore.full /\ dyStore.day = dyToday /\ dyStore.day = dyFirst'.day
          => dyStore' = dyStore]_dyVars
===============================================================================
