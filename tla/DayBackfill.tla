----------------------------- MODULE DayBackfill -----------------------------
(***************************************************************************)
(* The queue that fills the Recorder's history from the cloud               *)
(* (coordinator.py, "statistics backfill"): for each device the closed days *)
(* and then the closed weeks, months and years are fetched, the ones tried  *)
(* least or longest ago first, within a budget of requests and of time; the *)
(* rows are handed to the Recorder, which commits them later, and the state *)
(* of each bucket is kept in a store that survives a restart.               *)
(***************************************************************************)
EXTENDS Naturals, Integers, Sequences, FiniteSets, Queues

CONSTANTS
  BfDevices,       \* the devices are 1..BfDevices, in the order of their ids
  DayBuckets,      \* (source, day) pairs of a device
  PeriodBuckets,   \* (source, type, period) triples
  StartupBudget,   \* _STATISTICS_HTTP_STARTUP_CYCLE_REQUEST_BUDGET
  CycleBudget,     \* _STATISTICS_HTTP_CYCLE_REQUEST_BUDGET
  AttemptLimit     \* bound on how far the counts of attempts are told apart

ASSUME BackfillAssumption ==
  /\ BfDevices \in Nat /\ StartupBudget \in Nat /\ CycleBudget \in Nat /\ AttemptLimit \in Nat
  /\ DayBuckets \cap PeriodBuckets = {}
  /\ IsFiniteSet(DayBuckets) /\ IsFiniteSet(PeriodBuckets)

VARIABLES
  bfStatus,     \* each device's and bucket's status
  bfAttempts,   \* each device's last_attempt_at and attempts of its buckets
  bfSaved,      \* what _statistics_backfill_store holds
  bfRecorder,   \* the buckets whose rows it has, or has queued, or lost in a crash
  bfStartup,    \* _statistics_startup_sync_pending
  bfVisited,    \* _statistics_startup_fetched
  bfJob         \* _async_statistics_backfill_job

bfVars == <<bfStatus, bfAttempts, bfSaved, bfRecorder, bfStartup, bfVisited, bfJob>>

BfIds == 1..BfDevices
Buckets == DayBuckets \cup PeriodBuckets
\* "checked": empty or unmapped, found so today; of an earlier day it is "pending".
Statuses == {"pending", "imported", "checked"}
NoJob == [at |-> "idle", d |-> 1, todo |-> {}, writing |-> {}, left |-> 0, actionable |-> 0,
          all |-> TRUE, late |-> FALSE, stopped |-> FALSE]
Jobs == [at : {"idle", "device", "day", "between", "period", "import", "end"},
         d : 1 .. BfDevices + 1,
         todo : SUBSET Buckets, writing : SUBSET Buckets,   \* candidates; the one being imported
         left : Int,                                        \* requests: remaining
         actionable : Nat,
         all : BOOLEAN,                                     \* all_devices_checked
         late : BOOLEAN, stopped : BOOLEAN]

\* The buckets that were tried, the one longest ago first, and how many times more
\* than the period tried least; a day is only known to have been tried.
AttemptsOfDevice == [order : Seq(Buckets), tries : [Buckets -> Nat]]
NoAttempts == [order |-> <<>>, tries |-> [b \in Buckets |-> 0]]

BfTypeOK ==
  /\ bfStatus \in [BfIds -> [Buckets -> Statuses]]
  /\ bfAttempts \in [BfIds -> AttemptsOfDevice]
  /\ bfSaved \in [status : [BfIds -> [Buckets -> Statuses]], attempts : [BfIds -> AttemptsOfDevice]]
  /\ \A d \in BfIds : IsInjective(bfAttempts[d].order) /\ IsInjective(bfSaved.attempts[d].order)
  /\ LET Rows == SUBSET (BfIds \X Buckets)
     IN  bfRecorder \in [rows : Rows, queued : Rows, lost : Rows]
  /\ bfStartup \in BOOLEAN /\ bfVisited \subseteq BfIds \X Buckets
  /\ bfJob \in Jobs

\* The first coordinator of a store that holds these attempts.
BfInitWith(attempts) ==
  /\ bfStatus = [d \in BfIds |-> [b \in Buckets |-> "pending"]]
  /\ bfAttempts = attempts
  /\ bfSaved = [status |-> bfStatus, attempts |-> bfAttempts]
  /\ bfRecorder = [rows |-> {}, queued |-> {}, lost |-> {}]
  /\ bfStartup = TRUE /\ bfVisited = {}
  /\ bfJob = NoJob

BfInit == BfInitWith([d \in BfIds |-> NoAttempts])

-------------------------------------------------------------------------------
(* Choosing what to fetch.                                                   *)

\* _http_day_backfill_candidate and the loop of the period queue: a start reads
\* every closed period again, and each bucket once.
IsCandidate(d, b) ==
  IF bfStartup
    THEN /\ <<d, b>> \notin bfVisited
         /\ b \in DayBuckets => bfStatus[d][b] \notin {"imported", "checked"}
    ELSE bfStatus[d][b] \notin {"imported", "checked"}

Candidates(d, queue) == {b \in queue : IsCandidate(d, b)}

\* last_attempt_at: "" for a bucket that was never tried.
Earlier(d, b, c) ==
  LET order == bfAttempts[d].order
  IN  \E j \in DOMAIN order : order[j] = c /\ \A i \in DOMAIN order : order[i] = b => i < j

Before_MostTried(d, b, c) ==
  LET tries == bfAttempts[d].tries
  IN  tries[b] > tries[c] \/ (tries[b] = tries[c] /\ Earlier(d, b, c))

\* The order of both sorts: by the attempts (of a day, whether there was one), then by
\* the last of them.
Before(d, b, c) ==
  LET tries == bfAttempts[d].tries
  IN  tries[b] < tries[c] \/ (tries[b] = tries[c] /\ Earlier(d, b, c))

\* max(1, remaining // 2) for the days, all that remains for the periods.
QueueBudget(queue) ==
  IF queue = DayBuckets THEN (IF bfJob.left \div 2 > 1 THEN bfJob.left \div 2 ELSE 1)
                        ELSE bfJob.left

\* All candidates become pending; those the budget has room for are the queue.
Collect(d, queue, stage) ==
  LET found == Candidates(d, queue)
  IN  /\ bfStatus' = [bfStatus EXCEPT ![d] =
                        [b \in Buckets |-> IF b \in found THEN "pending" ELSE @[b]]]
      /\ \E todo \in SUBSET found :
           /\ Cardinality(todo) = IF Cardinality(found) < QueueBudget(queue)
                                    THEN Cardinality(found) ELSE QueueBudget(queue)
           /\ \A b \in todo, c \in found \ todo : ~Before(d, c, b)
           /\ bfJob' = [bfJob EXCEPT !.at = stage, !.todo = todo,
                                     !.actionable = @ + Cardinality(found)]

-------------------------------------------------------------------------------
(* _async_advance_statistics_backfill.                                       *)

\* Not while one runs and not while the cloud's rate limit lasts.
JobStarts ==
  /\ bfJob.at = "idle"
  /\ bfJob' = [NoJob EXCEPT !.at = "device",
                            !.left = IF bfStartup THEN StartupBudget ELSE CycleBudget]
  /\ UNCHANGED <<bfStatus, bfAttempts, bfSaved, bfRecorder, bfStartup, bfVisited>>

OutOfBudget == bfJob.left <= 0 \/ bfJob.late

\* The time budget runs out.
JobLate ==
  /\ bfJob.at # "idle" /\ ~bfJob.late
  /\ bfJob' = [bfJob EXCEPT !.late = TRUE]
  /\ UNCHANGED <<bfStatus, bfAttempts, bfSaved, bfRecorder, bfStartup, bfVisited>>

DaysCollected ==
  /\ bfJob.at = "device" /\ bfJob.d \in BfIds /\ ~OutOfBudget
  /\ Collect(bfJob.d, DayBuckets, "day")
  /\ UNCHANGED <<bfAttempts, bfSaved, bfRecorder, bfStartup, bfVisited>>

PeriodsCollected ==
  /\ bfJob.at = "between" /\ ~OutOfBudget
  /\ Collect(bfJob.d, PeriodBuckets, "period")
  /\ UNCHANGED <<bfAttempts, bfSaved, bfRecorder, bfStartup, bfVisited>>

JobBreaksOff_Complete ==
  /\ bfJob.at \in {"device", "between"} /\ bfJob.d \in BfIds /\ OutOfBudget
  /\ bfJob' = [bfJob EXCEPT !.at = "end"]
  /\ UNCHANGED <<bfStatus, bfAttempts, bfSaved, bfRecorder, bfStartup, bfVisited>>

JobBreaksOff ==
  /\ bfJob.at \in {"device", "between"} /\ bfJob.d \in BfIds /\ OutOfBudget
  /\ bfJob' = [bfJob EXCEPT !.at = "end", !.all = FALSE]
  /\ UNCHANGED <<bfStatus, bfAttempts, bfSaved, bfRecorder, bfStartup, bfVisited>>

DevicesDone ==
  /\ bfJob.at = "device" /\ bfJob.d = BfDevices + 1
  /\ bfJob' = [bfJob EXCEPT !.at = "end"]
  /\ UNCHANGED <<bfStatus, bfAttempts, bfSaved, bfRecorder, bfStartup, bfVisited>>

\* The next of the queue; more than one if none of them was ever attempted.
Due == {b \in bfJob.todo : \A c \in bfJob.todo : ~Before(bfJob.d, c, b)}

\* Counted on from the period tried least, since only the differences matter, and as
\* far as AttemptLimit: the code's counts go on.
WithAttempt(tries, b) ==
  LET more  == [tries EXCEPT ![b] = IF b \in DayBuckets THEN 1
                                    ELSE IF @ < AttemptLimit THEN @ + 1 ELSE @]
      level == IF b \in PeriodBuckets /\ \A p \in PeriodBuckets : more[p] > 0
                 THEN PeriodBuckets ELSE {}
  IN  [c \in Buckets |-> IF c \in level THEN more[c] - 1 ELSE more[c]]

\* The time of the attempt and, for a period, its number.
Attempt(d, b) ==
  bfAttempts' = [bfAttempts EXCEPT ![d] = [order |-> Append(Left(@.order, b), b),
                                           tries |-> WithAttempt(@.tries, b)]]

Fetching(b) == bfJob.at \in {"day", "period"} /\ b \in Due /\ ~bfJob.late

\* A day without a curve asks for the month chart as well, unless this queue has it.
Requested(requests) == requests = 1 \/ bfJob.at = "day"

\* The fetch fails, or the Recorder while a period is imported or a statistic has no
\* hour yet: the bucket stays pending.
BucketFails(b, requests) ==
  /\ Fetching(b) /\ Requested(requests)
  /\ Attempt(bfJob.d, b)
  /\ bfJob' = [bfJob EXCEPT !.todo = @ \ {b}, !.left = @ - requests]
  /\ UNCHANGED <<bfStatus, bfSaved, bfRecorder, bfStartup, bfVisited>>

\* A rate limit or a rejected token: nothing more is asked in this cycle.
BucketStopsJob(b) ==
  /\ Fetching(b)
  /\ Attempt(bfJob.d, b)
  /\ bfJob' = [bfJob EXCEPT !.todo = {}, !.left = @ - 1, !.stopped = TRUE]
  /\ UNCHANGED <<bfStatus, bfSaved, bfRecorder, bfStartup, bfVisited>>

\* The Recorder fails while a day is imported: the job is over, and nothing is saved.
BucketRaises(b) ==
  /\ Fetching(b) /\ b \in DayBuckets
  /\ Attempt(bfJob.d, b)
  /\ bfJob' = NoJob
  /\ UNCHANGED <<bfStatus, bfSaved, bfRecorder, bfStartup, bfVisited>>

Visit(d, b, status) ==
  /\ bfStatus' = [bfStatus EXCEPT ![d][b] = status]
  /\ bfVisited' = bfVisited \cup {<<d, b>>}

\* The cloud has no value, even in the month chart.
BucketEmpty(b, requests) ==
  /\ Fetching(b) /\ Requested(requests)
  /\ Attempt(bfJob.d, b)
  /\ Visit(bfJob.d, b, "checked")
  /\ bfJob' = [bfJob EXCEPT !.todo = @ \ {b}, !.left = @ - requests, !.actionable = @ - 1]
  /\ UNCHANGED <<bfSaved, bfRecorder, bfStartup>>

BucketQueued_NoBarrier(b, requests) ==
  /\ Fetching(b) /\ Requested(requests)
  /\ Attempt(bfJob.d, b)
  /\ bfRecorder' = [bfRecorder EXCEPT !.queued = @ \cup {<<bfJob.d, b>>},
                                      !.lost = @ \ {<<bfJob.d, b>>}]
  /\ bfJob' = [bfJob EXCEPT !.at = "import", !.todo = @ \ {b}, !.writing = {b},
                            !.left = @ - requests]
  /\ UNCHANGED <<bfStatus, bfSaved, bfStartup, bfVisited>>

\* _async_reconcile_statistic_day, for each statistic of the bucket: what was queued
\* before is committed (async_block_till_done), then the rows are queued in turn; the
\* bucket is marked without waiting for them.
BucketQueued(b, requests) ==
  /\ Fetching(b) /\ Requested(requests)
  /\ bfRecorder.queued = {}
  /\ Attempt(bfJob.d, b)
  /\ bfRecorder' = [bfRecorder EXCEPT !.queued = {<<bfJob.d, b>>},
                                      !.lost = @ \ {<<bfJob.d, b>>}]
  /\ bfJob' = [bfJob EXCEPT !.at = "import", !.todo = @ \ {b}, !.writing = {b},
                            !.left = @ - requests]
  /\ UNCHANGED <<bfStatus, bfSaved, bfStartup, bfVisited>>

BucketImported ==
  /\ bfJob.at = "import"
  /\ \E b \in bfJob.writing :
       /\ Visit(bfJob.d, b, "imported")
       /\ bfJob' = [bfJob EXCEPT !.at = IF b \in DayBuckets THEN "day" ELSE "period",
                                 !.writing = {}, !.actionable = @ - 1]
  /\ UNCHANGED <<bfAttempts, bfSaved, bfRecorder, bfStartup>>

Save(status, attempts) == bfSaved' = [status |-> status, attempts |-> attempts]

\* The queue's buckets are through, or the rest waits: the state is saved.
\* A period queue that ran out of time ends the cycle, a day queue does not.
QueueSaved ==
  /\ bfJob.at \in {"day", "period"}
  /\ bfJob.todo = {} \/ bfJob.late
  /\ Save(bfStatus, bfAttempts)
  /\ bfJob' = IF bfJob.stopped \/ (bfJob.at = "period" /\ bfJob.todo # {})
                THEN NoJob
                ELSE IF bfJob.at = "day"
                  THEN [bfJob EXCEPT !.at = "between", !.todo = {}]
                  ELSE [bfJob EXCEPT !.at = "device", !.d = @ + 1]
  /\ UNCHANGED <<bfStatus, bfAttempts, bfRecorder, bfStartup, bfVisited>>

JobEnds ==
  /\ bfJob.at = "end"
  /\ bfStartup' = (bfStartup /\ ~(bfJob.actionable = 0 /\ bfJob.all))
  /\ bfJob' = NoJob
  /\ UNCHANGED <<bfStatus, bfAttempts, bfSaved, bfRecorder, bfVisited>>

\* The entry is unloaded: the task is cancelled and saves what it has.
JobCancelled ==
  /\ bfJob.at # "idle"
  /\ Save(bfStatus, bfAttempts)
  /\ bfJob' = NoJob
  /\ UNCHANGED <<bfStatus, bfAttempts, bfRecorder, bfStartup, bfVisited>>

\* The Recorder's thread.
RecorderCommits ==
  /\ bfRecorder.queued # {}
  /\ bfRecorder' = [bfRecorder EXCEPT !.rows = @ \cup bfRecorder.queued, !.queued = {}]
  /\ UNCHANGED <<bfStatus, bfAttempts, bfSaved, bfStartup, bfVisited, bfJob>>

\* A new coordinator: the startup pass begins again, once in every coordinator's life
\* (and not "once per install", coordinator.py:4252).
NewCoordinator ==
  /\ bfStatus' = bfSaved.status /\ bfAttempts' = bfSaved.attempts
  /\ bfStartup' = TRUE /\ bfVisited' = {} /\ bfJob' = NoJob
  /\ UNCHANGED bfSaved

\* The entry is reloaded: the Recorder keeps its queue.
Reload ==
  /\ bfJob.at = "idle"
  /\ NewCoordinator
  /\ UNCHANGED bfRecorder

\* Home Assistant dies: what the Recorder had only queued is gone.
Crash ==
  /\ NewCoordinator
  /\ bfRecorder' = [bfRecorder EXCEPT !.queued = {},
                      !.lost = @ \cup (bfRecorder.queued \ bfRecorder.rows)]

\* Midnight; while a cycle runs it keeps the day it began with.
NewDay ==
  LET Aged(status) == [d \in BfIds |-> [b \in Buckets |->
                         IF status[d][b] = "checked" THEN "pending" ELSE status[d][b]]]
  IN  /\ bfJob.at = "idle"
      /\ bfStatus' = Aged(bfStatus) /\ bfSaved' = [bfSaved EXCEPT !.status = Aged(@)]
      /\ UNCHANGED <<bfAttempts, bfRecorder, bfStartup, bfVisited, bfJob>>

BucketAnswered ==
  \E b \in Buckets, requests \in 1..2 :
    BucketFails(b, requests) \/ BucketQueued(b, requests) \/ BucketEmpty(b, requests)

BucketStep == BucketAnswered \/ \E b \in Buckets : BucketStopsJob(b) \/ BucketRaises(b)

JobStep ==
  \/ DaysCollected \/ PeriodsCollected \/ JobBreaksOff \/ DevicesDone
  \/ BucketImported \/ QueueSaved \/ JobEnds

\* Within a day and a coordinator's life; many cycles fit into both.
BfCalmNext ==
  \/ JobStarts \/ JobStep \/ BucketStep
  \/ JobLate \/ JobCancelled \/ RecorderCommits

BfNext == BfCalmNext \/ NewDay \/ Reload \/ Crash

BfSpec == BfInit /\ [][BfNext]_bfVars

(***************************************************************************)
(* The poll cycle starts the job again, the Recorder commits, and a job is  *)
(* not always cancelled, out of time, stopped by the cloud's rate limit or  *)
(* ended by the Recorder's error before its next step; whether a request    *)
(* succeeds is open.                                                        *)
(***************************************************************************)
BfFairness ==
  /\ WF_bfVars(JobStarts) /\ WF_bfVars(JobStep) /\ WF_bfVars(RecorderCommits)
  /\ SF_bfVars(DaysCollected) /\ SF_bfVars(PeriodsCollected) /\ SF_bfVars(BucketImported)
  /\ \A stage \in {"day", "period"} : SF_bfVars(bfJob.at = stage /\ BucketAnswered)
  /\ SF_bfVars(QueueSaved /\ ~bfJob.late /\ ~bfJob.stopped)

-------------------------------------------------------------------------------
(* Properties.                                                               *)

\* What is kept as imported, in memory or in the store, is in the Recorder, or it is the
\* one bucket whose rows the Recorder still has to commit, or a crash took just those
\* rows: cancellations and crashes at any step repeat imports and skip none, and each
\* crash costs one bucket at most.  A period that lost its rows so is not taken for
\* imported when the next startup pass is over; a day is never read again.
ImportedIsRecorded ==
  LET Imported(d, b) == "imported" \in {bfStatus[d][b], bfSaved.status[d][b]}
      waiting == {x \in BfIds \X Buckets : Imported(x[1], x[2])}
                   \ (bfRecorder.rows \cup bfRecorder.lost)
  IN  /\ waiting \subseteq bfRecorder.queued /\ Cardinality(waiting) <= 1
      /\ ~bfStartup => \A x \in bfRecorder.lost :
                         x[2] \in PeriodBuckets => bfStatus[x[1]][x[2]] # "imported"

\* The startup pass with its wide budget ends only when every bucket of every
\* device has been read or is known to be done, whatever the budgets, the time
\* limit, the rate limit and the failures cut off in the cycles before.
StartupIsComplete ==
  [][ bfStartup /\ ~bfStartup' =>
        \A d \in BfIds, b \in Buckets :
          <<d, b>> \in bfVisited \/ (b \in DayBuckets /\ bfStatus[d][b] \in {"imported", "checked"})
    ]_bfVars

\* A bucket whose fetch fails for ever does not keep another one of its queue, nor the
\* day queue the period queue, from being tried: the queues turn, and a period tried
\* more often than the others in earlier lives waits no longer than they need to catch
\* up.  So for one device and a budget that the day queue cannot use up; an earlier
\* device, or days that all ask twice out of an even budget, do keep what follows them
\* waiting.
BucketIsTried ==
  \A d \in BfIds, b \in Buckets :
    bfStatus[d][b] = "pending" ~>
      (bfStatus[d][b] # "pending"
         \/ (bfAttempts[d].order # <<>> /\ Last(bfAttempts[d].order) = b))
=============================================================================
