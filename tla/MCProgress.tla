------------------------------- MODULE MCProgress -------------------------------
(* Progress of the components of MCTransports and MCAccount, on smaller instances.  *)
(* A behaviour is again one component's, so each property states the component's    *)
(* fairness as its premise; the listener's behaviours are those for which it        *)
(* promises progress.                                                               *)
EXTENDS ApiSession, EntryShutdown, LocalMqttListener, BleSession, DayBackfill

CONSTANTS r1, t1, t2, t3, t4, t5, c1, c2, u1, u2, u3, s1, s2, k1, off, onA, g1, w1, x1, x2
MCRequests     == {r1}
MCTokens       == {t1, t2, t3, t4, t5}
MCCoordinators == {c1, c2}
MCTasks        == {u1, u2, u3}
MCOwners       == {c1}
MCStarters     == {s1, s2}
MCClients      == {k1}
MCSettings     == {off, onA}
MCSessions     == {g1}
MCWriters      == {w1}
MCDays         == {x1}
MCPeriods      == {x2}

VARIABLE part

\* The reconnect policy, with the names it has there.
CONSTANTS Commands, Cred, NoCred, Throttle, AuthPause, BackoffSteps, d1
VARIABLES client, fingerprint, lastError, rejected, born, lost, mgr, api, saved,
          cycle, task, sleep, sinceLoop, refused
rcVars == <<client, fingerprint, lastError, rejected, born, lost, mgr, api, saved,
            cycle, task, sleep, sinceLoop, refused>>
Reconnect == INSTANCE MqttReconnect

MCCred         == {d1}
MCBackoffSteps == {1, 3}

\* The cloud session, with the names it has there but for three.
CONSTANTS Creds, Publishers, NumTopics, MaxGen, e1
VARIABLES stopping, generation, csFingerprint, connected, event, sessionState, attempted,
          csLastError, csClient, subscribed, birthGeneration, runnerTask, protocolWait, call,
          phase, acks, cancelled, lifecycle, pub, quiesced, sessions, recovered
csVars == <<stopping, generation, csFingerprint, connected, event, sessionState, attempted,
            csLastError, csClient, subscribed, birthGeneration, runnerTask, protocolWait, call,
            phase, acks, cancelled, lifecycle, pub, quiesced, sessions, recovered>>
Cloud == INSTANCE CloudMqttSession
           WITH fingerprint <- csFingerprint, lastError <- csLastError, client <- csClient

MCPublishers == {e1}

\* The backfill with a period behind a day, and one queue of days or of periods that is
\* longer than the budget.
DayQueue    == INSTANCE DayBackfill WITH DayBuckets <- {x1, x2}, PeriodBuckets <- {},
                                         StartupBudget <- 1, CycleBudget <- 1
PeriodQueue == INSTANCE DayBackfill WITH DayBuckets <- {}, PeriodBuckets <- {x1, x2},
                                         StartupBudget <- 1, CycleBudget <- 1

\* Left by earlier coordinators: x2 failed more often, x1 was the last to fail.
MCAttempted == [order |-> <<x2, x1>>, tries |-> [NoAttempts.tries EXCEPT ![x2] = AttemptLimit]]

ProgressInit ==
  /\ part \in {"api", "entry", "listener", "ble", "backfill", "days", "periods", "reconnect", "cloud"}
  /\ ApiInit /\ EntryInit /\ LmInit /\ BleInit /\ Reconnect!Init /\ Cloud!Init
  /\ BfInit \/ (part = "periods" /\ BfInitWith([d \in BfIds |-> MCAttempted]))
  /\ part # "listener" => lmWanted = off
  /\ part # "entry" => hassRunning
  /\ part # "reconnect" => client = "down" /\ saved = NoCred

ProgressNext ==
  /\ \/ part = "api"      /\ ApiNext    /\ UNCHANGED <<csVars, rcVars, entryVars, lmVars, bleVars, bfVars>>
     \/ part = "entry"    /\ EntryNext  /\ UNCHANGED <<csVars, rcVars, apiVars, lmVars, bleVars, bfVars>>
     \/ part = "listener" /\ LmCalmNext /\ UNCHANGED <<csVars, rcVars, apiVars, entryVars, bleVars, bfVars>>
     \/ part = "ble"      /\ BleNext    /\ UNCHANGED <<csVars, rcVars, apiVars, entryVars, lmVars, bfVars>>
     \/ /\ \/ part = "backfill" /\ BfCalmNext
           \/ part = "days"     /\ DayQueue!BfCalmNext
           \/ part = "periods"  /\ PeriodQueue!BfCalmNext
        /\ UNCHANGED <<csVars, rcVars, apiVars, entryVars, lmVars, bleVars>>
     \/ part = "reconnect" /\ Reconnect!Next
        /\ UNCHANGED <<csVars, apiVars, entryVars, lmVars, bleVars, bfVars>>
     \/ part = "cloud" /\ (Cloud!Next \/ UNCHANGED csVars)  \* MaxGen may end its behaviours
        /\ UNCHANGED <<rcVars, apiVars, entryVars, lmVars, bleVars, bfVars>>
  /\ UNCHANGED part

ProgressSpec ==
  ProgressInit
  /\ [][ProgressNext]_<<part, apiVars, entryVars, lmVars, bleVars, bfVars, rcVars, csVars>>

\* The client comes to hold the cloud's session again and again.
SessionProgress == part = "api" /\ ApiFairness => SessionRecovers

\* A setup that is retried is not kept out by an earlier coordinator.
SetupProgress == part = "entry" /\ EntryFairness => SetupProceeds

\* The local listener becomes the one the options ask for.
ListenerProgress == part = "listener" /\ LmFairness => ListenerConverges

\* A BLE link that is dead or fenced is given up.
LinkProgress == part = "ble" /\ BleFairness => DeadLinkReleased

\* A bucket of the backfill gets its turn: in a queue of days or of periods that is
\* longer than the budget, and a period after the days.
BackfillProgress ==
  /\ part = "backfill" /\ BfFairness => BucketIsTried
  /\ part = "days" /\ DayQueue!BfFairness => DayQueue!BucketIsTried
  /\ part = "periods" /\ PeriodQueue!BfFairness => PeriodQueue!BucketIsTried

\* A lost cloud session is started again.
ReconnectProgress == part = "reconnect" /\ Reconnect!Fairness => Reconnect!DownIsRestarted

\* A runner that was replaced leaves the broker.
RunnerProgress == part = "cloud" /\ Cloud!Fairness => Cloud!StaleRunnerEnds

\* A lost cloud session reaches the coordinator.
LossProgress == part = "cloud" /\ Cloud!Fairness => Cloud!LostSessionRecovers
=================================================================================
