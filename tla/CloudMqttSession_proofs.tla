----------------------- MODULE CloudMqttSession_proofs -----------------------
(***************************************************************************)
(* Theorems about CloudMqttSession, for every set of credentials and of    *)
(* publishers, every number of topics and every bound on the generations.  *)
(***************************************************************************)
EXTENDS CloudMqttSession, TLAPS

-----------------------------------------------------------------------------
(* Type correctness.  StartGeneration counts the generation up a second     *)
(* time: what Start checked must still hold when it gets there.             *)

StartHasRoom ==
    call.op = "start" /\ call.at \in {"tasks", "drain"} => generation + 1 <= MaxGen
AcksBelowTopics == \A g \in Gen : phase[g] = "subscribing" => acks[g] < NumTopics
NotBegun ==
    \A g \in Gen : phase[g] \in {"none", "created", "connecting"} => acks[g] = 0
FirstGeneration == call.at = "ssl" => generation # NoGen

\* Runners exist for the generations opened so far; the one whose TLS context
\* is being built has none yet.
FreshGenerations ==
    \A g \in Gen : phase[g] # "none" =>
        g <= generation /\ (call.at = "ssl" => g # generation)

TypeInv ==
    /\ TypeOK
    /\ StartHasRoom /\ FirstGeneration
    /\ AcksBelowTopics /\ NotBegun /\ FreshGenerations

LEMMA ScheduleType ==
    ASSUME TypeOK, NEW kind \in {"birth", "recover"}, NEW g \in Gen, Schedule(kind, g)
    PROVE  lifecycle' \subseteq LifecycleTask
<1>1. [id |-> [kind |-> kind, gen |-> g], running |-> FALSE, cancel |-> FALSE] \in LifecycleTask
  BY DEF LifecycleTask, LifecycleId
<1> QED BY <1>1 DEF TypeOK, Schedule

LEMMA SetEventType ==
    ASSUME TypeOK, SetEvent
    PROVE  /\ event' \in BOOLEAN
           /\ pub' \in [Publishers -> [at : {"idle", "waiting", "woken", "sending"},
                                       gen : GenOrNone, owner : GenOrNone]]
BY DEF TypeOK, SetEvent

LEMMA TypeInit == Init => TypeInv
<1> SUFFICES ASSUME Init PROVE TypeInv
  OBVIOUS
<1> USE SessionAssumption
<1>1. NoGen \in GenOrNone
  BY DEF NoGen, GenOrNone
<1>2. call \in [op : {"none", "start", "stop"}, at : {"none", "tasks", "drain", "ssl"},
               cred : Creds \cup {NoCred}, runner : GenOrNone, tasks : SUBSET LifecycleId]
  BY <1>1 DEF Init, Idle
<1>3. pub \in [Publishers -> [at : {"idle", "waiting", "woken", "sending"},
                             gen : GenOrNone, owner : GenOrNone]]
  BY <1>1 DEF Init, PubIdle
<1>4. phase \in [Gen -> Phases] /\ acks \in [Gen -> 0..NumTopics] /\ cancelled \in [Gen -> BOOLEAN]
  BY DEF Init, Phases
<1>5. TypeOK
  BY <1>1, <1>2, <1>3, <1>4 DEF Init, TypeOK, States, Errors, NoGen
<1>6. StartHasRoom /\ AcksBelowTopics /\ NotBegun /\ FirstGeneration /\ FreshGenerations
  BY DEF Init, Idle, StartHasRoom, AcksBelowTopics, NotBegun, FirstGeneration, FreshGenerations
<1> QED BY <1>5, <1>6 DEF TypeInv

LEMMA StopLockedType ==
    ASSUME TypeInv, NEW op \in {"start", "stop"}, NEW cred \in Creds \cup {NoCred},
           generation + 1 <= MaxGen, op = "start" => generation + 2 <= MaxGen,
           StopLocked(op, cred)
    PROVE  TypeInv'
<1> USE SessionAssumption DEF TypeInv
<1>1. TypeOK'
  <2>1. /\ event' \in BOOLEAN
        /\ pub' \in [Publishers -> [at : {"idle", "waiting", "woken", "sending"},
                                       gen : GenOrNone, owner : GenOrNone]]
    BY SetEventType DEF StopLocked, WakeWaiters
  <2>2. cancelled' \in [Gen -> BOOLEAN]
    BY DEF StopLocked
  <2>3. lifecycle' \subseteq LifecycleTask
    <3>1. \A t \in LifecycleTask : [t EXCEPT !.cancel = TRUE] \in LifecycleTask
      BY DEF LifecycleTask
    <3> QED BY <3>1 DEF StopLocked, TypeOK
  <2>4. call' \in [op : {"none", "start", "stop"}, at : {"none", "tasks", "drain", "ssl"},
                 cred : Creds \cup {NoCred}, runner : GenOrNone, tasks : SUBSET LifecycleId]
    <3>1. {t.id : t \in lifecycle} \subseteq LifecycleId
      BY DEF TypeOK, LifecycleTask
    <3>2. /\ runnerTask \in GenOrNone
          /\ call' = [op |-> op, at |-> "tasks", cred |-> cred,
                      runner |-> runnerTask, tasks |-> {t.id : t \in lifecycle}]
      BY DEF StopLocked, TypeOK
    <3> QED BY <3>1, <3>2
  <2>5a. /\ generation' \in GenOrNone /\ client' \in GenOrNone
    BY DEF StopLocked, TypeOK, GenOrNone, NoGen
  <2>5. /\ subscribed' \subseteq Topics /\ sessionState' \in States
    BY DEF StopLocked, States
  <2>5b. /\ stopping' \in BOOLEAN /\ connected' \in BOOLEAN /\ quiesced' \in BOOLEAN
        /\ fingerprint' \in Creds \cup {NoCred}
    BY DEF StopLocked
  <2>6. /\ UNCHANGED <<lastError, attempted, birthGeneration, runnerTask, protocolWait,
                        phase, acks, sessions, recovered>>
    BY DEF StopLocked
  <2> QED BY <2>1, <2>2, <2>3, <2>4, <2>5, <2>5a, <2>5b, <2>6 DEF TypeOK
<1>2. /\ StartHasRoom' /\ AcksBelowTopics' /\ NotBegun' /\ FirstGeneration'
  BY DEF StopLocked, TypeOK, GenOrNone, StartHasRoom, AcksBelowTopics, NotBegun,
         FirstGeneration
<1>3. FreshGenerations'
  BY DEF StopLocked, TypeOK, FreshGenerations, GenOrNone, Gen
<1> QED BY <1>1, <1>2, <1>3

\* Moving the call that holds the lock to its next await, or ending it.
LEMMA CallType ==
    ASSUME TypeOK
    PROVE  /\ \A at \in {"none", "tasks", "drain", "ssl"} :
                [call EXCEPT !.at = at] \in
                   [op : {"none", "start", "stop"}, at : {"none", "tasks", "drain", "ssl"},
                    cred : Creds \cup {NoCred}, runner : GenOrNone, tasks : SUBSET LifecycleId]
           /\ Idle \in
                   [op : {"none", "start", "stop"}, at : {"none", "tasks", "drain", "ssl"},
                    cred : Creds \cup {NoCred}, runner : GenOrNone, tasks : SUBSET LifecycleId]
<1>1. NoGen \in GenOrNone
  BY SessionAssumption DEF NoGen, GenOrNone
<1> QED BY <1>1 DEF TypeOK, Idle

LEMMA CallStepType ==
    ASSUME TypeInv, CallStep \/ CallAborts
    PROVE  TypeInv'
<1> USE SessionAssumption DEF TypeInv
<1>0. NoGen \in GenOrNone
  BY DEF NoGen, GenOrNone
<1>1. CASE StopTasksDone
  <2>1. runnerTask' \in GenOrNone
    BY <1>0, <1>1 DEF StopTasksDone, TypeOK
  <2>2. TypeOK'
    BY <1>1, <2>1, CallType DEF StopTasksDone, TypeOK, evidence, tasks, history
  <2>3. StartHasRoom' /\ FirstGeneration'
    BY <1>1 DEF StopTasksDone, StartHasRoom, FirstGeneration, TypeOK
  <2> QED BY <1>1, <2>2, <2>3 DEF StopTasksDone, AcksBelowTopics, NotBegun, FreshGenerations,
        tasks, ownership, TypeOK, Idle
<1>2. CASE StopTimesOut
  <2>1. runnerTask' \in GenOrNone
    BY <1>0, <1>2 DEF StopTimesOut, TypeOK
  <2>2. TypeOK'
    BY <1>2, <2>1, CallType DEF StopTimesOut, TypeOK, evidence, tasks, history
  <2>3. StartHasRoom' /\ FirstGeneration'
    BY <1>2 DEF StopTimesOut, StartHasRoom, FirstGeneration, Idle
  <2> QED BY <1>2, <2>2, <2>3 DEF StopTimesOut, AcksBelowTopics, NotBegun, FreshGenerations,
        tasks, ownership, TypeOK, Idle
<1>3. CASE StopReturns
  <2>1. TypeOK'
    BY <1>3, CallType DEF StopReturns, TypeOK, ownership, evidence, tasks
  <2>2. StartHasRoom' /\ FirstGeneration'
    BY <1>3 DEF StopReturns, StartHasRoom, FirstGeneration, Idle
  <2> QED BY <1>3, <2>1, <2>2 DEF StopReturns, AcksBelowTopics, NotBegun, FreshGenerations,
        tasks, ownership, TypeOK, Idle
<1>4. CASE StartGeneration
  <2>1. generation' \in GenOrNone /\ generation' # NoGen
    BY <1>4 DEF StartGeneration, TypeOK, StartHasRoom, GenOrNone, NoGen
  <2>2. subscribed' \subseteq Topics /\ sessionState' \in States /\ lastError' \in Errors
    BY <1>4 DEF StartGeneration, States, Errors
  <2>3. stopping' \in BOOLEAN /\ connected' \in BOOLEAN /\ event' \in BOOLEAN
    BY <1>4 DEF StartGeneration, ClearEvent
  <2>6. call' \in [op : {"none", "start", "stop"}, at : {"none", "tasks", "drain", "ssl"},
                  cred : Creds \cup {NoCred}, runner : GenOrNone, tasks : SUBSET LifecycleId]
    BY <1>4, CallType DEF StartGeneration
  <2>7. UNCHANGED <<fingerprint, runnerTask, client, attempted, birthGeneration, pub,
                    tasks, history>>
    BY <1>4 DEF StartGeneration, ClearEvent
  <2>4. TypeOK'
    BY <2>1, <2>2, <2>3, <2>6, <2>7 DEF TypeOK, tasks, history
  <2>5. StartHasRoom' /\ FirstGeneration'
    BY <1>4, <2>1 DEF StartGeneration, StartHasRoom, FirstGeneration, TypeOK
  <2>8. AcksBelowTopics' /\ NotBegun'
    BY <1>4 DEF StartGeneration, AcksBelowTopics, NotBegun, tasks
  <2>9. FreshGenerations'
    BY <1>4 DEF StartGeneration, FreshGenerations, tasks, TypeOK, GenOrNone, Gen
  <2> QED BY <2>4, <2>5, <2>8, <2>9
<1>5. CASE CreateRunner
  <2>1. generation \in Gen
    BY <1>5 DEF CreateRunner, TypeOK, FirstGeneration, GenOrNone, NoGen, Gen
  <2>2. phase' \in [Gen -> Phases]
    BY <1>5, <2>1 DEF CreateRunner, TypeOK, Phases
  <2>3. /\ attempted' \in BOOLEAN /\ fingerprint' \in Creds \cup {NoCred}
        /\ runnerTask' \in GenOrNone
    BY <1>5 DEF CreateRunner, TypeOK
  <2>4. TypeOK'
    BY <1>5, <2>2, <2>3, CallType DEF CreateRunner, TypeOK, evidence, history
  <2>5. StartHasRoom' /\ FirstGeneration'
    BY <1>5 DEF CreateRunner, StartHasRoom, FirstGeneration, Idle
  <2>6. phase[generation] = "none"
    BY <1>5, <2>1 DEF CreateRunner, FreshGenerations
  <2>7. AcksBelowTopics' /\ NotBegun'
    BY <1>5, <2>1, <2>6 DEF CreateRunner, AcksBelowTopics, NotBegun, TypeOK
  <2>8. FreshGenerations'
    BY <1>5, <2>1 DEF CreateRunner, FreshGenerations, TypeOK, Idle, Gen, GenOrNone
  <2> QED BY <2>4, <2>5, <2>7, <2>8
<1>6. CASE CallAborts
  <2>1. TypeOK'
    BY <1>6, CallType DEF CallAborts, TypeOK, ownership, evidence, tasks, history
  <2>2. StartHasRoom' /\ FirstGeneration'
    BY <1>6 DEF CallAborts, StartHasRoom, FirstGeneration, Idle
  <2> QED BY <1>6, <2>1, <2>2 DEF CallAborts, AcksBelowTopics, NotBegun, FreshGenerations,
        tasks, ownership, TypeOK, Idle
<1> QED BY <1>1, <1>2, <1>3, <1>4, <1>5, <1>6 DEF CallStep

\* What a step that moves one runner, and not the call, has to show beside TypeOK.
LEMMA PhaseStepType ==
    ASSUME TypeInv, NEW g \in Gen, phase[g] # "none", TypeOK',
           UNCHANGED <<call, generation>>,
           \A h \in Gen : h # g => phase'[h] = phase[h] /\ acks'[h] = acks[h],
           phase'[g] = "subscribing" => acks'[g] < NumTopics,
           phase'[g] \in {"none", "created", "connecting"} => acks'[g] = 0
    PROVE  TypeInv'
<1>1. StartHasRoom' /\ FirstGeneration'
  BY DEF TypeInv, StartHasRoom, FirstGeneration
<1>2. AcksBelowTopics'
  BY DEF TypeInv, AcksBelowTopics
<1>3. NotBegun'
  BY DEF TypeInv, NotBegun
<1>4. FreshGenerations'
  BY DEF TypeInv, FreshGenerations
<1> QED BY <1>1, <1>2, <1>3, <1>4 DEF TypeInv

LEMMA FinalizeType ==
    ASSUME TypeInv, NEW g \in Gen, phase[g] # "none",
           NEW broker \in BOOLEAN, NEW sub \in BOOLEAN, NEW err \in Errors,
           Finalize(g, broker, sub, err)
    PROVE  TypeInv'
<1>1. phase' = [phase EXCEPT ![g] = "done"] /\ UNCHANGED acks
  BY DEF Finalize
<1>2. phase' \in [Gen -> Phases]
  BY <1>1 DEF TypeInv, TypeOK, Phases
<1>3. lifecycle' \subseteq LifecycleTask
  BY ScheduleType DEF Finalize, TypeInv, TypeOK
<1>4. /\ event' \in BOOLEAN
      /\ pub' \in [Publishers -> [at : {"idle", "waiting", "woken", "sending"},
                                  gen : GenOrNone, owner : GenOrNone]]
  <2>1. CASE SetEvent
    BY <2>1, SetEventType DEF TypeInv
  <2>2. CASE ClearEvent
    BY <2>2 DEF ClearEvent, TypeInv, TypeOK
  <2>3. CASE UNCHANGED <<event, pub>>
    BY <2>3 DEF TypeInv, TypeOK
  <2> QED BY <2>1, <2>2, <2>3 DEF Finalize
<1>5. client' \in GenOrNone /\ runnerTask' \in GenOrNone
  BY SessionAssumption DEF Finalize, TypeInv, TypeOK, NoGen, GenOrNone
<1>6. lastError' \in Errors /\ sessionState' \in States
  BY DEF Finalize, TypeInv, TypeOK, States
<1>7. connected' \in BOOLEAN /\ protocolWait' \in BOOLEAN
  BY DEF Finalize, TypeInv, TypeOK
<1>8. UNCHANGED <<stopping, generation, fingerprint, subscribed, attempted, birthGeneration,
                  call, acks, cancelled, quiesced, sessions, recovered>>
  BY DEF Finalize, history
<1>9. TypeOK'
  BY <1>2, <1>3, <1>4, <1>5, <1>6, <1>7, <1>8 DEF TypeInv, TypeOK
<1> QED BY <1>1, <1>8, <1>9, PhaseStepType DEF TypeInv, TypeOK

LEMMA RunnerStepType ==
    ASSUME TypeInv, NEW g \in Gen, RunnerStep(g)
    PROVE  TypeInv'
<1> USE SessionAssumption
<1>0. lastError \in Errors /\ "connect" \in Errors /\ DisconnectError \in Errors
  BY DEF TypeInv, TypeOK, Errors, DisconnectError
<1>1. CASE RunnerBegins(g)
  <2>1. TypeOK'
    BY <1>1 DEF RunnerBegins, TypeInv, TypeOK, Phases, ownership, evidence, history
  <2> QED BY <1>1, <2>1, PhaseStepType DEF RunnerBegins, TypeInv, TypeOK, NotBegun, ownership
<1>2. CASE RunnerNeverRuns(g)
  <2>1. TypeOK'
    BY <1>2 DEF RunnerNeverRuns, TypeInv, TypeOK, Phases, ownership, evidence, history
  <2> QED BY <1>2, <2>1, PhaseStepType DEF RunnerNeverRuns, TypeInv, TypeOK, ownership
<1>3. CASE ConnectSucceeds(g)
  <2>1. phase' \in [Gen -> Phases] /\ client' \in GenOrNone /\ sessions' \subseteq Gen
    BY <1>3 DEF ConnectSucceeds, TypeInv, TypeOK, Phases, Gen, GenOrNone
  <2>2. TypeOK'
    BY <1>3, <2>1 DEF ConnectSucceeds, TypeInv, TypeOK, evidence, history
  <2>3. acks[g] = 0 /\ 0 < NumTopics
    BY <1>3 DEF ConnectSucceeds, TypeInv, NotBegun
  <2> QED BY <1>3, <2>2, <2>3, PhaseStepType DEF ConnectSucceeds, TypeInv, TypeOK
<1>4. CASE ConnectFails(g)
  BY <1>0, <1>4, FinalizeType DEF ConnectFails
<1>5. CASE SubscribeSucceeds(g)
  <2>1. acks[g] \in 0..NumTopics /\ acks[g] < NumTopics
    BY <1>5 DEF SubscribeSucceeds, TypeInv, TypeOK, AcksBelowTopics
  <2>2. acks' = [acks EXCEPT ![g] = acks[g] + 1] /\ acks' \in [Gen -> 0..NumTopics]
    BY <1>5, <2>1 DEF SubscribeSucceeds, TypeInv, TypeOK
  <2>3. subscribed' \subseteq Topics
    <3>1. acks[g] + 1 \in Topics
      BY <2>1 DEF Topics
    <3> QED BY <1>5, <3>1 DEF SubscribeSucceeds, TypeInv, TypeOK
  <2>4. phase' \in [Gen -> Phases]
    BY <1>5 DEF SubscribeSucceeds, TypeInv, TypeOK, Phases
  <2>5. lifecycle' \subseteq LifecycleTask
    BY <1>5, ScheduleType DEF SubscribeSucceeds, MarkConnected, TypeInv, TypeOK
  <2>6. /\ event' \in BOOLEAN
        /\ pub' \in [Publishers -> [at : {"idle", "waiting", "woken", "sending"},
                                  gen : GenOrNone, owner : GenOrNone]]
    BY <1>5, SetEventType DEF SubscribeSucceeds, MarkConnected, TypeInv, TypeOK
  <2>7. birthGeneration' \in GenOrNone
    BY <1>5 DEF SubscribeSucceeds, MarkConnected, TypeInv, TypeOK, Gen, GenOrNone
  <2>8. sessionState' \in States /\ lastError' \in Errors
    BY <1>5 DEF SubscribeSucceeds, MarkConnected, TypeInv, TypeOK, States, Errors
  <2>9. connected' \in BOOLEAN /\ protocolWait' \in BOOLEAN
    BY <1>5 DEF SubscribeSucceeds, MarkConnected, TypeInv, TypeOK
  <2>10. UNCHANGED <<ownership, attempted, call, cancelled, history>>
    BY <1>5 DEF SubscribeSucceeds
  <2>11. TypeOK'
    BY <2>2, <2>3, <2>4, <2>5, <2>6, <2>7, <2>8, <2>9, <2>10
       DEF TypeInv, TypeOK, ownership, history
  <2>12. /\ phase[g] = "subscribing"
         /\ \A h \in Gen : h # g => phase'[h] = phase[h] /\ acks'[h] = acks[h]
         /\ phase'[g] = "subscribing" => acks'[g] < NumTopics
         /\ phase'[g] \notin {"none", "created", "connecting"}
    BY <1>5, <2>1, <2>2 DEF SubscribeSucceeds, LastTopic, TypeInv, TypeOK
  <2> QED BY <2>10, <2>11, <2>12, PhaseStepType DEF ownership
<1>6. CASE SubscribeFails(g)
  <2>1. phase' \in [Gen -> Phases] /\ lastError' \in Errors
    BY <1>6 DEF SubscribeFails, TypeInv, TypeOK, Phases, Errors
  <2>2. TypeOK'
    BY <1>6, <2>1 DEF SubscribeFails, TypeInv, TypeOK, ownership, history
  <2> QED BY <1>6, <2>2, PhaseStepType DEF SubscribeFails, TypeInv, TypeOK, ownership
<1>7. CASE ConnectionLost(g)
  BY <1>0, <1>7, FinalizeType DEF ConnectionLost
<1>8. CASE StreamLeft(g)
  <2>1. TypeOK'
    BY <1>8 DEF StreamLeft, TypeInv, TypeOK, Phases, ownership, evidence, history
  <2> QED BY <1>8, <2>1, PhaseStepType DEF StreamLeft, TypeInv, TypeOK, ownership
<1>9. CASE ContextClosed(g)
  BY <1>0, <1>9, FinalizeType DEF ContextClosed
<1> QED BY <1>1, <1>2, <1>3, <1>4, <1>5, <1>6, <1>7, <1>8, <1>9 DEF RunnerStep

\* What a step that leaves the runners and the call alone has to show.
LEMMA OtherStepType ==
    ASSUME TypeInv, TypeOK', UNCHANGED <<call, generation, phase, acks>>
    PROVE  TypeInv'
BY DEF TypeInv, StartHasRoom, FirstGeneration, AcksBelowTopics, NotBegun, FreshGenerations

LEMMA LifecycleStepType ==
    ASSUME TypeInv, NEW t \in lifecycle, LifecycleStep(t)
    PROVE  TypeInv'
<1>0. t \in LifecycleTask /\ [t EXCEPT !.running = TRUE] \in LifecycleTask /\ t.id.gen \in Gen
  <2>1. t \in LifecycleTask
    <3>1. lifecycle \subseteq LifecycleTask
      BY DEF TypeInv, TypeOK
    <3> QED BY <3>1
  <2>2. [t EXCEPT !.running = TRUE] \in LifecycleTask
    BY <2>1 DEF LifecycleTask
  <2>3. t.id \in LifecycleId
    BY <2>1 DEF LifecycleTask
  <2> QED BY <2>1, <2>2, <2>3 DEF LifecycleId
<1>1. lifecycle' \subseteq LifecycleTask
  BY <1>0 DEF LifecycleStep, LifecycleCancelled, LifecycleBegins, BirthReturns, BirthRaises,
              TypeInv, TypeOK
<1>2. recovered' \subseteq Gen
  BY <1>0 DEF LifecycleStep, LifecycleCancelled, LifecycleBegins, BirthReturns, BirthRaises,
              TypeInv, TypeOK, history
<1>3. sessionState' \in States
  BY DEF LifecycleStep, LifecycleCancelled, LifecycleBegins, BirthReturns, BirthRaises,
         TypeInv, TypeOK, States, evidence
<1>4. UNCHANGED <<ownership, connected, event, lastError, subscribed, attempted,
                  birthGeneration, call, protocolWait, phase, acks, cancelled, pub,
                  quiesced, sessions>>
  BY DEF LifecycleStep, LifecycleCancelled, LifecycleBegins, BirthReturns, BirthRaises,
         evidence, history
<1>5. TypeOK'
  BY <1>1, <1>2, <1>3, <1>4 DEF TypeInv, TypeOK, ownership
<1> QED BY <1>4, <1>5, OtherStepType DEF ownership

LEMMA PublisherStepType ==
    ASSUME TypeInv, NEW p \in Publishers, PublisherStep(p)
    PROVE  TypeInv'
<1> DEFINE PubRecord == [at : {"idle", "waiting", "woken", "sending"},
                         gen : GenOrNone, owner : GenOrNone]
<1>0. PubIdle \in PubRecord
  BY SessionAssumption DEF PubIdle, NoGen, GenOrNone
<1>1. \A g, owner \in GenOrNone : SendOrRaise(p, g, owner) => pub' \in [Publishers -> PubRecord]
  BY <1>0 DEF SendOrRaise, TypeInv, TypeOK
<1>2. generation \in GenOrNone /\ runnerTask \in GenOrNone /\ pub[p] \in PubRecord
  BY DEF TypeInv, TypeOK
<1>3. pub' \in [Publishers -> PubRecord]
  <2>1. CASE PublishCalled(p)
    BY <1>1, <1>2, <2>1 DEF PublishCalled, TypeInv, TypeOK
  <2>2. CASE PublishWoken(p)
    BY <1>1, <1>2, <2>2 DEF PublishWoken
  <2>3. CASE PublishTimesOut(p) \/ PublishSucceeds(p) \/ PublishFails(p)
    BY <1>0, <2>3 DEF PublishTimesOut, PublishSucceeds, PublishFails, TypeInv, TypeOK
  <2> QED BY <2>1, <2>2, <2>3 DEF PublisherStep
<1>4. UNCHANGED <<ownership, subscribed, attempted, birthGeneration, call, tasks, history>>
  BY DEF PublisherStep, PublishCalled, PublishWoken, PublishTimesOut, PublishSucceeds,
         PublishFails, evidence
<1>5. lastError' \in Errors /\ sessionState' \in States
  BY DEF PublisherStep, PublishCalled, PublishWoken, PublishTimesOut, PublishSucceeds,
         PublishFails, evidence, TypeInv, TypeOK, Errors, States
<1>6. connected' \in BOOLEAN /\ event' \in BOOLEAN
  BY DEF PublisherStep, PublishCalled, PublishWoken, PublishTimesOut, PublishSucceeds,
         PublishFails, evidence, TypeInv, TypeOK
<1>7. TypeOK'
  BY <1>3, <1>4, <1>5, <1>6 DEF TypeInv, TypeOK, ownership, tasks, history
<1> QED BY <1>4, <1>7, OtherStepType DEF ownership, tasks

LEMMA TypeNext == TypeInv /\ [Next]_vars => TypeInv'
<1> SUFFICES ASSUME TypeInv, [Next]_vars PROVE TypeInv'
  OBVIOUS
<1>1. ASSUME NEW cred \in Creds, Start(cred) PROVE TypeInv'
  BY <1>1, StopLockedType, SessionAssumption DEF Start, TypeInv, TypeOK, GenOrNone
<1>2. CASE Stop
  BY <1>2, StopLockedType DEF Stop
<1>3. CASE CallStep \/ CallAborts
  BY <1>3, CallStepType
<1>4. ASSUME NEW g \in Gen, RunnerStep(g) PROVE TypeInv'
  BY <1>4, RunnerStepType
<1>5. ASSUME NEW t \in lifecycle, LifecycleStep(t) PROVE TypeInv'
  BY <1>5, LifecycleStepType
<1>6. ASSUME NEW p \in Publishers, PublisherStep(p) PROVE TypeInv'
  BY <1>6, PublisherStepType
<1>7. CASE UNCHANGED vars
  <2>1. TypeOK'
    BY <1>7 DEF vars, ownership, evidence, tasks, history, TypeInv, TypeOK
  <2> QED BY <1>7, <2>1, OtherStepType DEF vars, ownership, tasks
<1> QED BY <1>1, <1>2, <1>3, <1>4, <1>5, <1>6, <1>7 DEF Next

\* Every variable keeps its type; the generation never passes its bound, and no
\* runner records a SUBACK beyond its last topic.
THEOREM TypeCorrect == Spec => []TypeOK
<1>1. TypeInv => TypeOK
  BY DEF TypeInv
<1> QED BY <1>1, TypeInit, TypeNext, PTL DEF Spec

-----------------------------------------------------------------------------
(* Ownership.  The safety properties are not inductive on their own: they   *)
(* hold because a stop knows every task it waits for (StopKnows), goes on   *)
(* only when they are gone (NothingRuns), and because runners, sessions and *)
(* cancellations follow the order of the generations.                       *)

NoLiveRunner == \A g \in Gen : phase[g] \notin Live

StopKnows ==
    call.at = "tasks" => /\ stopping /\ call.runner = runnerTask
                         /\ \A t \in lifecycle : t.id \in call.tasks
NothingRuns == call.at \in {"drain", "ssl"} => NoLiveRunner /\ lifecycle = {}
DrainStopping == call.at = "drain" => stopping
FreshStart == call.at = "ssl" => ~stopping /\ ~connected /\ subscribed = {}

RunnerIsPast == runnerTask <= generation
LatestRunner == \A g, h \in Gen : phase[g] # "none" /\ phase[h] \in Live => g <= h
CancelledIsStale == \A g \in Gen : cancelled[g] => g < generation
WaitFlagSet == \A g \in Gen : phase[g] \in {"connecting", "subscribing"} => protocolWait

StoppedEvidence == stopping => client = NoGen /\ ~connected /\ event
SubscribedSoFar ==
    \A g \in Gen : Owns(g, g) =>
        /\ phase[g] \in {"created", "connecting", "subscribing"} => subscribed = 1..acks[g]
        /\ phase[g] \in {"subscribing", "consuming"} => client = g
        /\ phase[g] = "consuming" => subscribed = Topics
QuietStop == quiesced => stopping /\ call.at = "none" /\ NoLiveRunner /\ lifecycle = {}

SessionsOpened ==
    \A g \in Gen : /\ phase[g] \in InBroker => g \in sessions
                   /\ phase[g] \in {"none", "created", "connecting"} => g \notin sessions

OwnInv ==
    /\ OneLiveRunner /\ StopKnows /\ NothingRuns /\ DrainStopping /\ FreshStart
    /\ RunnerIsPast /\ LatestRunner /\ CancelledIsStale
    /\ WaitFlagSet /\ ProtocolWaitNotCancelled
    /\ StoppedEvidence /\ SubscribedSoFar /\ ConnectedIsOwned
    /\ WaitersAreCurrent /\ QuietStop /\ SessionsOpened

LEMMA OwnInit == Init => OwnInv
<1> SUFFICES ASSUME Init PROVE OwnInv
  OBVIOUS
<1>1. \A g \in Gen : phase[g] = "none" /\ ~cancelled[g]
  BY DEF Init
<1>2. OneLiveRunner /\ NoLiveRunner /\ LatestRunner /\ CancelledIsStale /\ WaitFlagSet
  BY <1>1 DEF OneLiveRunner, NoLiveRunner, LatestRunner, CancelledIsStale, WaitFlagSet, Live
<1>3. StopKnows /\ NothingRuns /\ DrainStopping /\ FreshStart /\ QuietStop
  BY DEF Init, Idle, StopKnows, NothingRuns, DrainStopping, FreshStart, QuietStop
<1>4. RunnerIsPast /\ StoppedEvidence /\ ConnectedIsOwned
  BY DEF Init, NoGen, RunnerIsPast, StoppedEvidence, ConnectedIsOwned
<1>5. ProtocolWaitNotCancelled /\ SubscribedSoFar /\ SessionsOpened
  BY <1>1 DEF Init, ProtocolWaitNotCancelled, SubscribedSoFar, SessionsOpened, InBroker,
              Owns, Current, Gen
<1>6. WaitersAreCurrent
  BY DEF Init, WaitersAreCurrent, PubIdle
<1> QED BY <1>2, <1>3, <1>4, <1>5, <1>6 DEF OwnInv

LEMMA StopLockedOwn ==
    ASSUME TypeInv, OwnInv, NEW op \in {"start", "stop"}, NEW cred, StopLocked(op, cred)
    PROVE  OwnInv'
<1> USE DEF StopLocked, WakeWaiters, StopCancels
<1>1. /\ call.at = "none" /\ generation \in Nat /\ runnerTask \in Nat /\ generation' \in Nat
      /\ call'.at = "tasks" /\ call'.runner = runnerTask
      /\ call'.tasks = {t.id : t \in lifecycle}
  BY SessionAssumption DEF Idle, TypeInv, TypeOK, GenOrNone
<1>2. OneLiveRunner' /\ LatestRunner' /\ SessionsOpened' /\ WaitFlagSet'
  BY DEF OwnInv, OneLiveRunner, LatestRunner, SessionsOpened, WaitFlagSet
<1>3. StopKnows'
  <2>1. \A t \in lifecycle : t \in LifecycleTask /\ [t EXCEPT !.cancel = TRUE].id = t.id
    BY DEF TypeInv, TypeOK, LifecycleTask
  <2>2. \A t \in lifecycle' : t.id \in call'.tasks
    BY <1>1, <2>1
  <2> QED BY <1>1, <2>2 DEF StopKnows
<1>4. NothingRuns' /\ DrainStopping' /\ FreshStart' /\ QuietStop'
  BY <1>1 DEF NothingRuns, DrainStopping, FreshStart, QuietStop
<1>5. RunnerIsPast' /\ CancelledIsStale'
  BY <1>1 DEF OwnInv, RunnerIsPast, CancelledIsStale, TypeInv, TypeOK, Gen
<1>6. ProtocolWaitNotCancelled'
  BY DEF OwnInv, ProtocolWaitNotCancelled, WaitFlagSet
<1>7. StoppedEvidence' /\ ConnectedIsOwned' /\ SubscribedSoFar'
  BY DEF StoppedEvidence, ConnectedIsOwned, SubscribedSoFar, SetEvent, Owns, Current
<1>8. WaitersAreCurrent'
  BY DEF WaitersAreCurrent, SetEvent, TypeInv, TypeOK
<1> QED BY <1>2, <1>3, <1>4, <1>5, <1>6, <1>7, <1>8 DEF OwnInv

\* The part of the invariant that only these variables are in.
LEMMA UnchangedOwn ==
    ASSUME OwnInv, UNCHANGED <<phase, cancelled, sessions, generation>>
    PROVE  LatestRunner' /\ CancelledIsStale' /\ SessionsOpened' /\ ProtocolWaitNotCancelled'
BY DEF OwnInv, LatestRunner, CancelledIsStale, SessionsOpened, ProtocolWaitNotCancelled

LEMMA CallStepOwn ==
    ASSUME TypeInv, OwnInv, CallStep \/ CallAborts
    PROVE  OwnInv'
<1>0. /\ generation \in Nat /\ runnerTask \in Nat
      /\ \A at : [call EXCEPT !.at = at].at = at
      /\ Idle.at = "none"
  BY SessionAssumption DEF TypeInv, TypeOK, GenOrNone, Idle
<1>1. CASE StopTasksDone
  <2> USE <1>1 DEF StopTasksDone
  <2>1. call'.at = "drain" /\ stopping /\ call.runner = runnerTask /\ runnerTask' = NoGen
    BY <1>0 DEF OwnInv, StopKnows
  <2>2. NoLiveRunner /\ lifecycle = {}
    BY <2>1 DEF OwnInv, StopKnows, OneLiveRunner, NoLiveRunner, PlanPending, Alive, Gen, NoGen
  <2>3. OneLiveRunner' /\ NothingRuns'
    BY <2>2 DEF OneLiveRunner, NothingRuns, NoLiveRunner, tasks
  <2>4. StopKnows' /\ DrainStopping' /\ FreshStart' /\ QuietStop' /\ RunnerIsPast'
    BY <1>0, <2>1 DEF StopKnows, DrainStopping, FreshStart, QuietStop, RunnerIsPast, NoGen,
                      OwnInv, history
  <2>5. WaitFlagSet' /\ StoppedEvidence' /\ ConnectedIsOwned' /\ SubscribedSoFar'
    BY <2>1 DEF OwnInv, WaitFlagSet, StoppedEvidence, ConnectedIsOwned, SubscribedSoFar,
                Owns, Current, tasks, evidence
  <2>6. WaitersAreCurrent'
    BY DEF OwnInv, WaitersAreCurrent, evidence
  <2> QED BY <2>3, <2>4, <2>5, <2>6, UnchangedOwn DEF OwnInv, tasks, history
<1>2. CASE StopTimesOut
  <2> USE <1>2 DEF StopTimesOut
  <2>1. /\ call'.at = "none" /\ stopping /\ call.runner = runnerTask
        /\ runnerTask' = IF Alive(runnerTask) THEN runnerTask ELSE NoGen
    BY <1>0 DEF OwnInv, StopKnows
  <2>2. OneLiveRunner'
    BY <2>1 DEF OwnInv, OneLiveRunner, Alive, tasks, Gen, NoGen
  <2>3. /\ StopKnows' /\ NothingRuns' /\ DrainStopping' /\ FreshStart' /\ QuietStop'
        /\ RunnerIsPast'
    BY <1>0, <2>1 DEF StopKnows, NothingRuns, DrainStopping, FreshStart, QuietStop,
                      RunnerIsPast, NoGen, OwnInv, history
  <2>4. WaitFlagSet' /\ StoppedEvidence' /\ ConnectedIsOwned' /\ SubscribedSoFar'
    BY <2>1 DEF OwnInv, WaitFlagSet, StoppedEvidence, ConnectedIsOwned, SubscribedSoFar,
                Owns, Current, tasks, evidence
  <2>5. WaitersAreCurrent'
    BY DEF OwnInv, WaitersAreCurrent, evidence
  <2> QED BY <2>2, <2>3, <2>4, <2>5, UnchangedOwn DEF OwnInv, tasks, history
<1>3. CASE StopReturns
  <2> USE <1>3 DEF StopReturns
  <2>1. call'.at = "none" /\ stopping /\ NoLiveRunner /\ lifecycle = {}
    BY <1>0 DEF OwnInv, DrainStopping, NothingRuns
  <2>2. QuietStop' /\ OneLiveRunner'
    BY <2>1 DEF QuietStop, OneLiveRunner, NoLiveRunner, tasks, ownership
  <2>3. StopKnows' /\ NothingRuns' /\ DrainStopping' /\ FreshStart' /\ RunnerIsPast'
    BY <2>1 DEF StopKnows, NothingRuns, DrainStopping, FreshStart, RunnerIsPast, OwnInv,
                ownership
  <2>4. WaitFlagSet' /\ StoppedEvidence' /\ ConnectedIsOwned' /\ SubscribedSoFar'
    BY DEF OwnInv, WaitFlagSet, StoppedEvidence, ConnectedIsOwned, SubscribedSoFar,
           Owns, Current, tasks, evidence, ownership
  <2>5. WaitersAreCurrent'
    BY DEF OwnInv, WaitersAreCurrent, evidence, ownership
  <2> QED BY <2>2, <2>3, <2>4, <2>5, UnchangedOwn DEF OwnInv, tasks, ownership
<1>4. CASE StartGeneration
  <2> USE <1>4 DEF StartGeneration
  <2>1. /\ call'.at = "ssl" /\ stopping /\ NoLiveRunner /\ lifecycle = {} /\ event
        /\ \A p \in Publishers : pub[p].at # "waiting"
    BY <1>0 DEF OwnInv, DrainStopping, NothingRuns, StoppedEvidence, WaitersAreCurrent
  <2>2. OneLiveRunner' /\ NothingRuns' /\ WaitFlagSet' /\ ProtocolWaitNotCancelled'
    BY <2>1 DEF OneLiveRunner, NothingRuns, NoLiveRunner, WaitFlagSet,
                ProtocolWaitNotCancelled, OwnInv, tasks
  <2>3. LatestRunner' /\ SessionsOpened'
    BY DEF OwnInv, LatestRunner, SessionsOpened, tasks, history
  <2>4. CancelledIsStale' /\ RunnerIsPast'
    BY <1>0 DEF OwnInv, CancelledIsStale, RunnerIsPast, tasks, Gen
  <2>5. QuietStop'
    BY DEF OwnInv, QuietStop, history
  <2>6. StopKnows' /\ DrainStopping' /\ FreshStart' /\ StoppedEvidence' /\ ConnectedIsOwned'
    BY <2>1 DEF StopKnows, DrainStopping, FreshStart, StoppedEvidence, ConnectedIsOwned
  <2>7. SubscribedSoFar'
    BY <1>0 DEF SubscribedSoFar, Owns, Current, OwnInv, RunnerIsPast, NoGen, Gen
  <2>8. WaitersAreCurrent'
    BY <2>1 DEF WaitersAreCurrent, ClearEvent
  <2> QED BY <2>2, <2>3, <2>4, <2>5, <2>6, <2>7, <2>8 DEF OwnInv
<1>5. CASE CreateRunner
  <2> USE <1>5 DEF CreateRunner
  <2>1. /\ call'.at = "none" /\ ~stopping /\ ~connected /\ subscribed = {} /\ NoLiveRunner
        /\ lifecycle = {} /\ generation \in Gen
    BY <1>0 DEF OwnInv, NothingRuns, FreshStart, TypeInv, TypeOK, FirstGeneration, GenOrNone,
                NoGen, Gen
  <2>2. /\ phase[generation] = "none" /\ acks[generation] = 0 /\ generation \notin sessions
        /\ ~cancelled[generation]
    BY <1>0, <2>1 DEF OwnInv, TypeInv, FreshGenerations, NotBegun, SessionsOpened,
                CancelledIsStale
  <2>3. /\ runnerTask' = generation
        /\ \A g \in Gen : phase'[g] = IF g = generation THEN "created" ELSE phase[g]
    BY <2>1 DEF TypeInv, TypeOK
  <2>4. OneLiveRunner' /\ WaitFlagSet' /\ ProtocolWaitNotCancelled'
    BY <2>1, <2>3 DEF OneLiveRunner, NoLiveRunner, WaitFlagSet, ProtocolWaitNotCancelled, OwnInv
  <2>5. LatestRunner'
    BY <1>0, <2>1, <2>3 DEF LatestRunner, NoLiveRunner, TypeInv, FreshGenerations, Gen
  <2>6. SessionsOpened'
    BY <2>1, <2>2, <2>3 DEF OwnInv, SessionsOpened, history, InBroker
  <2>7. CancelledIsStale' /\ RunnerIsPast'
    BY <1>0, <2>3 DEF OwnInv, CancelledIsStale, RunnerIsPast
  <2>8. QuietStop'
    BY <2>1 DEF OwnInv, QuietStop, history
  <2>9. StopKnows' /\ NothingRuns' /\ DrainStopping' /\ FreshStart' /\ StoppedEvidence'
    BY <2>1 DEF StopKnows, NothingRuns, DrainStopping, FreshStart, StoppedEvidence
  <2>10. ConnectedIsOwned'
    BY <2>1 DEF ConnectedIsOwned, evidence
  <2>11. SubscribedSoFar'
    BY <1>0, <2>1, <2>2, <2>3 DEF SubscribedSoFar, Owns, Current, evidence
  <2>12. WaitersAreCurrent'
    BY DEF OwnInv, WaitersAreCurrent, evidence
  <2> QED BY <2>4, <2>5, <2>6, <2>7, <2>8, <2>9, <2>10, <2>11, <2>12 DEF OwnInv
<1>6. CASE CallAborts
  <2> USE <1>6 DEF CallAborts
  <2>1. call'.at = "none"
    BY <1>0
  <2>2. /\ StopKnows' /\ NothingRuns' /\ DrainStopping' /\ FreshStart' /\ RunnerIsPast'
        /\ QuietStop' /\ OneLiveRunner'
    BY <2>1 DEF OwnInv, StopKnows, NothingRuns, DrainStopping, FreshStart, RunnerIsPast,
                QuietStop, OneLiveRunner, NoLiveRunner, ownership, tasks, history
  <2>3. WaitFlagSet' /\ StoppedEvidence' /\ ConnectedIsOwned' /\ SubscribedSoFar'
    BY DEF OwnInv, WaitFlagSet, StoppedEvidence, ConnectedIsOwned, SubscribedSoFar,
           Owns, Current, tasks, evidence, ownership
  <2>4. WaitersAreCurrent'
    BY DEF OwnInv, WaitersAreCurrent, evidence, ownership
  <2> QED BY <2>2, <2>3, <2>4, UnchangedOwn DEF OwnInv, tasks, ownership, history
<1> QED BY <1>1, <1>2, <1>3, <1>4, <1>5, <1>6 DEF CallStep

\* A live runner that takes a step: what the invariant says about it.
LEMMA LiveRunner ==
    ASSUME TypeInv, OwnInv, NEW g \in Gen, phase[g] \in Live
    PROVE  /\ runnerTask = g /\ g <= generation /\ generation \in Nat
           /\ call.at \notin {"drain", "ssl"} /\ ~quiesced
           /\ \A h \in Gen : phase[h] \in Live => h = g
           /\ \A h \in Gen : phase[h] # "none" => h <= g
           /\ connected => Owns(g, g) /\ phase[g] = "consuming"
<1>1. runnerTask = g /\ g <= generation /\ generation \in Nat
  BY SessionAssumption
     DEF OwnInv, OneLiveRunner, RunnerIsPast, TypeInv, TypeOK, GenOrNone
<1>2. call.at \notin {"drain", "ssl"} /\ ~quiesced
  BY DEF OwnInv, NothingRuns, QuietStop, NoLiveRunner
<1>3. \A h \in Gen : phase[h] \in Live => h = g
  BY <1>1 DEF OwnInv, OneLiveRunner
<1>4. \A h \in Gen : phase[h] # "none" => h <= g
  BY DEF OwnInv, LatestRunner
<1>5. connected => Owns(g, g) /\ phase[g] = "consuming"
  BY <1>1 DEF OwnInv, ConnectedIsOwned, Owns, Current
<1> QED BY <1>1, <1>2, <1>3, <1>4, <1>5

LEMMA FinalizeOwn ==
    ASSUME TypeInv, OwnInv, NEW g \in Gen, phase[g] \in Live,
           phase[g] \in InBroker \cup {"connecting"},
           NEW broker, NEW sub, NEW err, Finalize(g, broker, sub, err)
    PROVE  OwnInv'
<1> USE DEF Finalize
<1>1. /\ runnerTask = g /\ call.at \notin {"drain", "ssl"} /\ ~quiesced
      /\ \A h \in Gen : phase[h] \in Live => h = g
      /\ connected => Owns(g, g)
  BY LiveRunner
<1>2. /\ \A h \in Gen : phase'[h] = IF h = g THEN "done" ELSE phase[h]
      /\ NoLiveRunner'
  BY <1>1 DEF TypeInv, TypeOK, NoLiveRunner, Live
<1>3. /\ UNCHANGED <<stopping, generation, fingerprint, subscribed, call, acks, cancelled,
                     quiesced, sessions>>
  BY DEF history
<1>4. OneLiveRunner' /\ LatestRunner' /\ WaitFlagSet' /\ ProtocolWaitNotCancelled'
  BY <1>2 DEF NoLiveRunner, OneLiveRunner, LatestRunner, WaitFlagSet,
              ProtocolWaitNotCancelled, Live, Phases
<1>5. SessionsOpened'
  BY <1>2, <1>3 DEF OwnInv, SessionsOpened, InBroker
<1>6. CancelledIsStale' /\ RunnerIsPast'
  BY <1>1, <1>3, SessionAssumption
     DEF OwnInv, CancelledIsStale, RunnerIsPast, NoGen, TypeInv, TypeOK, GenOrNone
<1>7. StopKnows'
  BY <1>3 DEF OwnInv, StopKnows, Owns, Current
<1>8. NothingRuns' /\ DrainStopping' /\ FreshStart' /\ QuietStop'
  BY <1>1, <1>3 DEF OwnInv, NothingRuns, DrainStopping, FreshStart, QuietStop
<1>9. StoppedEvidence'
  BY <1>3 DEF OwnInv, StoppedEvidence, Owns, Current
<1>10. SubscribedSoFar'
  BY <1>1, <1>2, <1>3 DEF OwnInv, SubscribedSoFar, Owns, Current, NoGen, Gen
<1>11. ConnectedIsOwned'
  BY <1>1 DEF ConnectedIsOwned
<1>12. WaitersAreCurrent'
  BY <1>3 DEF OwnInv, WaitersAreCurrent, SetEvent, ClearEvent, TypeInv, TypeOK
<1> QED BY <1>4, <1>5, <1>6, <1>7, <1>8, <1>9, <1>10, <1>11, <1>12 DEF OwnInv

\* A step that leaves the ownership, the evidence, the call and the lifecycle
\* tasks alone and moves one runner along, keeping it alive or ending it.
LEMMA PhaseStepOwn ==
    ASSUME TypeInv, OwnInv, NEW g \in Gen, phase[g] \in Live,
           NEW to \in Phases \ {"none", "created", "subscribing", "consuming"},
           phase' = [phase EXCEPT ![g] = to],
           phase[g] # "consuming" \/ ~Owns(g, g) \/ ~connected,
           UNCHANGED <<ownership, connected, event, subscribed, call, acks, cancelled, lifecycle,
                       pub, quiesced>>,
           sessions \subseteq sessions', sessions' \subseteq sessions \cup {g},
           to \in InBroker => g \in sessions', to = "connecting" => g \notin sessions',
           to = "connecting" => protocolWait' /\ ~cancelled[g] /\ phase[g] = "created",
           to # "connecting" => protocolWait' = protocolWait
    PROVE  OwnInv'
<1>1. /\ runnerTask = g /\ call.at \notin {"drain", "ssl"} /\ ~quiesced /\ ~connected
      /\ \A h \in Gen : phase[h] \in Live => h = g
      /\ \A h \in Gen : phase[h] # "none" => h <= g
  BY LiveRunner
<1>2. \A h \in Gen : phase'[h] = IF h = g THEN to ELSE phase[h]
  BY DEF TypeInv, TypeOK
<1>3. OneLiveRunner' /\ LatestRunner'
  BY <1>1, <1>2 DEF OneLiveRunner, LatestRunner, ownership, Live
<1>4. WaitFlagSet' /\ ProtocolWaitNotCancelled'
  BY <1>1, <1>2 DEF OwnInv, WaitFlagSet, ProtocolWaitNotCancelled, Live
<1>5. SessionsOpened'
  BY <1>2 DEF OwnInv, SessionsOpened
<1>6. CancelledIsStale' /\ RunnerIsPast'
  BY DEF OwnInv, CancelledIsStale, RunnerIsPast, ownership
<1>7. StopKnows' /\ StoppedEvidence'
  BY DEF OwnInv, StopKnows, StoppedEvidence, ownership
<1>8. NothingRuns' /\ DrainStopping' /\ FreshStart' /\ QuietStop'
  BY <1>1 DEF NothingRuns, DrainStopping, FreshStart, QuietStop
<1>9. SubscribedSoFar'
  BY <1>2 DEF OwnInv, SubscribedSoFar, Owns, Current, ownership
<1>10. ConnectedIsOwned'
  BY <1>1 DEF ConnectedIsOwned
<1>11. WaitersAreCurrent'
  BY DEF OwnInv, WaitersAreCurrent, ownership
<1> QED BY <1>3, <1>4, <1>5, <1>6, <1>7, <1>8, <1>9, <1>10, <1>11 DEF OwnInv

LEMMA ConnectSucceedsOwn ==
    ASSUME TypeInv, OwnInv, NEW g \in Gen, ConnectSucceeds(g)
    PROVE  OwnInv'
<1> USE DEF ConnectSucceeds
<1>1. CASE ~Owns(g, g)
  <2>1. /\ phase[g] \in Live /\ phase[g] # "consuming"
        /\ "closing" \in Phases \ {"none", "created", "subscribing", "consuming"}
        /\ sessions \subseteq sessions' /\ sessions' \subseteq sessions \cup {g}
        /\ g \in sessions'
    BY DEF Live, Phases
  <2>2. /\ phase' = [phase EXCEPT ![g] = "closing"]
        /\ UNCHANGED <<ownership, connected, event, subscribed, call, acks, cancelled,
                       lifecycle, pub, quiesced, protocolWait>>
    BY <1>1 DEF ownership, evidence
  <2> QED BY <2>1, <2>2, PhaseStepOwn
<1>2. CASE Owns(g, g)
  <2>1. /\ runnerTask = g /\ generation = g /\ ~stopping
        /\ call.at \notin {"drain", "ssl"} /\ ~quiesced /\ ~connected
        /\ \A h \in Gen : phase[h] \in Live => h = g
        /\ \A h \in Gen : phase[h] # "none" => h <= g
    BY <1>2, LiveRunner DEF Live, Phases, Owns, Current
  <2>2. \A h \in Gen : phase'[h] = IF h = g THEN "subscribing" ELSE phase[h]
    BY <1>2 DEF TypeInv, TypeOK
  <2>3. OneLiveRunner' /\ LatestRunner'
    BY <2>1, <2>2 DEF OneLiveRunner, LatestRunner, Live
  <2>4. WaitFlagSet' /\ ProtocolWaitNotCancelled'
    BY <2>1, <2>2 DEF OwnInv, WaitFlagSet, ProtocolWaitNotCancelled
  <2>5. SessionsOpened'
    BY <2>2 DEF OwnInv, SessionsOpened, InBroker
  <2>6. CancelledIsStale' /\ RunnerIsPast' /\ StopKnows'
    BY DEF OwnInv, CancelledIsStale, RunnerIsPast, StopKnows
  <2>7. NothingRuns' /\ DrainStopping' /\ FreshStart' /\ QuietStop' /\ StoppedEvidence'
    BY <2>1 DEF NothingRuns, DrainStopping, FreshStart, QuietStop, StoppedEvidence
  <2>8. SubscribedSoFar'
    BY <1>2, <2>1, <2>2 DEF OwnInv, SubscribedSoFar, Owns, Current, evidence
  <2>9. ConnectedIsOwned' /\ WaitersAreCurrent'
    BY <2>1 DEF OwnInv, ConnectedIsOwned, WaitersAreCurrent, evidence
  <2> QED BY <2>3, <2>4, <2>5, <2>6, <2>7, <2>8, <2>9 DEF OwnInv
<1> QED BY <1>1, <1>2

LEMMA SubscribeSucceedsOwn ==
    ASSUME TypeInv, OwnInv, NEW g \in Gen, SubscribeSucceeds(g)
    PROVE  OwnInv'
<1> USE DEF SubscribeSucceeds, LastTopic
<1>1. /\ runnerTask = g /\ g <= generation /\ generation \in Nat
      /\ call.at \notin {"drain", "ssl"} /\ ~quiesced /\ ~connected
      /\ \A h \in Gen : phase[h] \in Live => h = g
      /\ \A h \in Gen : phase[h] # "none" => h <= g
      /\ g \in sessions /\ ~cancelled[g] /\ acks[g] \in Nat /\ acks[g] < NumTopics
  <2>1. phase[g] \in Live /\ phase[g] \in InBroker
    BY DEF Live, Phases, InBroker
  <2>2. g \in sessions /\ ~cancelled[g]
    BY <2>1 DEF OwnInv, SessionsOpened, ProtocolWaitNotCancelled
  <2>3. acks[g] \in Nat /\ acks[g] < NumTopics
    BY SessionAssumption DEF TypeInv, TypeOK, AcksBelowTopics
  <2> QED BY <2>1, <2>2, <2>3, LiveRunner
<1>2. /\ phase'[g] \in {"closing", "subscribing", "consuming"}
      /\ \A h \in Gen : h # g => phase'[h] = phase[h]
      /\ \A h \in Gen : acks'[h] = IF h = g THEN acks[g] + 1 ELSE acks[h]
  BY DEF TypeInv, TypeOK
<1>3. OneLiveRunner' /\ LatestRunner'
  BY <1>1, <1>2 DEF OneLiveRunner, LatestRunner, ownership, Live
<1>4. WaitFlagSet'
  <2>1. protocolWait
    BY DEF OwnInv, WaitFlagSet
  <2>2. phase'[g] = "subscribing" => protocolWait' = protocolWait
    BY DEF TypeInv, TypeOK
  <2>3. \A h \in Gen : phase'[h] \in {"connecting", "subscribing"} =>
            h = g /\ phase'[h] = "subscribing"
    BY <1>1, <1>2 DEF Live, Phases
  <2> QED BY <2>1, <2>2, <2>3 DEF WaitFlagSet
<1>5. ProtocolWaitNotCancelled'
  BY <1>1, <1>2 DEF OwnInv, ProtocolWaitNotCancelled
<1>6. SessionsOpened'
  BY <1>1, <1>2 DEF OwnInv, SessionsOpened, history, InBroker
<1>7. CancelledIsStale' /\ RunnerIsPast'
  BY DEF OwnInv, CancelledIsStale, RunnerIsPast, ownership
<1>8. StopKnows'
  BY DEF OwnInv, StopKnows, ownership, MarkConnected, Schedule, Owns, Current
<1>9. NothingRuns' /\ DrainStopping' /\ FreshStart' /\ QuietStop'
  BY <1>1 DEF NothingRuns, DrainStopping, FreshStart, QuietStop, history
<1>10. StoppedEvidence'
  BY DEF OwnInv, StoppedEvidence, ownership, MarkConnected, Owns, Current
<1>11. Owns(g, g) => subscribed' = 1..(acks[g] + 1) /\ client = g /\ generation = g
  BY <1>1 DEF OwnInv, SubscribedSoFar, Owns, Current
<1>12. SubscribedSoFar'
  <2> SUFFICES ASSUME NEW h \in Gen, Owns(h, h)'
               PROVE  /\ phase'[h] \in {"created", "connecting", "subscribing"}
                            => subscribed' = 1..(acks'[h])
                      /\ phase'[h] \in {"subscribing", "consuming"} => client' = h
                      /\ phase'[h] = "consuming" => subscribed' = Topics
    BY DEF SubscribedSoFar
  <2>1. h = g /\ Owns(g, g) /\ client' = client
    BY <1>1 DEF Owns, Current, ownership, NoGen, Gen
  <2>2. phase'[g] = "consuming" => acks[g] + 1 = NumTopics
    BY <1>1, <2>1
  <2> QED BY <1>2, <1>11, <2>1, <2>2 DEF Topics
<1>13. ConnectedIsOwned'
  <2>1. CASE connected'
    <3>1. /\ Owns(g, g) /\ acks[g] + 1 = NumTopics
          /\ phase' = [phase EXCEPT ![g] = "consuming"]
      BY <1>1, <2>1
    <3> QED BY <1>1, <1>11, <3>1
            DEF ConnectedIsOwned, Owns, Current, ownership, Topics, TypeInv, TypeOK
  <2>2. CASE ~connected'
    BY <2>2 DEF ConnectedIsOwned
  <2> QED BY <2>1, <2>2
<1>14. WaitersAreCurrent'
  BY DEF OwnInv, WaitersAreCurrent, ownership, MarkConnected, SetEvent, TypeInv, TypeOK
<1> QED BY <1>3, <1>4, <1>5, <1>6, <1>7, <1>8, <1>9, <1>10, <1>12, <1>13, <1>14 DEF OwnInv

LEMMA RunnerStepOwn ==
    ASSUME TypeInv, OwnInv, NEW g \in Gen, RunnerStep(g)
    PROVE  OwnInv'
<1>1. CASE RunnerBegins(g)
  <2>1. g \notin sessions
    BY <1>1 DEF RunnerBegins, OwnInv, SessionsOpened
  <2> QED BY <1>1, <2>1, PhaseStepOwn
          DEF RunnerBegins, Live, Phases, InBroker, ownership, evidence, history
<1>2. CASE RunnerNeverRuns(g)
  BY <1>2, PhaseStepOwn
     DEF RunnerNeverRuns, Live, Phases, InBroker, ownership, evidence, history
<1>3. CASE ConnectSucceeds(g)
  BY <1>3, ConnectSucceedsOwn
<1>4. CASE ConnectFails(g)
  BY <1>4, FinalizeOwn DEF ConnectFails, Live, Phases
<1>5. CASE SubscribeSucceeds(g)
  BY <1>5, SubscribeSucceedsOwn
<1>6. CASE SubscribeFails(g)
  <2>1. g \in sessions
    BY <1>6 DEF SubscribeFails, OwnInv, SessionsOpened, InBroker
  <2> QED BY <1>6, <2>1, PhaseStepOwn
          DEF SubscribeFails, Live, Phases, InBroker, ownership, history
<1>7. CASE ConnectionLost(g)
  BY <1>7, FinalizeOwn DEF ConnectionLost, Live, Phases, InBroker
<1>8. CASE StreamLeft(g)
  <2>1. g \in sessions /\ ~Owns(g, g)
    BY <1>8, SessionAssumption
       DEF StreamLeft, OwnInv, SessionsOpened, InBroker, CancelledIsStale, Owns, Current,
           TypeInv, TypeOK, GenOrNone
  <2> QED BY <1>8, <2>1, PhaseStepOwn
          DEF StreamLeft, Live, Phases, InBroker, ownership, evidence, history
<1>9. CASE ContextClosed(g)
  BY <1>9, FinalizeOwn DEF ContextClosed, Live, Phases, InBroker
<1> QED BY <1>1, <1>2, <1>3, <1>4, <1>5, <1>6, <1>7, <1>8, <1>9 DEF RunnerStep

\* The part of the invariant a step of a callback or a publisher cannot touch.
LEMMA BystanderOwn ==
    ASSUME OwnInv, UNCHANGED <<ownership, subscribed, call, protocolWait, phase, acks, cancelled,
                               sessions, quiesced>>
    PROVE  /\ OneLiveRunner' /\ RunnerIsPast' /\ LatestRunner' /\ CancelledIsStale'
           /\ WaitFlagSet' /\ ProtocolWaitNotCancelled' /\ SubscribedSoFar' /\ SessionsOpened'
           /\ DrainStopping'
BY DEF OwnInv, OneLiveRunner, RunnerIsPast, LatestRunner, CancelledIsStale, WaitFlagSet,
       ProtocolWaitNotCancelled, SubscribedSoFar, SessionsOpened, DrainStopping, ownership,
       Owns, Current

LEMMA LifecycleStepOwn ==
    ASSUME TypeInv, OwnInv, NEW t \in lifecycle, LifecycleStep(t)
    PROVE  OwnInv'
<1> USE DEF LifecycleStep, LifecycleCancelled, LifecycleBegins, BirthReturns, BirthRaises
<1>1. UNCHANGED <<ownership, connected, event, subscribed, call, protocolWait, phase, acks,
                  cancelled, pub, sessions, quiesced>>
  BY DEF evidence, history
<1>2. /\ t \in LifecycleTask /\ [t EXCEPT !.running = TRUE].id = t.id
  BY DEF TypeInv, TypeOK, LifecycleTask
<1>3. \A u \in lifecycle' : \E v \in lifecycle : u.id = v.id
  BY <1>2
<1>4. StopKnows'
  BY <1>1, <1>3 DEF OwnInv, StopKnows, ownership
<1>5. NothingRuns' /\ QuietStop'
  BY <1>1, <1>3 DEF OwnInv, NothingRuns, QuietStop, NoLiveRunner, ownership
<1>6. FreshStart' /\ StoppedEvidence' /\ ConnectedIsOwned' /\ WaitersAreCurrent'
  BY <1>1 DEF OwnInv, FreshStart, StoppedEvidence, ConnectedIsOwned, WaitersAreCurrent,
              ownership
<1> QED BY <1>1, <1>4, <1>5, <1>6, BystanderOwn DEF OwnInv

LEMMA PublisherStepOwn ==
    ASSUME TypeInv, OwnInv, NEW p \in Publishers, PublisherStep(p)
    PROVE  OwnInv'
<1> USE DEF PublisherStep, PublishCalled, PublishWoken, PublishTimesOut, PublishSucceeds,
            PublishFails, SendOrRaise
<1>1. UNCHANGED <<ownership, subscribed, attempted, birthGeneration, call, tasks, history>>
  BY DEF evidence
<1>2. /\ connected' => connected
      /\ event' # event => ~event' /\ ~stopping
  BY DEF evidence, Owns, Current
<1>3. \A q \in Publishers : pub'[q].at = "waiting" =>
          pub'[q].gen = generation /\ ~event'
  <2>1. \A q \in Publishers : q # p => pub'[q] = pub[q]
    BY DEF TypeInv, TypeOK
  <2>2. pub'[p].at = "waiting" => pub'[p].gen = generation /\ ~event'
    BY DEF TypeInv, TypeOK, PubIdle, evidence
  <2>3. ~event => ~event'
    BY <1>2
  <2> QED BY <2>1, <2>2, <2>3 DEF OwnInv, WaitersAreCurrent
<1>4. WaitersAreCurrent'
  BY <1>1, <1>3 DEF WaitersAreCurrent, ownership
<1>5. StoppedEvidence' /\ FreshStart' /\ ConnectedIsOwned'
  BY <1>1, <1>2 DEF OwnInv, StoppedEvidence, FreshStart, ConnectedIsOwned, ownership, tasks
<1>6. StopKnows' /\ NothingRuns' /\ QuietStop'
  BY <1>1 DEF OwnInv, StopKnows, NothingRuns, QuietStop, NoLiveRunner, ownership, tasks, history
<1> QED BY <1>1, <1>4, <1>5, <1>6, BystanderOwn DEF OwnInv, tasks, history

LEMMA OwnNext == TypeInv /\ OwnInv /\ [Next]_vars => OwnInv'
<1> SUFFICES ASSUME TypeInv, OwnInv, [Next]_vars PROVE OwnInv'
  OBVIOUS
<1>1. ASSUME NEW cred \in Creds, Start(cred) PROVE OwnInv'
  BY <1>1, StopLockedOwn DEF Start
<1>2. CASE Stop
  BY <1>2, StopLockedOwn DEF Stop
<1>3. CASE CallStep \/ CallAborts
  BY <1>3, CallStepOwn
<1>4. ASSUME NEW g \in Gen, RunnerStep(g) PROVE OwnInv'
  BY <1>4, RunnerStepOwn
<1>5. ASSUME NEW t \in lifecycle, LifecycleStep(t) PROVE OwnInv'
  BY <1>5, LifecycleStepOwn
<1>6. ASSUME NEW p \in Publishers, PublisherStep(p) PROVE OwnInv'
  BY <1>6, PublisherStepOwn
<1>7. CASE UNCHANGED vars
  <2>1. UNCHANGED <<ownership, connected, event, subscribed, call, protocolWait, phase, acks,
                    cancelled, lifecycle, pub, sessions, quiesced>>
    BY <1>7 DEF vars, tasks, evidence, history
  <2>2. /\ StopKnows' /\ NothingRuns' /\ QuietStop' /\ FreshStart' /\ StoppedEvidence'
        /\ ConnectedIsOwned' /\ WaitersAreCurrent'
    BY <2>1 DEF OwnInv, StopKnows, NothingRuns, QuietStop, FreshStart, StoppedEvidence,
                ConnectedIsOwned, WaitersAreCurrent, NoLiveRunner, ownership
  <2> QED BY <2>1, <2>2, BystanderOwn DEF OwnInv
<1> QED BY <1>1, <1>2, <1>3, <1>4, <1>5, <1>6, <1>7 DEF Next

LEMMA Invariance == Spec => [](TypeInv /\ OwnInv)
<1>1. Init => TypeInv /\ OwnInv
  BY TypeInit, OwnInit
<1>2. TypeInv /\ OwnInv /\ [Next]_vars => (TypeInv /\ OwnInv)'
  BY TypeNext, OwnNext
<1> QED BY <1>1, <1>2, PTL DEF Spec

\* At most one runner is alive, whatever is cancelled or times out, and it is
\* the one _runner_task names.
THEOREM OneRunner == Spec => []OneLiveRunner
<1>1. OwnInv => OneLiveRunner
  BY DEF OwnInv
<1> QED BY <1>1, Invariance, PTL

\* is_connected is only ever true of the current session's own runner, with its
\* client in place and every topic acknowledged.
THEOREM ConnectionOwned == Spec => []ConnectedIsOwned
<1>1. OwnInv => ConnectedIsOwned
  BY DEF OwnInv
<1> QED BY <1>1, Invariance, PTL

\* No stop cancels a runner in its CONNECT or SUBSCRIBE.
THEOREM ProtocolWaitShielded == Spec => []ProtocolWaitNotCancelled
<1>1. OwnInv => ProtocolWaitNotCancelled
  BY DEF OwnInv
<1> QED BY <1>1, Invariance, PTL

\* Whoever still waits for the connection waits for the current session.
THEOREM NoOutdatedWaiter == Spec => []WaitersAreCurrent
<1>1. OwnInv => WaitersAreCurrent
  BY DEF OwnInv
<1> QED BY <1>1, Invariance, PTL

\* A stop that returned has left no task, no client and no connection behind.
THEOREM QuietAfterStop == Spec => []StoppedIsQuiet
<1>1. OwnInv => StoppedIsQuiet
  BY DEF OwnInv, QuietStop, StoppedEvidence, StoppedIsQuiet, NoLiveRunner
<1> QED BY <1>1, Invariance, PTL

-----------------------------------------------------------------------------
(* Action property and refinement.                                          *)

\* Who moves a runner: itself, or the start that creates it.
LEMMA PhaseChange ==
    ASSUME [Next]_vars, NEW g \in Gen, TypeInv, phase[g] \in Live, phase'[g] # phase[g]
    PROVE  RunnerStep(g)
<1>1. ASSUME NEW h \in Gen, RunnerStep(h), h # g PROVE phase'[g] = phase[g]
  BY <1>1 DEF RunnerStep, RunnerBegins, RunnerNeverRuns, ConnectSucceeds, ConnectFails,
              SubscribeSucceeds, SubscribeFails, ConnectionLost, StreamLeft, ContextClosed,
              Finalize, TypeInv, TypeOK
<1>2. CASE CreateRunner
  <2>1. generation # g
    BY <1>2 DEF CreateRunner, TypeInv, FreshGenerations, Live, Phases
  <2> QED BY <1>2, <2>1 DEF CreateRunner, TypeInv, TypeOK
<1>3. CASE StopTasksDone \/ StopTimesOut \/ StopReturns \/ StartGeneration \/ CallAborts
  BY <1>3 DEF StopTasksDone, StopTimesOut, StopReturns, StartGeneration, CallAborts, tasks
<1>4. ASSUME NEW op, NEW cred, StopLocked(op, cred) PROVE FALSE
  BY <1>4 DEF StopLocked
<1>5. ASSUME NEW t \in lifecycle, LifecycleStep(t) PROVE FALSE
  BY <1>5 DEF LifecycleStep, LifecycleCancelled, LifecycleBegins, BirthReturns, BirthRaises
<1>6. ASSUME NEW p \in Publishers, PublisherStep(p) PROVE FALSE
  BY <1>6 DEF PublisherStep, PublishCalled, PublishWoken, PublishTimesOut, PublishSucceeds,
              PublishFails, tasks
<1>7. CASE UNCHANGED vars
  BY <1>7 DEF vars, tasks
<1> QED BY <1>1, <1>2, <1>3, <1>4, <1>5, <1>6, <1>7 DEF Next, CallStep, Start, Stop

\* A runner that lost its session changes nothing of the next one's state.
THEOREM StaleRunnersAreSilent == Spec => StaleRunnerIsSilent
<1> DEFINE Silent ==
      \A g \in Gen : phase'[g] # phase[g] /\ phase[g] \in Live /\ Displaced(g)
          => UNCHANGED <<ownership, connected, event, sessionState, lastError, lifecycle>>
<1>1. TypeInv /\ [Next]_vars => Silent
  <2> SUFFICES ASSUME TypeInv, [Next]_vars, NEW g \in Gen,
                      phase'[g] # phase[g], phase[g] \in Live, Displaced(g)
               PROVE  UNCHANGED <<ownership, connected, event, sessionState, lastError, lifecycle>>
    OBVIOUS
  <2>1. RunnerStep(g)
    BY PhaseChange
  <2>2. ~Owns(g, g)
    BY DEF Displaced, Owns, Current, NoGen, Gen
  <2> QED BY <2>1, <2>2
          DEF RunnerStep, RunnerBegins, RunnerNeverRuns, ConnectSucceeds, ConnectFails,
              SubscribeSucceeds, SubscribeFails, ConnectionLost, StreamLeft, ContextClosed,
              Finalize, ownership, evidence
<1>2. TypeInv /\ [Next]_vars => [Silent]_vars
  BY <1>1
<1>3. Spec => [][Silent]_vars
  BY <1>2, Invariance, PTL DEF Spec
<1> QED BY <1>3 DEF StaleRunnerIsSilent

OpenSessions == {g \in Gen : phase[g] \in InBroker}

\* A runner's step as the broker sees it.
LEMMA RunnerStepBroker ==
    ASSUME TypeInv, OwnInv, NEW g \in Gen, RunnerStep(g)
    PROVE  [Broker!Next]_<<OpenSessions, sessions>>
<1> USE DEF RunnerStep, RunnerBegins, RunnerNeverRuns, ConnectSucceeds, ConnectFails,
            SubscribeSucceeds, SubscribeFails, ConnectionLost, StreamLeft, ContextClosed
<1>1. /\ phase[g] \in Live
      /\ phase' = [phase EXCEPT ![g] = phase'[g]] /\ phase'[g] \in Phases
  <2>1. phase[g] \in Live
    BY DEF Live, Phases
  <2>2. phase' = [phase EXCEPT ![g] = phase'[g]]
    BY DEF Finalize, TypeInv, TypeOK
  <2>3. TypeOK'
    BY RunnerStepType DEF TypeInv
  <2> QED BY <2>1, <2>2, <2>3 DEF TypeOK
<1>2. /\ \A h \in Gen : h # g => phase[h] \notin Live /\ phase'[h] = phase[h]
      /\ \A h \in Gen : phase[h] # "none" => h <= g
  <2>1. \A h \in Gen : phase[h] \in Live => h = g
    BY <1>1 DEF OwnInv, OneLiveRunner
  <2> QED BY <1>1, <2>1 DEF OwnInv, LatestRunner, TypeInv, TypeOK
<1>3. InBroker \subseteq Live
  BY DEF InBroker, Live, Phases
<1>4. /\ OpenSessions = IF phase[g] \in InBroker THEN {g} ELSE {}
      /\ OpenSessions' = IF phase'[g] \in InBroker THEN {g} ELSE {}
  BY <1>2, <1>3 DEF OpenSessions
<1>5. CASE ConnectSucceeds(g)
  <2>1. phase[g] = "connecting" /\ phase'[g] \in InBroker /\ sessions' = sessions \cup {g}
    BY <1>5 DEF InBroker, TypeInv, TypeOK
  <2>2. OpenSessions = {} /\ OpenSessions' = {g}
    BY <1>4, <2>1 DEF InBroker
  <2>3. ASSUME NEW u \in sessions PROVE u < g
    <3>1. u \in Gen /\ phase[u] # "none" /\ u # g
      BY <2>1, <2>3 DEF TypeInv, TypeOK, OwnInv, SessionsOpened
    <3> QED BY <1>2, <3>1 DEF Gen
  <2>4. Broker!Open(g)
    BY <2>1, <2>2, <2>3 DEF Broker!Open, OpenSessions
  <2> QED BY <2>4 DEF Broker!Next
<1>6. CASE ~ConnectSucceeds(g)
  <2>1. UNCHANGED sessions
    BY <1>6 DEF history, Finalize
  <2>2. phase[g] \notin InBroker => phase'[g] \notin InBroker
    BY <1>6 DEF Finalize, InBroker, TypeInv, TypeOK
  <2>3. CASE phase[g] \in InBroker /\ phase'[g] \notin InBroker
    <3>1. OpenSessions # {} /\ OpenSessions' = {}
      BY <1>4, <2>3
    <3> QED BY <2>1, <3>1 DEF Broker!Next, Broker!Close, OpenSessions
  <2>4. CASE phase[g] \in InBroker /\ phase'[g] \in InBroker
    BY <1>4, <2>1, <2>4
  <2>5. CASE phase[g] \notin InBroker
    BY <1>4, <2>1, <2>2, <2>5
  <2> QED BY <2>3, <2>4, <2>5
<1> QED BY <1>5, <1>6

\* Every other step leaves the broker alone; creating a runner connects nothing.
LEMMA OtherStepBroker ==
    ASSUME TypeInv, OwnInv, [Next]_vars, \A g \in Gen : ~RunnerStep(g)
    PROVE  UNCHANGED <<OpenSessions, sessions>>
<1>1. UNCHANGED sessions
  BY DEF Next, Start, Stop, StopLocked, CallStep, CallAborts, StopTasksDone, StopTimesOut,
         StopReturns, StartGeneration, CreateRunner, LifecycleStep, LifecycleCancelled,
         LifecycleBegins, BirthReturns, BirthRaises, PublisherStep, PublishCalled,
         PublishWoken, PublishTimesOut, PublishSucceeds, PublishFails, vars, history
<1>2. InBroker \subseteq Live
  BY DEF InBroker, Live, Phases
<1>3. ASSUME NEW g \in Gen PROVE phase[g] \in InBroker <=> phase'[g] \in InBroker
  <2>1. CASE phase[g] \in Live
    BY <2>1, PhaseChange
  <2>2. CASE phase[g] \notin Live
    <3>1. CASE CreateRunner
      BY <1>2, <2>2, <3>1 DEF CreateRunner, TypeInv, TypeOK, InBroker
    <3>2. CASE ~CreateRunner
      <4>1. UNCHANGED phase
        BY <3>2
           DEF Next, Start, Stop, StopLocked, CallStep, CallAborts, StopTasksDone,
               StopTimesOut, StopReturns, StartGeneration, LifecycleStep, LifecycleCancelled,
               LifecycleBegins, BirthReturns, BirthRaises, PublisherStep, PublishCalled,
               PublishWoken, PublishTimesOut, PublishSucceeds, PublishFails, vars, tasks
      <4> QED BY <4>1
    <3> QED BY <3>1, <3>2
  <2> QED BY <2>1, <2>2
<1> QED BY <1>1, <1>3 DEF OpenSessions

\* The client is a correct single-session client: the broker sees one session at
\* a time, in the order of the generations.
THEOREM RefinesBrokerSession == Spec => ImplementsBrokerSession
<1>1. Init => Broker!Init
  BY DEF Init, Broker!Init, InBroker
<1>2. TypeInv /\ OwnInv /\ [Next]_vars => [Broker!Next]_<<OpenSessions, sessions>>
  BY RunnerStepBroker, OtherStepBroker
<1> QED BY <1>1, <1>2, Invariance, PTL DEF Spec, ImplementsBrokerSession, Broker!Spec, OpenSessions

=============================================================================
