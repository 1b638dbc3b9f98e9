------------------------ MODULE MqttReconnect_proofs ------------------------
(***************************************************************************)
(* Proofs about MqttReconnect, for any set of commands and credentials and *)
(* any durations: its types, and that the reconnect loop is throttled.     *)
(*                                                                         *)
(* The loop sleeps for a delay it computed once and then starts whatever   *)
(* the manager says by then.  What keeps its attempts apart is that the    *)
(* delay was no shorter than the rest of the throttle, and that the        *)
(* throttle never ran out before the loop's own last attempt was Throttle  *)
(* old: Spacing, carried through every step beside the types.              *)
(***************************************************************************)
EXTENDS MqttReconnect, TLAPS

\* Sessions are only opened with a credential.
Credentialed ==
    /\ Started => fingerprint \in Cred
    /\ \A t \in Tasks : task[t].at \in {"start", "ssl"} => task[t].cred \in Cred

\* Neither the throttle nor the loop's sleep ends before the loop's last
\* attempt is Throttle old.
Spacing ==
    /\ mgr.throttle + sinceLoop >= Throttle
    /\ task["loop"].at = "sleep" => sleep + sinceLoop >= Throttle

Inv == TypeOK /\ Credentialed /\ Spacing

\* What a step must do to the loop's timing to keep Spacing, and to be no
\* unthrottled attempt.
Timing ==
    /\ mgr'.throttle >= mgr.throttle \/ mgr'.throttle = Throttle
    /\ task'["loop"].at = "sleep" => \/ sleep' >= mgr.throttle
                                     \/ task["loop"].at = "sleep" /\ sleep' = sleep
NoAttempt == Timing /\ UNCHANGED sinceLoop /\ ~LoopAttempts

-----------------------------------------------------------------------------
(* The manager's operations.                                                *)

\* Every operation keeps the manager's type, and only an attempt touches the
\* throttle; the delay covers the throttle.
LEMMA ManagerOps ==
    ASSUME NEW m \in Manager, NEW step \in BackoffSteps, NEW c \in Cred \cup {NoCred},
           ReconnectAssumption
    PROVE  /\ RetryDelay(m) \in Nat /\ RetryDelay(m) >= m.throttle
           /\ Noted(m, step) \in Manager /\ Noted(m, step).throttle = m.throttle
           /\ Paused(m) \in Manager /\ Paused(m).throttle = m.throttle
           /\ Failed(m, step) \in Manager /\ Failed(m, step).throttle = m.throttle
           /\ Succeeded(m, c) \in Manager /\ Succeeded(m, c).throttle = m.throttle
           /\ Attempted(m) \in Manager /\ Attempted(m).throttle = Throttle
           /\ [m EXCEPT !.known = c] \in Manager /\ [m EXCEPT !.known = c].throttle = m.throttle
<1>1. step \in Nat /\ Throttle \in Nat /\ AuthPause \in Nat  BY DEF ReconnectAssumption
<1>2. RetryDelay(m) \in Nat /\ RetryDelay(m) >= m.throttle
  BY DEF RetryDelay, Larger, Manager
<1>3. Noted(m, step) \in Manager /\ Noted(m, step).throttle = m.throttle
  BY <1>1 DEF Noted, Manager
<1>4. Paused(m) \in Manager /\ Paused(m).throttle = m.throttle
  BY <1>1 DEF Paused, Manager
<1>5. Failed(m, step) \in Manager /\ Failed(m, step).throttle = m.throttle
  BY <1>3, <1>4 DEF Failed
<1>6. Succeeded(m, c) \in Manager /\ Succeeded(m, c).throttle = m.throttle
  BY DEF Succeeded, Manager
<1>7. Attempted(m) \in Manager /\ Attempted(m).throttle = Throttle
  BY <1>1 DEF Attempted, Manager
<1>8. [m EXCEPT !.known = c] \in Manager /\ [m EXCEPT !.known = c].throttle = m.throttle
  BY DEF Manager
<1> QED  BY <1>2, <1>3, <1>4, <1>5, <1>6, <1>7, <1>8

\* A healthy session's success is recorded without touching the throttle.
LEMMA RefreshedOps ==
    ASSUME TypeOK
    PROVE  Refreshed \in Manager /\ Refreshed.throttle = mgr.throttle
BY DEF TypeOK, Refreshed, Succeeded, Manager

\* The types of the records the steps put into task.
LEMMA TaskTypes ==
    ASSUME TypeOK, NEW t \in Tasks
    PROVE  /\ NoTask \in TaskRecord
           /\ Ended(task, t) \in [Tasks -> TaskRecord]
           /\ Ousted \in [Tasks -> TaskRecord]
           /\ \A at \in Stages : /\ [NoTask EXCEPT !.at = at] \in TaskRecord
                                 /\ [task[t] EXCEPT !.at = at] \in TaskRecord
<1>1. NoTask \in TaskRecord  BY DEF NoTask, TaskRecord, Stages
<1>2. \A at \in Stages : /\ [NoTask EXCEPT !.at = at] \in TaskRecord
                         /\ [task[t] EXCEPT !.at = at] \in TaskRecord
  BY <1>1 DEF TypeOK, TaskRecord
<1>3. Ended(task, t) \in [Tasks -> TaskRecord]  BY <1>1 DEF TypeOK, Ended
<1>4. Ousted \in [Tasks -> TaskRecord]
  BY DEF TypeOK, Ousted, TaskRecord, Stages
<1> QED  BY <1>1, <1>2, <1>3, <1>4

-----------------------------------------------------------------------------
(* The parts the actions are built from.                                    *)

\* Of the tasks other than t only those that wait or publish move, ousted.
Frame(t) ==
    \A u \in Tasks \ {t} :
        \/ task'[u].at = task[u].at /\ task'[u].cred = task[u].cred
        \/ task[u].at \in {"wait", "publish"} /\ task'[u].at \in {"ousted", "orphaned"}

\* The parts that end a call of _async_ensure_mqtt for task t.
Outcome(t) ==
    /\ mgr' \in Manager /\ sleep' \in Nat
    /\ task' \in [Tasks -> TaskRecord]
    /\ task'[t].at \notin {"due", "start", "ssl", "wait"}
    /\ Frame(t)
    /\ Timing

\* The loop's turn ends or begins anew with a sleep that covers the throttle.
LEMMA LoopGoesOnOutcome ==
    ASSUME TypeOK, ReconnectAssumption, NEW m \in Manager, m.throttle >= mgr.throttle,
           NEW raised \in BOOLEAN, NEW up \in BOOLEAN, LoopGoesOn(m, raised, up)
    PROVE  Outcome("loop")
<1> "loop" \in Tasks  BY DEF Tasks
<1>1. PICK step \in BackoffSteps, again \in BackoffSteps :
        LET m1 == IF raised /\ RetryDelay(m) = 0 THEN Failed(m, step) ELSE m
            m2 == IF RetryDelay(m1) = 0 THEN Noted(m1, again) ELSE m1
        IN /\ mgr' = m2
           /\ IF up
              THEN task' = Ended(task, "loop") /\ UNCHANGED sleep
              ELSE /\ task' = [task EXCEPT !["loop"] = [NoTask EXCEPT !.at = "sleep"]]
                   /\ sleep' = RetryDelay(m2)
  BY DEF LoopGoesOn
<1> DEFINE m1 == IF raised /\ RetryDelay(m) = 0 THEN Failed(m, step) ELSE m
           m2 == IF RetryDelay(m1) = 0 THEN Noted(m1, again) ELSE m1
<1>2. m1 \in Manager /\ m1.throttle = m.throttle  BY ManagerOps
<1>3. m2 \in Manager /\ m2.throttle = m.throttle  BY <1>2, ManagerOps
<1>4. RetryDelay(m2) \in Nat /\ RetryDelay(m2) >= m2.throttle
  <2> HIDE DEF m2
  <2> QED  BY <1>3, ManagerOps
<1>5. /\ mgr' = m2
      /\ \/ task' = Ended(task, "loop") /\ UNCHANGED sleep
         \/ /\ task' = [task EXCEPT !["loop"] = [NoTask EXCEPT !.at = "sleep"]]
            /\ sleep' = RetryDelay(m2)
  BY <1>1
<1> HIDE DEF m1, m2
<1>6. mgr.throttle \in Nat /\ m.throttle \in Nat  BY DEF TypeOK, Manager
<1>7. CASE task' = Ended(task, "loop") /\ UNCHANGED sleep
  <2>1. task'["loop"] = NoTask /\ \A u \in Tasks \ {"loop"} : task'[u] = task[u]
    BY <1>7 DEF Ended, TypeOK
  <2>2. Timing  BY <2>1, <1>3, <1>5 DEF Timing, NoTask
  <2> QED  BY <1>3, <1>5, <1>7, <2>1, <2>2, TaskTypes DEF Outcome, Frame, NoTask, TypeOK
<1>8. CASE /\ task' = [task EXCEPT !["loop"] = [NoTask EXCEPT !.at = "sleep"]]
           /\ sleep' = RetryDelay(m2)
  <2>1. [NoTask EXCEPT !.at = "sleep"] \in TaskRecord  BY TaskTypes DEF Stages
  <2>2. /\ task' \in [Tasks -> TaskRecord]
        /\ task'["loop"] = [NoTask EXCEPT !.at = "sleep"]
        /\ \A u \in Tasks \ {"loop"} : task'[u] = task[u]
    BY <1>8, <2>1 DEF TypeOK
  <2>3. task'["loop"].at = "sleep"  BY <2>2 DEF NoTask
  <2>4. Timing  BY <1>3, <1>4, <1>5, <1>6, <1>8 DEF Timing
  <2> QED  BY <1>3, <1>4, <1>5, <1>8, <2>2, <2>3, <2>4 DEF Outcome, Frame
<1> QED  BY <1>5, <1>7, <1>8

\* An exception ends the call, for the loop with another sleep.
LEMMA RaisesOutcome ==
    ASSUME TypeOK, ReconnectAssumption, NEW t \in Tasks, NEW m \in Manager,
           m.throttle = mgr.throttle, Raises(t, m)
    PROVE  Outcome(t)
<1>0. m.throttle >= mgr.throttle  BY DEF TypeOK, Manager
<1>1. CASE t = "loop"
  BY <1>0, <1>1, LoopGoesOnOutcome DEF Raises
<1>2. CASE t # "loop"
  <2>1. mgr' = m /\ task' = Ended(task, t) /\ sleep' = sleep  BY <1>2 DEF Raises
  <2>2. task'[t] = NoTask /\ \A u \in Tasks \ {t} : task'[u] = task[u]
    BY <2>1 DEF Ended, TypeOK
  <2>3. task'["loop"] = task["loop"]  BY <1>2, <2>2 DEF Tasks
  <2>4. Timing  BY <1>0, <2>1, <2>3 DEF Timing
  <2> QED  BY <2>1, <2>2, <2>4, TaskTypes DEF Outcome, Frame, NoTask, TypeOK
<1> QED  BY <1>1, <1>2

\* A connection ends the loop, and takes a command to its publish.
LEMMA ConnectedOutcome ==
    ASSUME TypeOK, ReconnectAssumption, NEW t \in Tasks, NEW m \in Manager,
           m.throttle = mgr.throttle, Connected(t, m)
    PROVE  Outcome(t)
<1>0. m.throttle >= mgr.throttle  BY DEF TypeOK, Manager
<1>1. CASE t = "loop"
  BY <1>0, <1>1, LoopGoesOnOutcome DEF Connected
<1>2. CASE t # "loop"
  <2> DEFINE r == [task[t] EXCEPT !.at = "publish",
                                  !.turn = IF @ = "pre" THEN "first" ELSE "second"]
  <2>1. mgr' = m /\ sleep' = sleep  BY <1>2 DEF Connected
  <2>2. task' = [task EXCEPT ![t] = r]
    BY <1>2 DEF Connected, TypeOK, TaskRecord
  <2>3. r \in TaskRecord /\ r.at = "publish"  BY DEF TypeOK, TaskRecord, Stages
  <2>4. task'[t] = r /\ \A u \in Tasks \ {t} : task'[u] = task[u]
    BY <2>2 DEF TypeOK
  <2>5. task' \in [Tasks -> TaskRecord]  BY <2>2, <2>3 DEF TypeOK
  <2>6. task'["loop"] = task["loop"]  BY <1>2, <2>4 DEF Tasks
  <2>7. Timing  BY <1>0, <2>1, <2>6 DEF Timing
  <2> QED  BY <2>1, <2>3, <2>4, <2>5, <2>7 DEF Outcome, Frame, TypeOK
<1> QED  BY <1>1, <1>2

\* A call of async_start waits for the lock; with it, it keeps the session, or
\* stops it and goes on to the TLS context.
Entered(t, call) ==
    /\ client' \in {"down", client}
    /\ fingerprint' \in {NoCred, fingerprint} /\ (client' = "down" \/ fingerprint' = fingerprint)
    /\ lastError' \in {"none", lastError} /\ rejected' = rejected
    /\ born' \in BOOLEAN /\ lost' \in BOOLEAN
    /\ task' \in [Tasks -> TaskRecord]
    /\ task'[t].at \in {"none", "start", "ssl", "wait"}
    /\ task'[t].at \in {"start", "ssl"} => task'[t].cred = call.cred
    /\ Frame(t)

LEMMA AsyncStartOutcome ==
    ASSUME TypeOK, ReconnectAssumption, NEW t \in Tasks, NEW call \in TaskRecord,
           NEW m \in Manager, AsyncStart(t, call, m)
    PROVE  /\ Entered(t, call)
           /\ mgr' \in Manager /\ mgr'.throttle = m.throttle
<1>1. Ousted \in [Tasks -> TaskRecord]  BY TaskTypes
<1>2. [call EXCEPT !.at = "wait"] \in TaskRecord /\ [call EXCEPT !.at = "ssl"] \in TaskRecord
  BY DEF TaskRecord, Stages
<1>3. CASE Started /\ fingerprint = call.cred
  <2>1. UNCHANGED <<session, callbacks>>  BY <1>3 DEF AsyncStart
  <2>2. mgr' = m \/ mgr' = Succeeded(m, call.cred)  BY <1>3 DEF AsyncStart
  <2>3. mgr' \in Manager /\ mgr'.throttle = m.throttle
    <3>1. call.cred \in Cred \cup {NoCred}  BY DEF TaskRecord
    <3>2. Succeeded(m, call.cred) \in Manager /\ Succeeded(m, call.cred).throttle = m.throttle
      <4>1. PICK step \in BackoffSteps : TRUE  BY DEF ReconnectAssumption
      <4> QED  BY <3>1, ManagerOps
    <3> QED  BY <2>2, <3>2
  <2>4. \/ task' = [task EXCEPT ![t] = [call EXCEPT !.at = "wait"]]
        \/ task' = Ended(task, t)
    BY <1>3 DEF AsyncStart
  <2>5. /\ task' \in [Tasks -> TaskRecord] /\ task'[t].at \in {"none", "wait"}
        /\ \A u \in Tasks \ {t} : task'[u] = task[u]
    BY <1>2, <2>4, TaskTypes DEF TypeOK, Ended, NoTask, TaskRecord
  <2> QED  BY <2>1, <2>3, <2>5 DEF Entered, Frame, TypeOK, session, callbacks
<1>4. CASE ~(Started /\ fingerprint = call.cred)
  <2>1. StopsSession /\ lastError' = "none" /\ mgr' = m /\ task' = [Ousted EXCEPT ![t] = [call EXCEPT !.at = "ssl"]]
    BY <1>4 DEF AsyncStart
  <2>2. /\ task' \in [Tasks -> TaskRecord]
        /\ task'[t] = [call EXCEPT !.at = "ssl"]
        /\ \A u \in Tasks \ {t} : task'[u] = Ousted[u]
    BY <1>1, <1>2, <2>1
  <2>3. task'[t].at = "ssl" /\ task'[t].cred = call.cred  BY <2>2 DEF TaskRecord
  <2>4. Frame(t)  BY <2>2 DEF Frame, Ousted, TypeOK, TaskRecord
  <2> QED  BY <2>1, <2>2, <2>3, <2>4 DEF Entered, StopsSession, TypeOK
<1> QED  BY <1>3, <1>4

-----------------------------------------------------------------------------
(* What the parts mean for the invariant.                                   *)

\* What every step must show: the invariant holds after it, and an attempt of
\* the loop was not too early.
Good == Inv' /\ (LoopAttempts => sinceLoop = Throttle)

Others ==
    /\ api' \in Cred \cup {NoCred} /\ saved' \in Cred \cup {NoCred}
    /\ cycle' \in {"idle", "http"} /\ refused' \subseteq Cred

\* A step that is no attempt of the loop.
LEMMA QuietGood ==
    ASSUME Inv, ReconnectAssumption, TypeOK', Credentialed', NoAttempt
    PROVE  Good
<1>1. /\ mgr.throttle \in Nat /\ mgr'.throttle \in Nat /\ sleep \in Nat /\ sleep' \in Nat
      /\ sinceLoop \in Nat /\ Throttle \in Nat
  BY DEF Inv, TypeOK, Manager, ReconnectAssumption
<1>2. mgr'.throttle + sinceLoop' >= Throttle
  BY <1>1 DEF Inv, Spacing, NoAttempt, Timing
<1>3. ASSUME task'["loop"].at = "sleep" PROVE sleep' + sinceLoop' >= Throttle
  BY <1>1, <1>3 DEF Inv, Spacing, NoAttempt, Timing
<1>4. Spacing'  BY <1>2, <1>3 DEF Spacing
<1> QED  BY <1>4 DEF Good, Inv, NoAttempt

\* A call of _async_ensure_mqtt that ends, its session as it was.
LEMMA OutcomeGood ==
    ASSUME Inv, ReconnectAssumption, NEW t \in Tasks, Outcome(t), Others,
           UNCHANGED <<session, callbacks, sinceLoop>>
    PROVE  Good
<1>1. TypeOK'  BY DEF Inv, TypeOK, Outcome, Others, session, callbacks
<1>2. Credentialed'
  <2>1. Started' => fingerprint' \in Cred
    BY DEF Inv, Credentialed, Started, Down, session
  <2>2. ASSUME NEW u \in Tasks, task'[u].at \in {"start", "ssl"} PROVE task'[u].cred \in Cred
    <3>1. u # t  BY <2>2 DEF Outcome
    <3>2. task'[u].at = task[u].at /\ task'[u].cred = task[u].cred
      BY <2>2, <3>1 DEF Outcome, Frame
    <3> QED  BY <2>2, <3>2 DEF Inv, Credentialed
  <2> QED  BY <2>1, <2>2 DEF Credentialed
<1>3. ~LoopAttempts
  <2>1. CASE t = "loop"  BY <2>1 DEF Outcome, LoopAttempts
  <2>2. CASE t # "loop"
    BY <2>2 DEF Outcome, Frame, LoopAttempts, Tasks
  <2> QED  BY <2>1, <2>2
<1>4. NoAttempt  BY <1>3 DEF NoAttempt, Outcome
<1> QED  BY <1>1, <1>2, <1>4, QuietGood

\* A call of async_start: the loop's is an attempt when it was not waiting for
\* the lock, and then the throttle starts anew.
LEMMA EnteredGood ==
    ASSUME Inv, ReconnectAssumption, NEW t \in Tasks, NEW call \in TaskRecord, call.cred \in Cred,
           Entered(t, call), Others, sleep' = sleep, mgr' \in Manager,
           mgr'.throttle = mgr.throttle \/ mgr'.throttle = Throttle,
           \/ UNCHANGED sinceLoop /\ (t # "loop" \/ task[t].at = "start")
           \/ t = "loop" /\ sinceLoop = Throttle /\ sinceLoop' = 0 /\ mgr'.throttle = Throttle
    PROVE  Good
<1>1. /\ mgr.throttle \in Nat /\ Throttle \in Nat /\ sinceLoop \in 0..Throttle
      /\ sinceLoop' \in 0..Throttle
  BY DEF Inv, TypeOK, Manager, ReconnectAssumption
<1>2. TypeOK'
  BY <1>1 DEF Inv, TypeOK, Entered, Others, Errors
<1>3. Credentialed'
  <2>1. Started' => fingerprint' \in Cred
    BY DEF Inv, Credentialed, Started, Down, Entered
  <2>2. ASSUME NEW u \in Tasks, task'[u].at \in {"start", "ssl"} PROVE task'[u].cred \in Cred
    <3>1. CASE u = t  BY <2>2, <3>1 DEF Entered
    <3>2. CASE u # t
      <4>1. task'[u].at = task[u].at /\ task'[u].cred = task[u].cred
        BY <2>2, <3>2 DEF Entered, Frame
      <4> QED  BY <2>2, <4>1 DEF Inv, Credentialed
    <3> QED  BY <3>1, <3>2
  <2> QED  BY <2>1, <2>2 DEF Credentialed
<1>4. CASE UNCHANGED sinceLoop /\ (t # "loop" \/ task[t].at = "start")
  <2>1. ~LoopAttempts
    BY <1>4 DEF Entered, Frame, LoopAttempts, Tasks
  <2>2. task'["loop"].at = "sleep" => task["loop"].at = "sleep"
    BY <1>4 DEF Entered, Frame, Tasks
  <2>3. Timing  BY <1>1, <2>2 DEF Timing
  <2> QED  BY <1>2, <1>3, <1>4, <2>1, <2>3, QuietGood DEF NoAttempt
<1>5. CASE t = "loop" /\ sinceLoop = Throttle /\ sinceLoop' = 0 /\ mgr'.throttle = Throttle
  <2>1. task'["loop"].at # "sleep"  BY <1>5 DEF Entered
  <2>2. Spacing'  BY <1>1, <1>5, <2>1 DEF Spacing
  <2> QED  BY <1>2, <1>3, <1>5, <2>2 DEF Good, Inv
<1> QED  BY <1>4, <1>5


\* A call of _async_ensure_mqtt that gets past should_skip_reconnect.
LEMMA ForcedGood ==
    ASSUME Inv, ReconnectAssumption, NEW t \in Tasks, NEW turn \in {"none", "pre"},
           Attempts(t, turn) \/ Defers(t), saved' \in Cred \cup {NoCred},
           t = "loop" => task[t].at \in {"due", "sleep"} /\ sinceLoop = Throttle
    PROVE  Good
<1>1. Refreshed \in Manager /\ Refreshed.throttle = mgr.throttle
  BY RefreshedOps DEF Inv
<1> PICK step \in BackoffSteps : TRUE  BY DEF ReconnectAssumption
<1>2. CASE Attempts(t, turn)
  <2> DEFINE called == [at |-> "start", cred |-> api, turn |-> turn]
  <2>1. api \in Cred /\ called \in TaskRecord /\ called.cred \in Cred
    BY <1>2 DEF Attempts, HasCredential, Inv, TypeOK, TaskRecord, Stages
  <2>2. Attempted(Refreshed) \in Manager /\ Attempted(Refreshed).throttle = Throttle
    BY <1>1, ManagerOps
  <2>3. Others  BY <1>2 DEF Attempts, Others, Inv, TypeOK
  <2>4. Entered(t, called) /\ mgr' \in Manager /\ mgr'.throttle = Throttle
    <3>1. CASE LockIdle
      <4>1. AsyncStart(t, called, Attempted(Refreshed))  BY <1>2, <3>1 DEF Attempts
      <4> HIDE DEF called
      <4> QED  BY <2>1, <2>2, <4>1, AsyncStartOutcome DEF Inv
    <3>2. CASE ~LockIdle
      <4>1. /\ task' = [task EXCEPT ![t] = called] /\ mgr' = Attempted(Refreshed)
            /\ UNCHANGED <<session, callbacks>>
        BY <1>2, <3>2 DEF Attempts
      <4>2. /\ task' \in [Tasks -> TaskRecord] /\ task'[t] = called
            /\ \A u \in Tasks \ {t} : task'[u] = task[u]
        BY <2>1, <4>1 DEF Inv, TypeOK
      <4> QED  BY <2>2, <4>1, <4>2 DEF Entered, Frame, Inv, TypeOK, session, callbacks
    <3> QED  BY <3>1, <3>2
  <2>5. sleep' = sleep /\ sinceLoop' = IF t = "loop" THEN 0 ELSE sinceLoop
    BY <1>2 DEF Attempts
  <2> HIDE DEF called
  <2> QED  BY <2>1, <2>3, <2>4, <2>5, EnteredGood
<1>3. CASE Defers(t)
  <2>1. UNCHANGED <<session, callbacks, sinceLoop>>  BY <1>3 DEF Defers, history
  <2>2. Others  BY <1>3 DEF Defers, Others, history, Inv, TypeOK
  <2>3. Outcome(t)
    <3>1. CASE t = "loop"
      <4>1. Refreshed.throttle >= mgr.throttle  BY <1>1 DEF Manager
      <4>2. LoopGoesOn(Refreshed, FALSE, Up)  BY <1>3, <3>1 DEF Defers
      <4>3. Up \in BOOLEAN  BY DEF Up
      <4> QED  BY <1>1, <3>1, <4>1, <4>2, <4>3, LoopGoesOnOutcome DEF Inv
    <3>2. CASE t # "loop"
      <4>1. Raises(t, Refreshed)  BY <1>3, <3>2 DEF Defers, Raises
      <4> QED  BY <1>1, <4>1, RaisesOutcome DEF Inv
    <3> QED  BY <3>1, <3>2
  <2> QED  BY <2>1, <2>2, <2>3, OutcomeGood
<1> QED  BY <1>2, <1>3

\* A step of other tasks than the loop that starts nothing: the tasks that
\* move end, wait for nothing, or become due.
LEMMA AsideGood ==
    ASSUME Inv, ReconnectAssumption, Others, mgr' \in Manager,
           mgr'.throttle = mgr.throttle \/ mgr'.throttle = Throttle,
           UNCHANGED <<sleep, sinceLoop>>,
           task' \in [Tasks -> TaskRecord],
           \A t \in Tasks : task'[t].at \in {"start", "ssl"} => task'[t].cred \in Cred,
           task'["loop"].at # task["loop"].at =>
               task'["loop"].at \in {"none", "due", "publish", "ousted", "orphaned", "stop"},
           client' \in {"down", "opening", "up", "cut"},
           fingerprint' \in Cred \cup {NoCred}, Started' => fingerprint' \in Cred,
           lastError' \in Errors, rejected' \in BOOLEAN, born' \in BOOLEAN, lost' \in BOOLEAN
    PROVE  Good
<1>1. mgr.throttle \in Nat  BY DEF Inv, TypeOK, Manager
<1>2. TypeOK'  BY DEF Inv, TypeOK, Others
<1>3. Credentialed'  BY DEF Credentialed
<1>4. Timing  BY <1>1 DEF Timing
<1>5. ~LoopAttempts  BY DEF LoopAttempts
<1> QED  BY <1>2, <1>3, <1>4, <1>5, QuietGood DEF NoAttempt

-----------------------------------------------------------------------------
(* The steps of the specification.                                          *)

LEMMA InitInv == ASSUME ReconnectAssumption, Init  PROVE Inv
<1> "loop" \in Tasks  BY DEF Tasks
<1>1. NoTask \in TaskRecord  BY DEF NoTask, TaskRecord, Stages
<1>2. mgr \in Manager /\ mgr.throttle = Throttle  BY DEF Init, Manager, ReconnectAssumption
<1>3. TypeOK
  <2>1. task \in [Tasks -> TaskRecord]  BY <1>1 DEF Init
  <2>2. sinceLoop \in 0..Throttle /\ sleep \in Nat  BY DEF Init, ReconnectAssumption
  <2>3. fingerprint \in Cred \cup {NoCred} /\ saved \in Cred \cup {NoCred}  BY DEF Init
  <2> QED  BY <1>2, <2>1, <2>2, <2>3 DEF Init, TypeOK, Errors
<1>4. Credentialed  BY DEF Init, Credentialed, NoTask, Started, Down
<1>5. Spacing  BY <1>2 DEF Init, Spacing, NoTask, ReconnectAssumption
<1> QED  BY <1>3, <1>4, <1>5 DEF Inv

\* What the client and its callbacks do by themselves.
LEMMA SessionSteps ==
    ASSUME Inv, ReconnectAssumption, Connects \/ Ends \/ ConnectedRuns \/ DisconnectRuns
    PROVE  Good
<1> USE DEF Inv, TypeOK, Others, login, history
<1> PICK step \in BackoffSteps : TRUE  BY DEF ReconnectAssumption
<1>1. \A t \in Tasks : task[t].at \in {"start", "ssl"} => task[t].cred \in Cred
  BY DEF Credentialed
<1>2. Started => fingerprint \in Cred  BY DEF Credentialed
<1>3. CASE Connects
  BY <1>1, <1>2, <1>3, AsideGood DEF Connects, Started, Down, Errors
<1>4. CASE Ends
  <2>1. fingerprint \in Cred  BY <1>2, <1>4 DEF Ends
  <2>2. lastError' \in Errors /\ rejected' \in BOOLEAN /\ refused' \subseteq Cred
    BY <1>4, <2>1 DEF Ends, Errors
  <2> QED  BY <1>1, <1>4, <2>1, <2>2, AsideGood DEF Ends
<1>5. CASE ConnectedRuns
  <2>1. mgr' \in Manager /\ mgr'.throttle = mgr.throttle
    BY <1>5, ManagerOps DEF ConnectedRuns
  <2> QED  BY <1>1, <1>2, <1>5, <2>1, AsideGood DEF ConnectedRuns, session, Started, Down
<1>6. CASE DisconnectRuns
  <2>1. mgr' \in Manager /\ mgr'.throttle = mgr.throttle
    <3>1. PICK any \in BackoffSteps : mgr' = mgr \/ mgr' = Failed(mgr, any)
      BY <1>6 DEF DisconnectRuns
    <3>2. mgr \in Manager /\ NoCred \in Cred \cup {NoCred}  OBVIOUS
    <3>3. Failed(mgr, any) \in Manager /\ Failed(mgr, any).throttle = mgr.throttle
      BY <3>2, ManagerOps
    <3> QED  BY <3>1, <3>2, <3>3
  <2> DEFINE due == [task["loop"] EXCEPT !.at = "due"]
  <2>2. "loop" \in Tasks /\ due \in TaskRecord /\ due.at = "due"
    BY DEF Tasks, TaskRecord, Stages
  <2>3. /\ task' \in [Tasks -> TaskRecord]
        /\ \A u \in Tasks \ {"loop"} : task'[u] = task[u]
        /\ task'["loop"] = task["loop"] \/ task'["loop"] = due
    BY <1>6, <2>2 DEF DisconnectRuns
  <2>4. \A t \in Tasks : task'[t].at \in {"start", "ssl"} => task'[t].cred \in Cred
    BY <1>1, <2>2, <2>3
  <2>5. task'["loop"].at # task["loop"].at => task'["loop"].at = "due"
    BY <2>2, <2>3
  <2> QED
    BY <1>2, <1>6, <2>1, <2>3, <2>4, <2>5, AsideGood DEF DisconnectRuns, session, Started, Down
<1> QED  BY <1>3, <1>4, <1>5, <1>6

\* The passive ensure and the reconnect loop.
LEMMA EnsureSteps ==
    ASSUME Inv, ReconnectAssumption, PassiveRuns \/ LoopBegins \/ LoopWakes
    PROVE  Good
<1> "loop" \in Tasks /\ "passive" \in Tasks  BY DEF Tasks
<1> USE DEF Inv
<1>0. saved \in Cred \cup {NoCred}  BY DEF TypeOK
<1>1. /\ mgr \in Manager /\ mgr.throttle \in Nat /\ mgr.pause \in Nat /\ mgr.backoff \in Nat
      /\ sinceLoop \in 0..Throttle /\ Throttle \in Nat /\ sleep \in Nat
  BY DEF TypeOK, Manager, ReconnectAssumption
<1>2. CASE PassiveRuns
  <2>1. CASE Skips
    <3>1. /\ mgr' = Refreshed /\ task' = Ended(task, "passive")
          /\ UNCHANGED <<session, callbacks, login, sleep, history>>
      BY <1>2, <2>1 DEF PassiveRuns
    <3>2. Raises("passive", Refreshed)  BY <3>1 DEF Raises
    <3>3. Outcome("passive")  BY <3>2, RefreshedOps, RaisesOutcome
    <3> QED  BY <3>1, <3>3, OutcomeGood DEF Others, TypeOK, login, history
  <2>2. CASE ~Skips
    <3>1. (Attempts("passive", "none") \/ Defers("passive")) /\ UNCHANGED saved
      BY <1>2, <2>2 DEF PassiveRuns, Forced
    <3> QED  BY <1>0, <3>1, ForcedGood
  <2> QED  BY <2>1, <2>2
<1>3. CASE LoopBegins
  <2>1. CASE /\ Up /\ task' = Ended(task, "loop")
             /\ UNCHANGED <<session, callbacks, mgr, login, sleep, history>>
    <3>1. /\ task' \in [Tasks -> TaskRecord] /\ task'["loop"] = NoTask
          /\ \A u \in Tasks \ {"loop"} : task'[u] = task[u]
      BY <2>1, TaskTypes DEF Ended, TypeOK
    <3>2. Outcome("loop")
      BY <1>1, <2>1, <3>1 DEF Outcome, Frame, Timing, NoTask
    <3> QED  BY <2>1, <3>2, OutcomeGood DEF Others, TypeOK, login, history
  <2>2. CASE /\ task' = [task EXCEPT !["loop"].at = "sleep"]
             /\ sleep' = RetryDelay(mgr)
             /\ UNCHANGED <<session, callbacks, mgr, login, history>>
    <3> DEFINE r == [task["loop"] EXCEPT !.at = "sleep"]
    <3>1. r \in TaskRecord /\ r.at = "sleep"  BY DEF TypeOK, TaskRecord, Stages
    <3>2. /\ task' \in [Tasks -> TaskRecord] /\ task'["loop"] = r
          /\ \A u \in Tasks \ {"loop"} : task'[u] = task[u]
      BY <2>2, <3>1 DEF TypeOK
    <3>3. sleep' \in Nat /\ sleep' >= mgr.throttle
      BY <1>1, <2>2 DEF RetryDelay, Larger
    <3>4. Timing  BY <1>1, <2>2, <3>3 DEF Timing
    <3>5. Outcome("loop")
      BY <1>1, <2>2, <3>1, <3>2, <3>3, <3>4 DEF Outcome, Frame
    <3> QED  BY <2>2, <3>5, OutcomeGood DEF Others, TypeOK, login, history
  <2>3. CASE ~Up /\ RetryDelay(mgr) = 0 /\ Forced("loop") /\ UNCHANGED saved
    <3>1. sinceLoop = Throttle
      BY <1>1, <2>3 DEF RetryDelay, Larger, Spacing
    <3>2. task["loop"].at = "due"  BY <1>3 DEF LoopBegins
    <3> QED  BY <1>0, <2>3, <3>1, <3>2, ForcedGood DEF Forced
  <2> QED  BY <1>3, <2>1, <2>2, <2>3 DEF LoopBegins
<1>4. CASE LoopWakes
  <2>1. sinceLoop = Throttle  BY <1>1, <1>4 DEF LoopWakes, Spacing
  <2> QED  BY <1>0, <1>4, <2>1, ForcedGood DEF LoopWakes, Forced
<1> QED  BY <1>2, <1>3, <1>4

\* async_start and the wait for the connection.
LEMMA StartSteps ==
    ASSUME Inv, ReconnectAssumption, NEW t \in Tasks, StartStep(t)
    PROVE  Good
<1>0. TypeOK /\ mgr \in Manager  BY DEF Inv, TypeOK
<1> PICK step \in BackoffSteps : TRUE  BY DEF ReconnectAssumption
<1>1. task[t] \in TaskRecord /\ task[t].cred \in Cred \cup {NoCred}
  BY DEF Inv, TypeOK, TaskRecord
<1>2. CASE LockTaken(t)
  <2>1. /\ task[t].at = "start" /\ AsyncStart(t, task[t], mgr)
        /\ UNCHANGED <<login, sleep, history>>
    BY <1>2 DEF LockTaken
  <2>2. task[t].cred \in Cred  BY <2>1 DEF Inv, Credentialed
  <2>3. Entered(t, task[t]) /\ mgr' \in Manager /\ mgr'.throttle = mgr.throttle
    BY <1>0, <1>1, <2>1, AsyncStartOutcome
  <2>4. Others  BY <2>1 DEF Others, Inv, TypeOK, login, history
  <2>5. sleep' = sleep /\ sinceLoop' = sinceLoop  BY <2>1 DEF history
  <2> QED  BY <1>1, <2>1, <2>2, <2>3, <2>4, <2>5, EnteredGood
<1>3. CASE Opens(t)
  <2>1. task[t].at = "ssl" /\ task[t].cred \in Cred
    BY <1>3 DEF Opens, Inv, Credentialed
  <2> DEFINE r == [task[t] EXCEPT !.at = "wait"]
  <2>2. r \in TaskRecord /\ r.at = "wait"  BY <1>1 DEF TaskRecord, Stages
  <2>3. /\ task' \in [Tasks -> TaskRecord] /\ (task'[t] = r \/ task'[t] = NoTask)
        /\ \A u \in Tasks \ {t} : task'[u] = task[u]
    <3>1. CASE task' = [task EXCEPT ![t].at = "wait"]
      <4>1. task' = [task EXCEPT ![t] = r]  BY <3>1
      <4> QED  BY <2>2, <4>1 DEF Inv, TypeOK
    <3>2. CASE task' = Ended(task, t)
      BY <1>0, <3>2, TaskTypes DEF Ended, TypeOK
    <3> QED  BY <1>3, <3>1, <3>2 DEF Opens
  <2>10. task'[t].at \in {"wait", "none"}
    <3> HIDE DEF r
    <3> QED  BY <2>2, <2>3 DEF NoTask
  <2>4. ASSUME NEW u \in Tasks, task'[u].at \in {"start", "ssl"} PROVE task'[u].cred \in Cred
    <3>1. u # t  BY <2>4, <2>10
    <3> QED  BY <2>3, <2>4, <3>1 DEF Inv, Credentialed
  <2>5. TypeOK'
    BY <1>3, <2>1, <2>3 DEF Opens, Inv, TypeOK, Errors, callbacks, login, history
  <2>6. Credentialed'  BY <1>3, <2>1, <2>4 DEF Opens, Credentialed
  <2>7. task'["loop"].at = task["loop"].at \/ task["loop"].at = "ssl"
    BY <2>1, <2>3 DEF Tasks
  <2>8. task'["loop"].at = "sleep" => task["loop"].at = "sleep"
    BY <2>3, <2>10 DEF Tasks
  <2>9. NoAttempt
    <3>1. mgr.throttle \in Nat  BY <1>0 DEF Manager
    <3>2. sleep' = sleep /\ mgr' = mgr /\ sinceLoop' = sinceLoop  BY <1>3 DEF Opens, history
    <3> QED  BY <2>7, <2>8, <3>1, <3>2 DEF NoAttempt, Timing, LoopAttempts
  <2> QED  BY <2>5, <2>6, <2>9, QuietGood
<1>4. CASE StartFails(t)
  <2>1. Raises(t, mgr) /\ UNCHANGED <<session, callbacks, login, history>>
    BY <1>4 DEF StartFails
  <2>2. Outcome(t)  BY <1>0, <2>1, RaisesOutcome
  <2> QED  BY <2>1, <2>2, OutcomeGood DEF Others, Inv, TypeOK, login, history
<1>5. CASE WaitSucceeds(t)
  <2> DEFINE m == Succeeded(mgr, task[t].cred)
  <2>1. Connected(t, m) /\ UNCHANGED <<session, callbacks, login, history>>
    BY <1>5 DEF WaitSucceeds
  <2>2. m \in Manager /\ m.throttle = mgr.throttle  BY <1>0, <1>1, ManagerOps
  <2> HIDE DEF m
  <2>3. Outcome(t)  BY <1>0, <2>1, <2>2, ConnectedOutcome
  <2> QED  BY <2>1, <2>3, OutcomeGood DEF Others, Inv, TypeOK, login, history
<1>6. CASE WaitFails(t)
  <2>1. UNCHANGED <<session, callbacks, saved, cycle, history>>  BY <1>6 DEF WaitFails
  <2>2. CASE lastError = "auth"
    <3> DEFINE m0 == [mgr EXCEPT !.known = NoCred]
    <3>1. api' = NoCred /\ Raises(t, Paused(m0))  BY <1>6, <2>2 DEF WaitFails
    <3>2. m0 \in Manager /\ m0.throttle = mgr.throttle  BY <1>0, ManagerOps
    <3> HIDE DEF m0
    <3>3. NoCred \in Cred \cup {NoCred}  OBVIOUS
    <3>4. Paused(m0) \in Manager /\ Paused(m0).throttle = mgr.throttle
      BY <3>2, <3>3, ManagerOps
    <3>5. Outcome(t)  BY <1>0, <3>1, <3>4, RaisesOutcome
    <3> QED  BY <2>1, <3>1, <3>5, OutcomeGood DEF Others, Inv, TypeOK, history
  <2>3. CASE lastError # "auth"
    <3>1. PICK any \in BackoffSteps : Raises(t, Noted(mgr, any))
      BY <1>6, <2>3 DEF WaitFails
    <3>2. NoCred \in Cred \cup {NoCred}  OBVIOUS
    <3>3. Noted(mgr, any) \in Manager /\ Noted(mgr, any).throttle = mgr.throttle
      BY <1>0, <3>2, ManagerOps
    <3>4. Outcome(t)  BY <1>0, <3>1, <3>3, RaisesOutcome
    <3>5. api' = api  BY <1>6, <2>3 DEF WaitFails
    <3> QED  BY <2>1, <3>4, <3>5, OutcomeGood DEF Others, Inv, TypeOK, history
  <2> QED  BY <2>2, <2>3
<1> QED  BY <1>2, <1>3, <1>4, <1>5, <1>6 DEF StartStep

\* One other task than the loop moves, and starts nothing.
LEMMA OneTaskGood ==
    ASSUME Inv, ReconnectAssumption, Others, NEW t \in Tasks \ {"loop"}, NEW r \in TaskRecord,
           r.at \notin {"start", "ssl"}, task' = [task EXCEPT ![t] = r],
           UNCHANGED <<fingerprint, rejected, callbacks, mgr, sleep, sinceLoop>>,
           client' \in {"cut", client}, client' = client \/ Started, lastError' \in Errors
    PROVE  Good
<1>1. /\ task' \in [Tasks -> TaskRecord] /\ task'[t] = r
      /\ \A u \in Tasks \ {t} : task'[u] = task[u]
  BY DEF Inv, TypeOK
<1>2. \A u \in Tasks : task'[u].at \in {"start", "ssl"} => task'[u].cred \in Cred
  BY <1>1 DEF Inv, Credentialed
<1>3. task'["loop"] = task["loop"]  BY <1>1 DEF Tasks
<1>4. Started' => fingerprint' \in Cred
  BY DEF Inv, Credentialed, Started, Down
<1> QED  BY <1>1, <1>2, <1>3, <1>4, AsideGood DEF Inv, TypeOK, callbacks

\* Commands.
LEMMA CommandSteps ==
    ASSUME Inv, ReconnectAssumption, NEW k \in Commands, CommandCalled(k) \/ CommandStep(k)
    PROVE  Good
<1>0. k \in Tasks \ {"loop"}  BY DEF Tasks, ReconnectAssumption
<1>1. (TypeOK /\ Others) \/ ~UNCHANGED <<login, history>>
  BY DEF Inv, TypeOK, Others, login, history
<1>2. /\ NoTask \in TaskRecord /\ NoTask.at = "none"
      /\ task[k] \in TaskRecord /\ mgr \in Manager /\ lastError \in Errors
  BY <1>0 DEF NoTask, TaskRecord, Stages, Inv, TypeOK
<1>3. CASE CommandCalled(k)
  <2>1. CASE Up
    <3> DEFINE r == [NoTask EXCEPT !.at = "publish", !.turn = "first"]
    <3>1. r \in TaskRecord /\ r.at = "publish"  BY DEF NoTask, TaskRecord, Stages
    <3>2. /\ task' = [task EXCEPT ![k] = r]
          /\ UNCHANGED <<session, callbacks, mgr, login, sleep, history>>
      BY <1>3, <2>1 DEF CommandCalled
    <3> HIDE DEF r
    <3>3. UNCHANGED <<client, fingerprint, lastError, rejected, sinceLoop>>
      BY <3>2 DEF session, history
    <3>4. Others  BY <1>1, <3>2
    <3> QED  BY <1>0, <1>2, <3>1, <3>2, <3>3, <3>4, OneTaskGood
  <2>2. CASE ~Up
    <3>1. Attempts(k, "pre") /\ UNCHANGED saved  BY <1>3, <2>2 DEF CommandCalled
    <3>2. saved' \in Cred \cup {NoCred}  BY <3>1 DEF Inv, TypeOK
    <3> QED  BY <1>0, <3>1, <3>2, ForcedGood
  <2> QED  BY <2>1, <2>2
<1>4. CASE PublishSucceeds(k) \/ CommandCancelled(k)
  <2>1. task' = [task EXCEPT ![k] = NoTask]
    BY <1>4 DEF PublishSucceeds, CommandCancelled, Ended
  <2>2. UNCHANGED <<session, callbacks, mgr, login, sleep, history>>
    BY <1>4 DEF PublishSucceeds, CommandCancelled
  <2>3. UNCHANGED <<client, fingerprint, lastError, rejected, sinceLoop>>
    BY <2>2 DEF session, history
  <2>4. Others  BY <1>1, <2>2
  <2> QED  BY <1>0, <1>2, <2>1, <2>2, <2>3, <2>4, OneTaskGood
<1>5. CASE PublishFails(k)
  <2> DEFINE r == IF task[k].turn = "first" THEN [task[k] EXCEPT !.at = "stop"] ELSE NoTask
  <2>1. r \in TaskRecord /\ r.at \notin {"start", "ssl"}
    BY <1>2 DEF TaskRecord, Stages
  <2>2. task' = [task EXCEPT ![k] = r]
    BY <1>0, <1>5 DEF PublishFails, Ended
  <2>3. UNCHANGED <<fingerprint, rejected, callbacks, mgr, login, sleep, history>>
    BY <1>5 DEF PublishFails
  <2>4. /\ client' \in {"cut", client} /\ (client' = client \/ Started)
        /\ lastError' \in Errors
    BY <1>2, <1>5 DEF PublishFails, Errors, Started, Down
  <2>5. sinceLoop' = sinceLoop  BY <2>3 DEF history
  <2>6. Others  BY <1>1, <2>3
  <2> HIDE DEF r
  <2> QED  BY <1>0, <2>1, <2>2, <2>3, <2>4, <2>5, <2>6, OneTaskGood
<1>6. CASE CommandStops(k)
  <2> DEFINE r == [at |-> IF LockIdle THEN "ssl" ELSE "start", cred |-> api, turn |-> "second"]
  <2>1. StopsSession /\ UNCHANGED <<login, sleep, history>>  BY <1>6 DEF CommandStops
  <2>2. \/ api \in Cred /\ mgr' = Attempted(mgr) /\ task' = [Ousted EXCEPT ![k] = r]
        \/ mgr' = mgr /\ task' = [Ousted EXCEPT ![k] = NoTask]
    BY <1>6 DEF CommandStops, Ended, Inv, TypeOK
  <2>3. api \in Cred => r \in TaskRecord  BY DEF TaskRecord, Stages
  <2>4. mgr' \in Manager /\ (mgr'.throttle = mgr.throttle \/ mgr'.throttle = Throttle)
    <3>1. PICK step \in BackoffSteps : TRUE  BY DEF ReconnectAssumption
    <3>2. NoCred \in Cred \cup {NoCred}  OBVIOUS
    <3>3. Attempted(mgr) \in Manager /\ Attempted(mgr).throttle = Throttle
      BY <1>2, <3>2, ManagerOps
    <3> QED  BY <1>2, <2>2, <3>3
  <2>5. Ousted \in [Tasks -> TaskRecord]  BY <1>0, TaskTypes DEF Inv
  <2>6. /\ task' \in [Tasks -> TaskRecord]
        /\ \A u \in Tasks \ {k} : task'[u] = Ousted[u]
        /\ task'[k] = NoTask \/ (api \in Cred /\ task'[k].cred = api)
    BY <1>0, <1>2, <2>2, <2>3, <2>5
  <2>7. \A u \in Tasks : \/ Ousted[u].at = task[u].at /\ Ousted[u].cred = task[u].cred
                         \/ Ousted[u].at \in {"ousted", "orphaned"}
    BY DEF Ousted, Inv, TypeOK, TaskRecord
  <2>8. ASSUME NEW u \in Tasks, task'[u].at \in {"start", "ssl"} PROVE task'[u].cred \in Cred
    <3>1. CASE u = k  BY <1>2, <2>6, <2>8, <3>1
    <3>2. CASE u # k  BY <2>6, <2>7, <2>8, <3>2 DEF Inv, Credentialed
    <3> QED  BY <3>1, <3>2
  <2>9. task'["loop"].at = task["loop"].at \/ task'["loop"].at \in {"ousted", "orphaned"}
    BY <1>0, <2>6, <2>7 DEF Tasks
  <2>10. Others  BY <1>1, <2>1
  <2>11. /\ client' = "down" /\ fingerprint' = NoCred /\ born' = FALSE /\ lost' = FALSE
         /\ rejected' = rejected
    BY <2>1 DEF StopsSession
  <2>12. sleep' = sleep /\ sinceLoop' = sinceLoop  BY <2>1 DEF history
  <2>13. ~Started'  BY <2>11 DEF Started, Down
  <2>14. rejected' \in BOOLEAN /\ lastError' \in Errors
    BY <1>2, <1>6, <2>11 DEF CommandStops, Errors, Inv, TypeOK
  <2> QED
    BY <1>2, <2>4, <2>6, <2>8, <2>9, <2>10, <2>11, <2>12, <2>13, <2>14, AsideGood
<1> QED  BY <1>3, <1>4, <1>5, <1>6 DEF CommandStep

\* The logins and the poll cycle.
LEMMA CycleSteps ==
    ASSUME Inv, ReconnectAssumption, LogsIn \/ CyclePrepares \/ CycleFails \/ CycleEnds
    PROVE  Good
<1> USE DEF Inv, TypeOK, Others, session, callbacks, history
<1>1. \A t \in Tasks : task[t].at \in {"start", "ssl"} => task[t].cred \in Cred
  BY DEF Credentialed
<1>2. Started => fingerprint \in Cred  BY DEF Credentialed
<1>3. CASE LogsIn \/ CycleFails
  BY <1>1, <1>2, <1>3, AsideGood DEF LogsIn, CycleFails, Started, Down
<1>4. CASE CyclePrepares
  <2>1. /\ api' \in Cred \cup {NoCred} /\ mgr' \in Manager /\ mgr'.throttle = mgr.throttle
    <3> DEFINE m0 == [mgr EXCEPT !.known = NoCred]
    <3>1. PICK step \in BackoffSteps : TRUE  BY DEF ReconnectAssumption
    <3>2. NoCred \in Cred \cup {NoCred} /\ mgr \in Manager  OBVIOUS
    <3>3. m0 \in Manager /\ m0.throttle = mgr.throttle  BY <3>2, ManagerOps
    <3>4. api' \in {api, NoCred} /\ mgr' \in {mgr, Paused(m0)}  BY <1>4 DEF CyclePrepares
    <3> HIDE DEF m0
    <3>5. Paused(m0) \in Manager /\ Paused(m0).throttle = m0.throttle
      BY <3>2, <3>3, ManagerOps
    <3> QED  BY <3>2, <3>3, <3>4, <3>5
  <2>2. UNCHANGED <<session, callbacks, saved, task, sleep, history>> /\ cycle' = "http"
    BY <1>4 DEF CyclePrepares
  <2> QED  BY <1>1, <1>2, <2>1, <2>2, AsideGood DEF Started, Down
<1>5. CASE CycleEnds
  <2> DEFINE due == [NoTask EXCEPT !.at = "due"]
  <2>1. due \in TaskRecord /\ due.at = "due"  BY DEF NoTask, TaskRecord, Stages
  <2>2. \A t \in Tasks : task'[t] = task[t] \/ (task'[t] = due /\ t # "loop")
    BY <1>5 DEF CycleEnds
  <2>3. task' \in [Tasks -> TaskRecord]
    <3>1. \A t \in Tasks : task'[t] \in TaskRecord  BY <2>1, <2>2
    <3> QED  BY <1>5, <3>1 DEF CycleEnds
  <2>4. UNCHANGED <<session, callbacks, mgr, api, saved, sleep, history>> /\ cycle' = "idle"
    BY <1>5 DEF CycleEnds
  <2> HIDE DEF due
  <2>5. \A t \in Tasks : task'[t].at \in {"start", "ssl"} => task'[t].cred \in Cred
    BY <1>1, <2>1, <2>2
  <2>6. task'["loop"] = task["loop"]  BY <2>2 DEF Tasks
  <2> QED  BY <1>2, <2>3, <2>4, <2>5, <2>6, AsideGood DEF Started, Down
<1> QED  BY <1>3, <1>4, <1>5

\* The handoff of fresh credentials.
LEMMA HandoffSteps ==
    ASSUME Inv, ReconnectAssumption, Handoff
    PROVE  Good
<1>0. "handoff" \in Tasks \ {"loop"}  BY DEF Tasks
<1>1. NoTask \in TaskRecord /\ NoTask.at = "none"  BY DEF NoTask, TaskRecord, Stages
<1>2. task["handoff"] \in TaskRecord  BY <1>0 DEF Inv, TypeOK
<1>3. CASE HandoffBegins \/ HandoffFails
  <2> DEFINE r == IF task'["handoff"] = NoTask THEN NoTask
                  ELSE [NoTask EXCEPT !.at = "saving", !.cred = api]
  <2>1. api \in Cred \cup {NoCred}  BY DEF Inv, TypeOK
  <2>2. r \in TaskRecord /\ r.at \notin {"start", "ssl"}
    BY <1>1, <2>1 DEF NoTask, TaskRecord, Stages
  <2>3. task' = [task EXCEPT !["handoff"] = r]
    <3>1. \/ task' = [task EXCEPT !["handoff"] = NoTask]
          \/ task' = [task EXCEPT !["handoff"] = [NoTask EXCEPT !.at = "saving", !.cred = api]]
      BY <1>3 DEF HandoffBegins, HandoffFails, Ended
    <3> QED  BY <1>0, <3>1 DEF Inv, TypeOK
  <2>4. UNCHANGED <<session, callbacks, mgr, login, sleep, history>>
    BY <1>3 DEF HandoffBegins, HandoffFails
  <2>5. UNCHANGED <<client, fingerprint, lastError, rejected, sinceLoop>>
    BY <2>4 DEF session, history
  <2>6. Others /\ lastError' \in Errors
    BY <2>4 DEF Others, Inv, TypeOK, session, login, history
  <2> HIDE DEF r
  <2> QED  BY <1>0, <2>2, <2>3, <2>4, <2>5, <2>6, OneTaskGood
<1>4. CASE HandoffSaved
  <2>1. saved' \in Cred \cup {NoCred}
    BY <1>2, <1>4 DEF HandoffSaved, TaskRecord
  <2>2. CASE Started
    <3>1. Attempts("handoff", "none") \/ Defers("handoff")
      BY <1>4, <2>2 DEF HandoffSaved, Forced
    <3> QED  BY <1>0, <2>1, <3>1, ForcedGood
  <2>3. CASE ~Started
    <3>1. /\ task' = [task EXCEPT !["handoff"] = NoTask]
          /\ UNCHANGED <<session, callbacks, mgr, api, cycle, sleep, history>>
      BY <1>4, <2>3 DEF HandoffSaved, Ended
    <3>2. UNCHANGED <<client, fingerprint, lastError, rejected, sinceLoop>>
      BY <3>1 DEF session, history
    <3>3. Others /\ lastError' \in Errors
      BY <2>1, <3>1 DEF Others, Inv, TypeOK, session, history
    <3> QED  BY <1>0, <1>1, <3>1, <3>2, <3>3, OneTaskGood
  <2> QED  BY <2>2, <2>3
<1> QED  BY <1>3, <1>4 DEF Handoff

\* What is left and the age of the attempt add up to the throttle still, when
\* one moves down and the other up.
LEMMA Countdown ==
    ASSUME NEW left \in Nat, NEW left1 \in Nat, NEW age \in Nat, NEW age1 \in Nat, NEW T \in Nat,
           left1 >= left - 1, left + age >= T, age1 = age + 1 \/ age1 = T
    PROVE  left1 + age1 >= T
OBVIOUS

\* Time: the countdowns and the age of the loop's attempt move together.
LEMMA TickStep ==
    ASSUME Inv, ReconnectAssumption, Tick
    PROVE  Good
<1>1. /\ mgr \in Manager /\ mgr.throttle \in Nat /\ mgr.pause \in Nat /\ mgr.backoff \in Nat
      /\ sleep \in Nat /\ Throttle \in Nat /\ sinceLoop \in 0..Throttle
  BY DEF Inv, TypeOK, Manager, ReconnectAssumption
<1>2. \A n \in Nat : Less(n) \in Nat /\ Less(n) >= n - 1  BY DEF Less
<1>3. /\ mgr' \in Manager /\ mgr'.throttle = Less(mgr.throttle)
      /\ sleep' = Less(sleep)
  BY <1>1, <1>2 DEF Tick, Manager
<1>4. sinceLoop' \in 0..Throttle /\ (sinceLoop' = sinceLoop + 1 \/ sinceLoop' = Throttle)
  BY <1>1 DEF Tick, Smaller
<1>5. UNCHANGED <<session, callbacks, login, task, refused>>  BY DEF Tick
<1>6. TypeOK'
  BY <1>1, <1>2, <1>3, <1>4, <1>5 DEF Inv, TypeOK, session, callbacks, login
<1>7. Credentialed'
  BY <1>5 DEF Inv, Credentialed, Started, Down, session
<1>8. mgr'.throttle \in Nat /\ mgr'.throttle + sinceLoop' >= Throttle
  <2>1. mgr'.throttle \in Nat /\ mgr'.throttle >= mgr.throttle - 1  BY <1>1, <1>2, <1>3
  <2>2. mgr.throttle + sinceLoop >= Throttle  BY DEF Inv, Spacing
  <2> QED  BY <1>1, <1>4, <2>1, <2>2
<1>9. ASSUME task'["loop"].at = "sleep" PROVE sleep' + sinceLoop' >= Throttle
  <2>1. sleep' \in Nat /\ sleep' >= sleep - 1  BY <1>1, <1>2, <1>3
  <2>2. sleep + sinceLoop >= Throttle  BY <1>5, <1>9 DEF Inv, Spacing
  <2>3. sleep \in Nat /\ sinceLoop \in Nat /\ sinceLoop' \in Nat /\ Throttle \in Nat
    BY <1>1, <1>4
  <2> QED  BY <1>4, <2>1, <2>2, <2>3, Countdown
<1>10. Spacing'  BY <1>8, <1>9 DEF Spacing
<1>11. ~LoopAttempts  BY <1>5 DEF LoopAttempts
<1> QED  BY <1>6, <1>7, <1>10, <1>11 DEF Good, Inv

\* The inductive step, and what it shows of the loop's attempts on the way.
LEMMA StepGood ==
    ASSUME Inv, ReconnectAssumption, [Next]_vars
    PROVE  Good
<1>1. CASE UNCHANGED vars
  <2>1. UNCHANGED <<client, fingerprint, lastError, rejected, born, lost, mgr, api, saved,
                    cycle, task, sleep, sinceLoop, refused>>
    BY <1>1 DEF vars, session, callbacks, login, history
  <2>2. TypeOK' /\ Credentialed' /\ Spacing'
    BY <2>1 DEF Inv, TypeOK, Credentialed, Spacing, Started, Down
  <2>3. ~LoopAttempts  BY <2>1 DEF LoopAttempts
  <2> QED  BY <2>2, <2>3 DEF Good, Inv
<1>2. CASE Next
  BY <1>2, SessionSteps, EnsureSteps, StartSteps, CommandSteps, CycleSteps, HandoffSteps,
     TickStep DEF Next
<1> QED  BY <1>1, <1>2

\* The inductive invariant: types, sessions opened with a credential only, and
\* the spacing of the loop's attempts.
THEOREM Invariant == Spec => []Inv
<1>1. Init => Inv  BY InitInv, ReconnectAssumption
<1>2. Inv /\ [Next]_vars => Inv'  BY StepGood, ReconnectAssumption DEF Good
<1> QED  BY <1>1, <1>2, PTL DEF Spec

\* Every variable keeps its type: the manager's deadlines stay durations, and
\* every task's record is one that _async_ensure_mqtt or a command can be in.
THEOREM TypeCorrect == Spec => []TypeOK
<1>1. Inv => TypeOK  BY DEF Inv
<1> QED  BY <1>1, Invariant, PTL

\* The reconnect loop's own attempts are at least the throttle apart, however
\* the session flaps and whoever else starts it (_reconnect, coordinator.py).
THEOREM LoopThrottled == Spec => LoopIsThrottled
<1>1. Inv /\ [Next]_vars => [LoopAttempts => sinceLoop = Throttle]_vars
  BY StepGood, ReconnectAssumption DEF Good
<1> QED  BY <1>1, Invariant, PTL DEF Spec, LoopIsThrottled

=============================================================================
