-------------------------- MODULE MCMqttReconnect --------------------------
(* Instances of MqttReconnect for TLC, in coarse units of time that keep the *)
(* order of the durations: the pause and the shortest backoff are shorter    *)
(* than the throttle, the other backoff is longer.                           *)
EXTENDS MqttReconnect

CONSTANTS k1, c1, c2
MCCred == {c1, c2}
MCOneCred == {c1}
MCCommands == {k1}
MCBackoffSteps == {1, 3}

=============================================================================
