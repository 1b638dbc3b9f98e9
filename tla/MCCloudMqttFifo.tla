-------------------------- MODULE MCCloudMqttFifo --------------------------
(* Instances of CloudMqttFifo for TLC.                                      *)
EXTENDS CloudMqttFifo

=============================================================================
