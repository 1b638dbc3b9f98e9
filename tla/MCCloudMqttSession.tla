------------------------- MODULE MCCloudMqttSession -------------------------
(* Instances of CloudMqttSession for TLC.                                   *)
EXTENDS CloudMqttSession

\* How many topics, generations and publishers are enough is in README.md.
CONSTANTS c1, c2, p1, p2
MCCreds == {c1, c2}
MCOneCred == {c1}
MCPublishers == {p1, p2}
MCOnePublisher == {p1}

=============================================================================
