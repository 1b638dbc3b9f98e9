----------------------------- MODULE MCTransports -----------------------------
(* The local transports and the values all transports bring, checked side by   *)
(* side: the lifecycle of the local MQTT listener, its FIFO, the BLE session and *)
(* the reassembly of its messages, and one live or one other property of a      *)
(* device.  They share no state in the model (the listener only begins and ends *)
(* the FIFO's stops), so a behaviour is one component's, chosen at the start;    *)
(* their product is not explored.                                               *)
EXTENDS LocalMqttListener, LocalMqttFifo, BleSession, BleReassembly, PropertyFreshness

CONSTANTS c1, c2, s1, s2, k1, k2, off, onA, g1, g2, w1, w2, f1, f2, v1, v2,
          m1, m2, x1, x2, q1
MCOwners    == {c1, c2}
MCStarters  == {s1, s2}
MCClients   == {k1, k2}
MCSettings  == {off, onA}
MCSessions  == {g1, g2}
MCWriters   == {w1, w2}
MCKeys      == {m1, m2}
MCLengths   == [k \in MCKeys |-> 1..3]
MCFragments == {x1, x2}
MCPages     == {q1}
MCLive      == {f1}
MCOther     == {f2}
MCValues    == {v1, v2}

\* Owners, sessions and values are interchangeable: where the modules choose one, it
\* is one that nothing refers to, or the only one.
MCSymmetry == Permutations(MCOwners) \cup Permutations(MCSessions) \cup Permutations(MCValues)

VARIABLE part

TransportsInit ==
  /\ part \in {"listener", "fifo", "ble", "frames", "live", "other"}
  /\ LmInit /\ LfInit /\ BleInit /\ BrInit /\ PfInit
  /\ part # "listener" => lmWanted = off
  /\ part # "live" => shown[f1] = Blank
  /\ part # "other" => shown[f2] = Blank

TransportsNext ==
  \/ part = "listener" /\ LmNext       /\ UNCHANGED <<part, lfVars, bleVars, brVars, pfVars>>
  \/ part = "fifo"     /\ LfNext       /\ UNCHANGED <<part, lmVars, bleVars, brVars, pfVars>>
  \/ part = "ble"      /\ BleNext      /\ UNCHANGED <<part, lmVars, lfVars, brVars, pfVars>>
  \/ part = "frames"   /\ BrNext       /\ UNCHANGED <<part, lmVars, lfVars, bleVars, pfVars>>
  \/ part = "live"     /\ PfStep({f1}) /\ UNCHANGED <<part, lmVars, lfVars, bleVars, brVars>>
  \/ part = "other"    /\ PfStep({f2}) /\ UNCHANGED <<part, lmVars, lfVars, bleVars, brVars>>

TransportsSpec ==
  TransportsInit /\ [][TransportsNext]_<<part, lmVars, lfVars, bleVars, brVars, pfVars>>

\* The type invariants of the components, each where it can change.
TransportsTypeOK ==
  /\ part = "listener" => LmTypeOK
  /\ part = "fifo" => LfTypeOK
  /\ part = "ble" => BleTypeOK
  /\ part = "frames" => BrTypeOK
  /\ part \in {"live", "other"} => PfTypeOK
===============================================================================
