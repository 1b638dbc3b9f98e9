--------------------------- MODULE SerialDelivery ---------------------------
(***************************************************************************)
(* What the cloud MQTT client promises of the frames it accepts: the sink  *)
(* gets them one at a time, in the order they were accepted, each of them  *)
(* at most once.  Frames are numbered in the order of their acceptance.    *)
(***************************************************************************)
EXTENDS Naturals

VARIABLES accepted,  \* how many frames were accepted
          handed,    \* how many were handed to the sink
          current    \* the frame the sink is working on, or 0

Init == accepted = 0 /\ handed = 0 /\ current = 0

Accept == accepted' = accepted + 1 /\ UNCHANGED <<handed, current>>

Hand ==
    /\ current = 0 /\ handed < accepted
    /\ handed' = handed + 1 /\ current' = handed + 1
    /\ UNCHANGED accepted

Finish == current # 0 /\ current' = 0 /\ UNCHANGED <<accepted, handed>>

Next == Accept \/ Hand \/ Finish

Spec == Init /\ [][Next]_<<accepted, handed, current>>

=============================================================================
