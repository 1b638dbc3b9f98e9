--------------------------- MODULE BrokerSession ---------------------------
(***************************************************************************)
(* What the account's broker may see of this integration: one session at a *)
(* time, each opened by a later generation than every session before it.   *)
(* The Jackery account allows a single MQTT session, so a second one would *)
(* make the broker drop the first.                                         *)
(***************************************************************************)
EXTENDS Naturals

CONSTANT Generations

VARIABLES open,  \* the generations with a broker session now
          used   \* the generations that ever had one

Init == open = {} /\ used = {}

Open(g) ==
    /\ open = {}
    /\ \A u \in used : u < g
    /\ open' = {g} /\ used' = used \cup {g}

Close == open # {} /\ open' = {} /\ UNCHANGED used

Next == Close \/ \E g \in Generations : Open(g)

Spec == Init /\ [][Next]_<<open, used>>

=============================================================================
