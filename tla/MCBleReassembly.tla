--------------------------- MODULE MCBleReassembly ---------------------------
(* BleReassembly by itself: one key, texts of two chunks.                     *)
EXTENDS BleReassembly

CONSTANTS m1, x1, x2, q1
MCKeys      == {m1}
MCLengths   == (m1 :> {1, 2})
MCFragments == {x1, x2}
MCPages     == {q1}
==============================================================================
