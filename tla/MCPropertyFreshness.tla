------------------------- MODULE MCPropertyFreshness -------------------------
EXTENDS PropertyFreshness
CONSTANTS f1, y1, v1, v2
MCLive == {f1}
MCSetting == {y1}
MCValues == {v1, v2}
==============================================================================
