---------------------------- MODULE MCPinnedMaps ----------------------------
EXTENDS PinnedMaps

CONSTANTS l1, l2, l3, m1, m2, m3

\* Two objects with the same maps and one with fewer; l2 asks for a map that is
\* in no object.
Objects == [p \in Loaders |-> IF p = l3 THEN {m1} ELSE {m1, m2}]
Wanted == [p \in Loaders |-> IF p = l2 THEN {m1, m2, m3} ELSE {m1, m2}]
=============================================================================
