---------------------------- MODULE MCDispatcher ----------------------------
EXTENDS Dispatcher

CONSTANTS a1, a2, u1, u2, all1, c1

UnloadNothing == [p \in {} |-> LEGACY]
UnloadEither == [p \in {u1, u2} |-> IF p = u1 THEN a1 ELSE LEGACY]
=============================================================================
