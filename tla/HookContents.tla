---------------------------- MODULE HookContents ----------------------------
(***************************************************************************)
(* What loading and unloading promises, with no dispatchers, pins or       *)
(* retries in sight: a set of programs on the interface that each request  *)
(* changes in one indivisible step, or not at all.  A request that reports *)
(* success has taken effect once, one that reports failure has not, and    *)
(* the programs on the interface see every packet.  A cleaner spoils some  *)
(* of this: once one has begun, a request that took effect may report      *)
(* failure, and programs may be cut off from the packets.                  *)
(***************************************************************************)
EXTENDS Naturals, FiniteSets

CONSTANTS Attachers, Unloaders, UnloadAll, Cleaners, Target,
          MAX_DISPATCHER_ACTIONS, IpTool, LEGACY

Procs == Attachers \cup Unloaders \cup UnloadAll \cup Cleaners

VARIABLES
    loaded,    \* the programs that requests have put on the interface
    detached,  \* those of them that no packet reaches
    status     \* of each request: "pending", "applied", "ok", "failed", "crashed"

vars == <<loaded, detached, status>>

Init == loaded = {} /\ detached = {} /\ status = [p \in Procs |-> "pending"]

\* The effect of p's request on the set of programs.
Effect(p) ==
    IF p \in Attachers THEN loaded \cup {p}
    ELSE IF p \in Unloaders THEN loaded \ {Target[p]} ELSE {}

Allowed(p) ==
    \/ /\ p \in Attachers /\ LEGACY \notin loaded
       /\ ~ Cardinality(loaded) + 1 > MAX_DISPATCHER_ACTIONS
    \/ p \in Unloaders /\ Target[p] \in loaded
    \/ p \in UnloadAll /\ loaded # {}

Cleaning == \E c \in Cleaners : status[c] # "pending"

\* The programs in S, and beside a cleaner perhaps more, are cut off.
CutOff(S) ==
    \/ detached' = S
    \/ Cleaning /\ S \subseteq detached' /\ detached' \subseteq loaded'

\* A request that takes effect links all the programs anew.
Apply(p) ==
    /\ status[p] = "pending"
    /\ Allowed(p)
    /\ loaded' = Effect(p)
    /\ CutOff({})
    /\ \E s \in {"applied", "ok"} : status' = [status EXCEPT ![p] = s]

Finish(p) ==
    /\ \/ status[p] = "applied" /\ status' = [status EXCEPT ![p] = "ok"]
       \/ status[p] = "pending" /\ status' = [status EXCEPT ![p] = "failed"]
       \/ Cleaning /\ status[p] = "applied" /\ status' = [status EXCEPT ![p] = "failed"]
       \/ status[p] \in {"pending", "applied"}
             /\ status' = [status EXCEPT ![p] = "crashed"]
    /\ UNCHANGED loaded
    /\ CutOff(detached)

Clean(c) ==
    /\ \/ status[c] = "pending" /\ status' = [status EXCEPT ![c] = "applied"]
       \/ status[c] = "applied" /\ UNCHANGED status
    /\ UNCHANGED loaded
    /\ CutOff(detached)

\* The ip tool: one program on an empty interface, or none.
IpLinkSet ==
    /\ IpTool
    /\ \/ loaded = {} /\ loaded' = {LEGACY}
       \/ loaded' = {}
    /\ detached' = {}
    /\ UNCHANGED status

Next ==
    \/ \E p \in Procs : Apply(p) \/ Finish(p)
    \/ \E c \in Cleaners : Clean(c)
    \/ IpLinkSet

Spec == Init /\ [][Next]_vars
=============================================================================
