----------------------------- MODULE PinnedMaps -----------------------------
(***************************************************************************)
(* Several processes in bpf_prog_load_xattr_maps, each loading an object   *)
(* whose maps it wants to share through pins in bpffs: open the pins there *)
(* are, load the object, pin the maps that had none.  Every system call is *)
(* a step, so that two loaders may both find a pin missing.                *)
(***************************************************************************)
EXTENDS Naturals

CONSTANTS
    Loaders,
    Names,        \* of maps; a name stands for its pin path too
    Defined,      \* [Loaders -> the maps of the object file]
    Requested,    \* [Loaders -> the names in attr->pinned_maps]
    Faults,       \* TRUE if opening (an object or a pin), loading or pinning may fail
    FlakyReuse,   \* the loaders whose bpf_map__reuse_fd may fail
    NONE,         \* no map; map_fd = -1
    STALE         \* what the caller left in map_fd

Maps == Loaders \X Names

ASSUME ObjectsAssumption ==
    /\ Defined \in [Loaders -> SUBSET Names]
    /\ Requested \in [Loaders -> SUBSET Names]
    /\ FlakyReuse \subseteq Loaders
ASSUME NamesAssumption == NONE \notin Maps /\ STALE \notin Maps /\ NONE # STALE

VARIABLES
    pins,    \* the map pinned under each name
    at,      \* where a loader is
    todo,    \* maps its loop has still to visit
    map_fd,  \* the map pinned_maps[i].map_fd refers to
    uses,    \* the map the object uses under each name
    warned   \* the names reported as not seen

vars == <<pins, at, todo, map_fd, uses, warned>>

TypeOK ==
    /\ pins \in [Names -> Maps \cup {NONE}]
    /\ at \in [Loaders -> {"start", "open", "load", "pin", "ok", "failed"}]
    /\ todo \in [Loaders -> SUBSET Names]
    /\ map_fd \in [Loaders -> [Names -> Maps \cup {NONE, STALE}]]
    /\ \A p \in Loaders, n \in Names :
         at[p] \in {"open", "load", "pin", "ok"} => map_fd[p][n] # STALE
    /\ uses \in [Loaders -> [Names -> Maps \cup {NONE}]]
    /\ warned \in [Loaders -> SUBSET Names]

\* The maps the two nested loops with their strcmp pick out.
Matches(p) == Defined[p] \cap Requested[p]

Init ==
    /\ pins = [n \in Names |-> NONE]
    /\ at = [p \in Loaders |-> "start"]
    /\ todo = [p \in Loaders |-> {}]
    /\ map_fd = [p \in Loaders |-> [n \in Names |-> STALE]]
    /\ uses = [p \in Loaders |-> [n \in Names |-> NONE]]
    /\ warned = [p \in Loaders |-> {}]

Goto(p, where) == at' = [at EXCEPT ![p] = where]
Visited(p, n) == todo' = [todo EXCEPT ![p] = @ \ {n}]
Set(f, p, n, m) == f' = [f EXCEPT ![p] = [f[p] EXCEPT ![n] = m]]

-----------------------------------------------------------------------------
\* Mutant: map_fd is not reset.
OpenObjectNoReset(p) ==
    /\ at[p] = "start"
    /\ todo' = [todo EXCEPT ![p] = Matches(p)]
    /\ Goto(p, "open")
    /\ UNCHANGED <<pins, map_fd, uses, warned>>

\* bpf_object__open_xattr, then the reset of map_fd.
OpenObject(p) ==
    /\ at[p] = "start"
    /\ map_fd' = [map_fd EXCEPT ![p] = [n \in Names |-> NONE]]
    /\ todo' = [todo EXCEPT ![p] = Matches(p)]
    /\ Goto(p, "open")
    /\ UNCHANGED <<pins, uses, warned>>

OpenObjectFails(p) ==
    /\ Faults
    /\ at[p] = "start"
    /\ Goto(p, "failed")
    /\ UNCHANGED <<pins, todo, map_fd, uses, warned>>

\* bpf_obj_get fails, because there is no pin or although there is one: the code
\* does not tell the two apart.
PinNotOpened(p, n) ==
    /\ at[p] = "open"
    /\ n \in todo[p]
    /\ pins[n] = NONE \/ Faults
    /\ Visited(p, n)
    /\ UNCHANGED <<pins, at, map_fd, uses, warned>>

\* Mutant: the descriptor is reported but the object does not take it.
ReuseForgotten(p, n) ==
    /\ at[p] = "open"
    /\ n \in todo[p]
    /\ pins[n] # NONE
    /\ Set(map_fd, p, n, pins[n])
    /\ Visited(p, n)
    /\ UNCHANGED <<pins, at, uses, warned>>

\* The pinned map replaces the object's own.
Reuse(p, n) ==
    /\ at[p] = "open"
    /\ n \in todo[p]
    /\ pins[n] # NONE
    /\ Set(uses, p, n, pins[n])
    /\ Set(map_fd, p, n, pins[n])
    /\ Visited(p, n)
    /\ UNCHANGED <<pins, at, warned>>

\* The result of bpf_map__reuse_fd is not looked at.
ReuseFails(p, n) ==
    /\ p \in FlakyReuse
    /\ at[p] = "open"
    /\ n \in todo[p]
    /\ pins[n] # NONE
    /\ Set(map_fd, p, n, pins[n])
    /\ Visited(p, n)
    /\ UNCHANGED <<pins, at, uses, warned>>

\* The end of the loop, and bpf_object__load: it creates the maps not replaced.
Load(p) ==
    /\ at[p] = "open"
    /\ todo[p] = {}
    /\ uses' = [uses EXCEPT ![p] =
                  [n \in Names |-> IF n \in Defined[p] /\ uses[p][n] = NONE
                                   THEN <<p, n>> ELSE uses[p][n]]]
    /\ todo' = [todo EXCEPT ![p] = {n \in Matches(p) : map_fd[p][n] = NONE}]
    /\ Goto(p, "pin")
    /\ UNCHANGED <<pins, map_fd, warned>>

\* No program in the object, or bpf_object__load fails; map_fd stays as it is.
LoadFails(p) ==
    /\ Faults
    /\ at[p] = "open"
    /\ todo[p] = {}
    /\ Goto(p, "failed")
    /\ UNCHANGED <<pins, todo, map_fd, uses, warned>>

Pin(p, n) ==
    /\ at[p] = "pin"
    /\ n \in todo[p]
    /\ pins[n] = NONE
    /\ pins' = [pins EXCEPT ![n] = uses[p][n]]
    /\ Set(map_fd, p, n, uses[p][n])
    /\ Visited(p, n)
    /\ UNCHANGED <<at, uses, warned>>

\* Mutant: the error is not looked at.
PinErrorIgnored(p, n) ==
    /\ at[p] = "pin"
    /\ n \in todo[p]
    /\ pins[n] # NONE \/ Faults
    /\ Set(map_fd, p, n, uses[p][n])
    /\ Visited(p, n)
    /\ UNCHANGED <<pins, at, uses, warned>>

\* Another loader's pin is there by now, or the pin fails: on to the next.
PinFails(p, n) ==
    /\ at[p] = "pin"
    /\ n \in todo[p]
    /\ pins[n] # NONE \/ Faults
    /\ Visited(p, n)
    /\ UNCHANGED <<pins, at, map_fd, uses, warned>>

\* The warnings, and return 0.
Report(p) ==
    /\ at[p] = "pin"
    /\ todo[p] = {}
    /\ warned' = [warned EXCEPT ![p] = {n \in Requested[p] : map_fd[p][n] = NONE}]
    /\ Goto(p, "ok")
    /\ UNCHANGED <<pins, todo, map_fd, uses>>

Next ==
    \/ \E p \in Loaders : OpenObject(p)
    \/ \E p \in Loaders : OpenObjectFails(p)
    \/ \E p \in Loaders, n \in Names : PinNotOpened(p, n)
    \/ \E p \in Loaders, n \in Names : Reuse(p, n)
    \/ \E p \in Loaders, n \in Names : ReuseFails(p, n)
    \/ \E p \in Loaders : Load(p)
    \/ \E p \in Loaders : LoadFails(p)
    \/ \E p \in Loaders, n \in Names : Pin(p, n)
    \/ \E p \in Loaders, n \in Names : PinFails(p, n)
    \/ \E p \in Loaders : Report(p)

Spec == Init /\ [][Next]_vars

-----------------------------------------------------------------------------
\* Every descriptor handed back in map_fd refers to the pinned map, so any two
\* loaders that have one for a name have the same map, whichever of them came
\* first and whichever failed to load in between.
HandlesAgree ==
    \A p \in Loaders, n \in Names :
      map_fd[p][n] \in Maps => map_fd[p][n] = pins[n]

\* A loader that succeeds shares every map it asked for with all the others, or
\* has warned about it; only where bpf_map__reuse_fd, whose result nobody looks
\* at, may fail for it is that not so.
SharedOrWarned ==
    \A p \in Loaders \ FlakyReuse : at[p] = "ok" =>
      \A n \in Matches(p) \ warned[p] : uses[p][n] = pins[n]
=============================================================================
