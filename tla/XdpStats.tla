------------------------------ MODULE XdpStats ------------------------------
(***************************************************************************)
(* xdp_stats_record_action on several CPUs, and a reader in user space     *)
(* that looks a record up while it is being updated.  The two updates of   *)
(* a record are loads, additions and stores with no atomic operation: each *)
(* load and each store is a step.  A packet is handled to its end on the   *)
(* CPU it arrived on before the next one starts there (softirq).           *)
(***************************************************************************)
EXTENDS Naturals

CONSTANTS
    CPUs,
    Actions,         \* the action codes a program may pass
    Sizes,           \* data_end - data of the packets
    XDP_ACTION_MAX,
    MaxPackets       \* bound: packets handled per CPU

ASSUME ActionsAssumption == Actions \subseteq Nat /\ Sizes \subseteq Nat
ASSUME BoundsAssumption == XDP_ACTION_MAX \in Nat \ {0} /\ MaxPackets \in Nat

XDP_ABORTED == 0
Keys == 0..(XDP_ACTION_MAX - 1)

\* The map: one record per CPU and action.
Records == CPUs \X Keys

VARIABLES
    rx_packets,  \* [Records -> Nat]
    rx_bytes,    \* [Records -> Nat]
    at,          \* the next access of each CPU, or "idle"
    action,      \* the argument of the call a CPU is in
    size,        \* ghost of ctx: the size of the packet it handles
    tmp,         \* the register its load went to
    packets,     \* ghost: packets for which a CPU returned an action
    bytes,       \* ghost: their sizes, summed
    arrived,     \* ghost: packets started on each CPU
    reading,     \* the record the reader has half copied, if any
    copied       \* the rx_packets it has copied

cpu == <<at, action, size, tmp, arrived>>
ghosts == <<packets, bytes>>
reader == <<reading, copied>>
vars == <<rx_packets, rx_bytes, cpu, ghosts, reader>>

Steps == {"idle", "load_packets", "store_packets", "load_bytes", "store_bytes"}

TypeOK ==
    /\ rx_packets \in [Records -> Nat]
    /\ rx_bytes \in [Records -> Nat]
    /\ at \in [CPUs -> Steps]
    /\ action \in [CPUs -> Keys]
    /\ size \in [CPUs -> Nat]
    /\ tmp \in [CPUs -> Nat]
    /\ packets \in [Records -> Nat]
    /\ bytes \in [Records -> Nat]
    /\ arrived \in [CPUs -> Nat]
    /\ reading \subseteq Records
    /\ copied \in Nat

Init ==
    /\ rx_packets = [r \in Records |-> 0]
    /\ rx_bytes = [r \in Records |-> 0]
    /\ at = [c \in CPUs |-> "idle"]
    /\ action = [c \in CPUs |-> XDP_ABORTED]
    /\ size = [c \in CPUs |-> 0]
    /\ tmp = [c \in CPUs |-> 0]
    /\ packets = [r \in Records |-> 0]
    /\ bytes = [r \in Records |-> 0]
    /\ arrived = [c \in CPUs |-> 0]
    /\ reading = {}
    /\ copied = 0

-----------------------------------------------------------------------------
(* xdp_stats_record_action *)

\* The early return; and the NULL of bpf_map_lookup_elem, which finds the keys
\* the map has.
Rejected(a) == a >= XDP_ACTION_MAX \/ a \notin Keys

\* Mutant: a map that is not per CPU.
RecordShared(c) == <<CHOOSE d \in CPUs : TRUE, action[c]>>

\* The record bpf_map_lookup_elem returns on CPU c.
Record(c) == <<c, action[c]>>

Goto(c, step) == at' = [at EXCEPT ![c] = step]

\* A call with an action the map has no record for returns XDP_ABORTED, at once
\* and uncounted.
Reject(c) ==
    /\ at[c] = "idle"
    /\ arrived[c] < MaxPackets
    /\ \E a \in Actions : Rejected(a)
    /\ arrived' = [arrived EXCEPT ![c] = @ + 1]
    /\ UNCHANGED <<rx_packets, rx_bytes, at, action, size, tmp, ghosts, reader>>

Lookup(c, a, s) ==
    /\ at[c] = "idle"
    /\ arrived[c] < MaxPackets
    /\ ~ Rejected(a)
    /\ arrived' = [arrived EXCEPT ![c] = @ + 1]
    /\ action' = [action EXCEPT ![c] = a]
    /\ size' = [size EXCEPT ![c] = s]
    /\ Goto(c, "load_packets")
    /\ UNCHANGED <<rx_packets, rx_bytes, tmp, ghosts, reader>>

LoadPackets(c) ==
    /\ at[c] = "load_packets"
    /\ tmp' = [tmp EXCEPT ![c] = rx_packets[Record(c)]]
    /\ Goto(c, "store_packets")
    /\ UNCHANGED <<rx_packets, rx_bytes, action, size, arrived, ghosts, reader>>

StorePackets(c) ==
    /\ at[c] = "store_packets"
    /\ rx_packets' = [rx_packets EXCEPT ![Record(c)] = tmp[c] + 1]
    /\ Goto(c, "load_bytes")
    /\ UNCHANGED <<rx_bytes, action, size, tmp, arrived, ghosts, reader>>

LoadBytes(c) ==
    /\ at[c] = "load_bytes"
    /\ tmp' = [tmp EXCEPT ![c] = rx_bytes[Record(c)]]
    /\ Goto(c, "store_bytes")
    /\ UNCHANGED <<rx_packets, rx_bytes, action, size, arrived, ghosts, reader>>

\* The last store, and the return: the ghosts count what was returned.
StoreBytes(c) ==
    /\ at[c] = "store_bytes"
    /\ rx_bytes' = [rx_bytes EXCEPT ![Record(c)] = tmp[c] + size[c]]
    /\ packets' = [packets EXCEPT ![<<c, action[c]>>] = @ + 1]
    /\ bytes' = [bytes EXCEPT ![<<c, action[c]>>] = @ + size[c]]
    /\ Goto(c, "idle")
    /\ UNCHANGED <<rx_packets, action, size, tmp, arrived, reader>>

-----------------------------------------------------------------------------
(* The reader: the kernel copies a record word by word. *)

ReadPackets(r) ==
    /\ reading = {}
    /\ reading' = {r}
    /\ copied' = rx_packets[r]
    /\ UNCHANGED <<rx_packets, rx_bytes, cpu, ghosts>>

ReadBytes(r) ==
    /\ r \in reading
    /\ reading' = {}
    /\ UNCHANGED <<rx_packets, rx_bytes, cpu, ghosts, copied>>

Next ==
    \/ \E c \in CPUs : Reject(c)
    \/ \E c \in CPUs, a \in Actions, s \in Sizes : Lookup(c, a, s)
    \/ \E c \in CPUs : LoadPackets(c)
    \/ \E c \in CPUs : StorePackets(c)
    \/ \E c \in CPUs : LoadBytes(c)
    \/ \E c \in CPUs : StoreBytes(c)
    \/ \E r \in Records : ReadPackets(r)
    \/ \E r \in Records : ReadBytes(r)

Spec == Init /\ [][Next]_vars

-----------------------------------------------------------------------------
\* "safe to update without atomic operations" (xdp_stats_kern.h:35-38): when a
\* CPU is between packets its records hold exactly the packets it returned each
\* action for, and their bytes; no update of any CPU is lost.
NoLostUpdate ==
    \A c \in CPUs, k \in Keys :
      at[c] = "idle" =>
        /\ rx_packets[<<c, k>>] = packets[<<c, k>>]
        /\ rx_bytes[<<c, k>>] = bytes[<<c, k>>]

\* What a reader polls never runs backwards: no store on any CPU takes a record
\* below what it held, so differences of two readings are rates.
CountersGrow ==
    [][ \A r \in Records : rx_packets'[r] >= rx_packets[r] /\ rx_bytes'[r] >= rx_bytes[r] ]_vars

\* A copy taken in the middle of an update is short of at most one packet: if
\* every packet has at least m bytes, the bytes the reader is about to copy are
\* at least m for every packet it has copied but one.
SnapshotNearlyWhole ==
    \A r \in reading, m \in Sizes :
      (\A s \in Sizes : m <= s) => rx_bytes[r] + m >= m * copied
=============================================================================
