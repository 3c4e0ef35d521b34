----------------------------- MODULE XskSocket ------------------------------
(***************************************************************************)
(* AF_XDP sockets (xsk.c) on one network device.  All sockets of the       *)
(* device share one XDP program, xsk_def_prog: whoever comes first loads   *)
(* and attaches it, a count in the program's own data says how many use    *)
(* it, and whoever brings the count to 0 detaches it.  The count is read   *)
(* and written under a file lock; looking the program up, attaching it and *)
(* detaching it are not.                                                   *)
(*                                                                         *)
(* Sockets on one umem are used by one process, one call at a time (the    *)
(* library has no locks inside a process); processes interleave.  A        *)
(* Control is a process that only calls xsk_setup_xdp_prog, for sockets    *)
(* created elsewhere with XSK_LIBXDP_FLAGS__INHIBIT_PROG_LOAD.  Attaching  *)
(* and detaching are single steps here, which is what module HookContents  *)
(* says of them.                                                           *)
(***************************************************************************)
EXTENDS Integers, FiniteSets

CONSTANTS
    Sockets, Controls, Umems, Queues, None,
    Umem, Queue,   \* the umem and the queue of each socket
    Inhibit,       \* sockets created with XSK_LIBXDP_FLAGS__INHIBIT_PROG_LOAD
    OwnRings,      \* sockets created by xsk_socket__create_shared
    Progs,         \* bound: copies of xsk_def_prog that are loaded at a time
    MAX_PROGS,     \* programs the dispatcher of a device has room for
    MaxFaults      \* bound: calls that fail, contexts overwritten, processes that die

Callers == Sockets \cup Controls
Fds == Sockets \cup Umems

\* Sockets, control processes, umems, queues and programs are different things.
ASSUME NamesAssumption ==
    /\ IsFiniteSet(Sockets) /\ IsFiniteSet(Controls)
    /\ Sockets \cap (Controls \cup Umems) = {}
    /\ None \notin Sockets \cup Controls \cup Umems \cup Queues \cup Progs
    /\ Umem \in [Sockets -> Umems] /\ Queue \in [Sockets -> Queues]

VARIABLES
    umem,      \* per umem: created, refcount, and fill_save
    ctx,       \* per umem and queue: refcount, and whether its rings are mapped
    bound,     \* the queue a file descriptor is bound to
    pc,        \* where each caller is
    own,       \* whether a socket's fd is its own, not the umem's
    xdp_prog,  \* ctx->xdp_prog
    new,       \* `attached' in __xsk_setup_xdp_prog
    value,     \* *value_data in xsk_update_prog_refcnt
    map,       \* the program whose xsks_map the caller has got
    lock,      \* who holds the lock of xdp_lock_acquire
    attached, refcnt, xsks_map,   \* the programs on the device, and their data
    faults,
    lost,      \* ghost: counts nobody will give back, per program
    torn,      \* ghost: programs detached by a call that failed, or released by a
               \* socket that had not counted itself on them
    unpaired,  \* ghost: umems with a refcount or a ring given up by a failed call
    contended  \* ghost: umems with sockets that set ctx->xdp_prog, or the entry of their
               \* queue, for one another

procvars == <<umem, ctx, own, unpaired, contended>>
callvars == <<xdp_prog, new, value, map>>
progvars == <<attached, refcnt, xsks_map, torn>>
vars == <<procvars, callvars, progvars, bound, pc, lock, faults, lost>>

TypeOK ==
    /\ umem \in [Umems -> [created : BOOLEAN, refcount : Nat,
                           save : {"none", "mapped", "unmapped"}]]
    /\ ctx \in [Umems -> [Queues -> [refcount : Nat, mapped : BOOLEAN]]]
    /\ bound \in [Fds -> Queues \cup {None}]
    /\ pc \in [Callers -> {"closed", "lookup", "incr", "incr2", "attach", "map",
                           "open", "decr", "decr2", "detach", "close"}]
    /\ own \in [Sockets -> BOOLEAN]
    /\ xdp_prog \in [Callers -> Progs \cup {None}]
    /\ new \in [Callers -> BOOLEAN]
    /\ value \in [Callers -> Nat]
    /\ map \in [Callers -> Progs \cup {None}]
    /\ lock \in Callers \cup {None}
    /\ attached \subseteq Progs
    /\ refcnt \in [Progs -> Nat]
    /\ xsks_map \in [Progs -> [Queues -> Fds \cup {None}]]
    /\ lost \in [Progs -> Nat] /\ torn \subseteq Progs
    /\ unpaired \subseteq Umems /\ contended \subseteq Umems

NoUmem == [created |-> FALSE, refcount |-> 0, save |-> "none"]
NoCtx == [refcount |-> 0, mapped |-> FALSE]

Init ==
    /\ umem = [u \in Umems |-> NoUmem]
    /\ ctx = [u \in Umems |-> [q \in Queues |-> NoCtx]]
    /\ bound = [f \in Fds |-> None]
    /\ pc = [p \in Callers |-> IF p \in Controls THEN "lookup" ELSE "closed"]
    /\ own = [s \in Sockets |-> FALSE]
    /\ xdp_prog = [p \in Callers |-> None]
    /\ new = [p \in Callers |-> FALSE]
    /\ value = [p \in Callers |-> 0]
    /\ map = [p \in Callers |-> None]
    /\ lock = None
    /\ attached = {}
    /\ refcnt = [g \in Progs |-> 0]
    /\ xsks_map = [g \in Progs |-> [q \in Queues |-> None]]
    /\ faults = 0
    /\ lost = [g \in Progs |-> 0] /\ torn = {} /\ unpaired = {} /\ contended = {}

SocketsOf(u) == {s \in Sockets : Umem[s] = u}
Fd(s) == IF own[s] THEN s ELSE Umem[s]
InUse(u) == {s \in SocketsOf(u) : pc[s] # "closed"}
Idle(u) == \A s \in SocketsOf(u) : pc[s] \in {"closed", "open"}

Goto(p, l) == pc' = [pc EXCEPT ![p] = l]
Fault == faults < MaxFaults /\ faults' = faults + 1

\* The kernel takes a socket out of every map when its last fd is closed.
Forget(fs) ==
    xsks_map' = [g \in Progs |-> [q \in Queues |->
                   IF xsks_map[g][q] \in fs THEN None ELSE xsks_map[g][q]]]
Release(fs) == bound' = [f \in Fds |-> IF f \in fs THEN None ELSE bound[f]]

-----------------------------------------------------------------------------
(* Umems *)

xsk_umem__create(u) ==
    /\ ~umem[u].created
    /\ umem' = [umem EXCEPT ![u] = [created |-> TRUE, refcount |-> 0, save |-> "mapped"]]
    /\ unpaired' = unpaired \ {u}
    /\ UNCHANGED <<ctx, own, contended, callvars, progvars, bound, pc, lock, faults, lost>>

\* Mutant: the umem goes although sockets use it.
Deletable(u) == TRUE

Unused(u) == umem[u].refcount = 0

\* With -EBUSY nothing happens.
xsk_umem__delete(u) ==
    /\ umem[u].created /\ Idle(u) /\ Unused(u)
    /\ umem' = [umem EXCEPT ![u] = NoUmem]
    /\ Forget({u}) /\ Release({u})
    /\ contended' = contended \ {u}
    /\ UNCHANGED <<ctx, own, unpaired, callvars, attached, refcnt, torn, pc, lock,
                   faults, lost>>

-----------------------------------------------------------------------------
(* xsk_socket__create_shared, up to bind *)

\* xsk_socket__create passes fill_save and comp_save, which the first socket
\* takes; without rings only an existing context will do.
HasRings(s) ==
    LET u == Umem[s] IN
    s \in OwnRings \/ umem[u].save # "none" \/ ctx[u][Queue[s]].refcount > 0

\* xsk_get_ctx, or else xsk_create_ctx.
GetCtx(s) ==
    LET u == Umem[s]
        c == ctx[u][Queue[s]] IN
    IF c.refcount > 0 THEN [c EXCEPT !.refcount = @ + 1]
    ELSE [refcount |-> 1, mapped |-> umem[u].save # "unmapped"]

\* Mutant: the rings are unmapped with the first socket of a context.
PutCtxUnmap(c) == [refcount |-> c.refcount - 1, mapped |-> FALSE]

\* xsk_put_ctx: the last socket of a context takes the rings along.
PutCtx(c) == IF c.refcount = 1 THEN NoCtx ELSE [c EXCEPT !.refcount = @ - 1]

\* The kernel: a queue has one umem; a further socket of the umem shares the
\* queue of the umem's own socket or has one to itself.
BindOk(s) ==
    LET u == Umem[s]
        q == Queue[s]
        free == \A f \in Fds : bound[f] # q IN
    IF umem[u].refcount > 0
    THEN bound[u] # None /\ (bound[u] = q \/ free)
    ELSE bound[u] = None /\ free

\* *xsk_ptr = xsk; the rings of the umem now belong to the context.
Created(s, um) == [um EXCEPT ![Umem[s]].save = "none"]

\* s shares its context, and one of the two sockets loads the program; or it
\* loads the program where a socket that did not has left its entry.
Contends(s) ==
    \/ \E t \in InUse(Umem[s]) \ {s} : Queue[t] = Queue[s] /\ ~({s, t} \subseteq Inhibit)
    \/ s \notin Inhibit /\ \E g \in Progs : xsks_map[g][Queue[s]] # None

CanCreate(s) == pc[s] = "closed" /\ umem[Umem[s]].created /\ Idle(Umem[s])

Create(s) ==
    LET u == Umem[s]
        fd == IF umem[u].refcount > 0 THEN s ELSE u
        counted == [umem EXCEPT ![u].refcount = @ + 1] IN
    /\ CanCreate(s) /\ HasRings(s) /\ BindOk(s)
    /\ own' = [own EXCEPT ![s] = umem[u].refcount > 0]
    /\ ctx' = [ctx EXCEPT ![u][Queue[s]] = GetCtx(s)]
    /\ bound' = [bound EXCEPT ![fd] = Queue[s]]
    /\ IF s \in Inhibit
       THEN Goto(s, "open") /\ umem' = Created(s, counted)
       ELSE Goto(s, "lookup") /\ umem' = counted
    /\ contended' = IF Contends(s) THEN contended \cup {u} ELSE contended
    /\ UNCHANGED <<unpaired, callvars, progvars, lock, faults, lost>>

\* out_put_ctx unmaps the rings unless they are fill_save itself: rings that
\* were copied from fill_save go with it.
LosesRings(s) ==
    s \in OwnRings /\ umem[Umem[s]].save # "none"
    /\ ctx[Umem[s]][Queue[s]].refcount = 0

UnmapSaved(s) ==
    /\ umem' = [umem EXCEPT ![Umem[s]].save = IF LosesRings(s) THEN "unmapped" ELSE @]
    /\ unpaired' = IF LosesRings(s) THEN unpaired \cup {Umem[s]} ELSE unpaired

\* A refused bind, or an Rx or Tx ring that cannot be set up: everything is
\* undone.  What fails before the context is there leaves no trace.
CreateFails(s) ==
    /\ CanCreate(s) /\ HasRings(s)
    /\ (~BindOk(s) /\ UNCHANGED faults) \/ Fault
    /\ UnmapSaved(s)
    /\ UNCHANGED <<ctx, own, contended, callvars, progvars, bound, pc, lock, lost>>

\* socket() fails after umem->refcount++, which goto out_xsk_alloc keeps.
SocketFails(s) ==
    /\ CanCreate(s) /\ umem[Umem[s]].refcount > 0 /\ Fault
    /\ umem' = [umem EXCEPT ![Umem[s]].refcount = @ + 1]
    /\ unpaired' = unpaired \cup {Umem[s]}
    /\ UNCHANGED <<ctx, own, contended, callvars, progvars, bound, pc, lock, lost>>

-----------------------------------------------------------------------------
(* __xsk_setup_xdp_prog *)

\* Some xsk_def_prog among the programs of the dispatcher.
Lookup(p) ==
    /\ pc[p] = "lookup"
    /\ \/ /\ attached = {}
          /\ Goto(p, "attach") /\ UNCHANGED xdp_prog
       \/ \E g \in attached :
            xdp_prog' = [xdp_prog EXCEPT ![p] = g] /\ Goto(p, "incr")
    /\ UNCHANGED <<procvars, new, value, map, progvars, bound, lock, faults, lost>>

\* xdp_multiprog__get_from_ifindex fails, which is taken for an empty device.
LookupMisses(p) ==
    /\ pc[p] = "lookup" /\ attached # {} /\ Fault
    /\ Goto(p, "attach")
    /\ UNCHANGED <<procvars, callvars, progvars, bound, lock, lost>>

\* Mutant: the lock is not waited for.
LockIgnored == TRUE

LockFree == lock = None

\* xdp_lock_acquire, then bpf_map_lookup_elem.
ReadRefcnt(p, at, next) ==
    /\ pc[p] = at /\ LockFree
    /\ lock' = p
    /\ value' = [value EXCEPT ![p] = refcnt[xdp_prog[p]]]
    /\ Goto(p, next)
    /\ UNCHANGED <<procvars, xdp_prog, new, map, progvars, bound, faults, lost>>

\* Mutant: a program awaiting its detach is taken up again.
Revive(v, delta) == v + delta

Update(v, delta) == IF v = 0 THEN 0 ELSE v + delta

\* bpf_map_update_elem and xdp_lock_release; a program with count 0 awaits its
\* detach and is not used.
IncrRefcnt(p) ==
    /\ pc[p] = "incr2"
    /\ LET n == Update(value[p], 1) IN
       /\ refcnt' = [refcnt EXCEPT ![xdp_prog[p]] = n]
       /\ IF n = 0 THEN Goto(p, "attach") /\ xdp_prog' = [xdp_prog EXCEPT ![p] = None]
                   ELSE Goto(p, "map") /\ UNCHANGED xdp_prog
    /\ lock' = None /\ value' = [value EXCEPT ![p] = 0]
    /\ UNCHANGED <<procvars, new, map, attached, xsks_map, torn, bound, faults, lost>>

\* A program that is on no device and that nobody refers to.
Fresh(g) == g \notin attached /\ \A p \in Callers : xdp_prog[p] # g /\ map[p] # g

\* xdp_program__find_file and xdp_program__attach: a new copy of the program.
AttachCopy(p, g) ==
    /\ attached' = attached \cup {g}
    /\ refcnt' = [refcnt EXCEPT ![g] = 1]
    /\ xsks_map' = [xsks_map EXCEPT ![g] = [q \in Queues |-> None]]
    /\ xdp_prog' = [xdp_prog EXCEPT ![p] = g]
    /\ lost' = [lost EXCEPT ![g] = 0]
    /\ torn' = torn \ {g}

Attach(p) ==
    /\ pc[p] = "attach" /\ Cardinality(attached) < MAX_PROGS
    /\ \E g \in Progs : Fresh(g) /\ AttachCopy(p, g)
    /\ new' = [new EXCEPT ![p] = TRUE]
    /\ Goto(p, "map")
    /\ UNCHANGED <<procvars, value, map, bound, lock, faults>>

\* xsk_lookup_bpf_map and, for a socket, its entry; then the call returns 0.
UpdateMap(p) ==
    /\ pc[p] = "map"
    /\ IF p \in Sockets
       THEN /\ xsks_map' = [xsks_map EXCEPT ![xdp_prog[p]][Queue[p]] = Fd(p)]
            /\ umem' = Created(p, umem)
            /\ UNCHANGED <<xdp_prog, lost>>
       ELSE \* xsk_destroy_xsk_struct: the count stays
            /\ xdp_prog' = [xdp_prog EXCEPT ![p] = None]
            /\ lost' = [lost EXCEPT ![xdp_prog[p]] = @ + 1]
            /\ UNCHANGED <<xsks_map, umem>>
    /\ map' = [map EXCEPT ![p] = xdp_prog[p]]
    /\ new' = [new EXCEPT ![p] = FALSE]
    /\ Goto(p, "open")
    /\ UNCHANGED <<ctx, own, unpaired, contended, value, attached, refcnt, torn, bound,
                   lock, faults>>

\* out_mmap_tx to the end: the context and the umem are given back, an own fd
\* is closed.  umem->fd stays open, and bound.
Abandon(s) ==
    LET u == Umem[s]
        unmaps == s \in OwnRings /\ umem[u].save # "none" IN
    /\ ctx' = [ctx EXCEPT ![u][Queue[s]] = PutCtx(@)]
    /\ umem' = [umem EXCEPT ![u].refcount = @ - 1,
                            ![u].save = IF unmaps THEN "unmapped" ELSE @]
    /\ unpaired' = IF unmaps THEN unpaired \cup {u} ELSE unpaired
    /\ Release(IF own[s] THEN {s} ELSE {})
    /\ UNCHANGED <<own, contended>>

\* The end of a call that fails.
SetupFails(p) ==
    /\ IF p \in Sockets THEN Abandon(p) ELSE UNCHANGED <<procvars, bound>>
    /\ xdp_prog' = [xdp_prog EXCEPT ![p] = None]
    /\ new' = [new EXCEPT ![p] = FALSE]
    /\ value' = [value EXCEPT ![p] = 0]
    /\ Goto(p, "closed")
    /\ UNCHANGED map

\* err_prog_load before anything is counted: no such program, no lock, no room.
GivesUp(p) ==
    /\ pc[p] \in {"lookup", "incr", "attach"}
    /\ (pc[p] = "attach" /\ Cardinality(attached) = MAX_PROGS /\ UNCHANGED faults) \/ Fault
    /\ SetupFails(p)
    /\ UNCHANGED <<progvars, lock, lost>>

\* Past the count: err_prog_load leaves the program and the count as they are,
\* err_lookup first detaches the program if this call attached it.
FailsCounted(p) ==
    /\ pc[p] = "map" /\ Fault
    /\ LET g == xdp_prog[p] IN
       /\ \/ UNCHANGED <<attached, torn>>
          \/ new[p] /\ attached' = attached \ {g} /\ torn' = torn \cup {g}
       /\ lost' = [lost EXCEPT ![g] = @ + 1]
    /\ SetupFails(p)
    /\ UNCHANGED <<refcnt, xsks_map, lock>>

\* A socket created with INHIBIT_PROG_LOAD gets a map from a control process.
xsk_socket__update_xskmap(s, c) ==
    /\ s \in Inhibit /\ pc[s] = "open" /\ Idle(Umem[s])
    /\ map[c] # None
    /\ map' = [map EXCEPT ![s] = map[c]]
    /\ xsks_map' = [xsks_map EXCEPT ![map[c]][Queue[s]] = Fd(s)]
    /\ UNCHANGED <<procvars, xdp_prog, new, value, attached, refcnt, torn, bound, pc,
                   lock, faults, lost>>

-----------------------------------------------------------------------------
(* xsk_socket__delete *)

\* ctx->xdp_prog and ctx->xsks_map_fd are the context's, not the socket's: where
\* sockets contend for a context, the one that is deleted finds the program and
\* the map that another has put there, or NULL, or what has been freed.
Overwritten(s) ==
    /\ pc[s] = "open" /\ Idle(Umem[s]) /\ Umem[s] \in contended /\ Fault
    /\ \E g, m \in {None} \cup {h \in Progs : ~Fresh(h)} :
         /\ g # None => m # None
         /\ xdp_prog' = [xdp_prog EXCEPT ![s] = g]
         /\ map' = [map EXCEPT ![s] = m]
         /\ lost' = [h \in Progs |->
                       IF h = xdp_prog[s] /\ h # g THEN lost[h] + 1 ELSE lost[h]]
         /\ torn' = torn \cup ({g} \ {None, xdp_prog[s]})
    /\ UNCHANGED <<procvars, new, value, attached, refcnt, xsks_map, bound, pc, lock>>

xsk_delete_map_entry(s) ==
    /\ pc[s] = "open" /\ Idle(Umem[s]) /\ xdp_prog[s] # None
    /\ xsks_map' = [xsks_map EXCEPT ![map[s]][Queue[s]] = None]
    /\ Goto(s, "decr")
    /\ UNCHANGED <<procvars, callvars, attached, refcnt, torn, bound, lock, faults, lost>>

DecrRefcnt(s) ==
    /\ pc[s] = "decr2"
    /\ LET n == Update(value[s], -1) IN
       /\ refcnt' = [refcnt EXCEPT ![xdp_prog[s]] = n]
       /\ Goto(s, IF n = 0 THEN "detach" ELSE "close")
    /\ lock' = None /\ value' = [value EXCEPT ![s] = 0]
    /\ UNCHANGED <<procvars, xdp_prog, new, map, attached, xsks_map, torn, bound, faults,
                   lost>>

\* No lock, no decrement: `please detach program yourself'.
DecrFails(s) ==
    /\ pc[s] = "decr" /\ Fault
    /\ lost' = [lost EXCEPT ![xdp_prog[s]] = @ + 1]
    /\ Goto(s, "close")
    /\ UNCHANGED <<procvars, callvars, progvars, bound, lock>>

\* The result of xdp_program__detach is not looked at.
Detach(s) ==
    /\ pc[s] = "detach"
    /\ \/ attached' = attached \ {xdp_prog[s]} /\ UNCHANGED faults
       \/ Fault /\ UNCHANGED attached
    /\ Goto(s, "close")
    /\ UNCHANGED <<procvars, callvars, refcnt, xsks_map, torn, bound, lock, lost>>

Close(s) ==
    LET u == Umem[s] IN
    /\ pc[s] = "close" \/ (pc[s] = "open" /\ Idle(u) /\ xdp_prog[s] = None)
    /\ ctx' = [ctx EXCEPT ![u][Queue[s]] = PutCtx(@)]
    /\ umem' = [umem EXCEPT ![u].refcount = @ - 1]
    /\ own' = [own EXCEPT ![s] = FALSE]
    /\ LET fs == IF own[s] THEN {s} ELSE {} IN Forget(fs) /\ Release(fs)
    /\ xdp_prog' = [xdp_prog EXCEPT ![s] = None]
    /\ map' = [map EXCEPT ![s] = None]
    /\ Goto(s, "closed")
    /\ UNCHANGED <<unpaired, contended, new, value, attached, refcnt, torn, lock, faults,
                   lost>>

-----------------------------------------------------------------------------
(* Processes *)

\* Counted on, and not yet given back.
Counted(p, g) ==
    xdp_prog[p] = g /\ pc[p] \in {"map", "open", "decr", "decr2"}

\* The process of a umem dies: the kernel closes what it had open.
Crash(u) ==
    LET dead == SocketsOf(u) IN
    /\ umem[u].created /\ Fault
    /\ umem' = [umem EXCEPT ![u] = NoUmem]
    /\ ctx' = [ctx EXCEPT ![u] = [q \in Queues |-> NoCtx]]
    /\ unpaired' = unpaired \ {u} /\ contended' = contended \ {u}
    /\ own' = [s \in Sockets |-> s \notin dead /\ own[s]]
    /\ Forget(dead \cup {u}) /\ Release(dead \cup {u})
    /\ pc' = [p \in Callers |-> IF p \in dead THEN "closed" ELSE pc[p]]
    /\ xdp_prog' = [p \in Callers |-> IF p \in dead THEN None ELSE xdp_prog[p]]
    /\ map' = [p \in Callers |-> IF p \in dead THEN None ELSE map[p]]
    /\ new' = [p \in Callers |-> p \notin dead /\ new[p]]
    /\ value' = [p \in Callers |-> IF p \in dead THEN 0 ELSE value[p]]
    /\ lock' = IF lock \in dead THEN None ELSE lock
    /\ lost' = [g \in Progs |-> lost[g] + Cardinality({s \in dead : Counted(s, g)})]
    /\ UNCHANGED <<attached, refcnt, torn>>

Setup(p) ==
    \/ Lookup(p) \/ ReadRefcnt(p, "incr", "incr2") \/ IncrRefcnt(p) \/ Attach(p)
    \/ UpdateMap(p) \/ LookupMisses(p) \/ GivesUp(p) \/ FailsCounted(p)

Delete(s) ==
    \/ Overwritten(s) \/ xsk_delete_map_entry(s) \/ ReadRefcnt(s, "decr", "decr2") \/ DecrRefcnt(s)
    \/ DecrFails(s) \/ Detach(s) \/ Close(s)

Step(p) == Setup(p) \/ (p \in Sockets /\ Delete(p))

Next ==
    \/ \E u \in Umems : xsk_umem__create(u) \/ xsk_umem__delete(u) \/ Crash(u)
    \/ \E s \in Sockets : Create(s) \/ CreateFails(s) \/ SocketFails(s)
    \/ \E s \in Sockets, c \in Controls : xsk_socket__update_xskmap(s, c)
    \/ \E p \in Callers : Step(p)

Spec == Init /\ [][Next]_vars
-----------------------------------------------------------------------------
\* The count of a program is the number of sockets that rely on it, plus what
\* failed calls, control processes and crashes have left: no update is lost and
\* no socket is counted twice, whatever else happens on the device.  Only a
\* socket that contends for its context gives back what another has counted.
RefcntExact ==
    \A g \in attached \ torn :
      refcnt[g] = Cardinality({p \in Callers : Counted(p, g)}) + lost[g]

\* Packets of its queue reach every socket that was created with the program:
\* the program is attached, in use, has the socket in its map, and no other
\* program on the device diverts the queue; and they can reach a socket whose
\* map comes from a control process.  Two kinds of caller take a program away
\* from others: one that attached it and then fails (err_lookup), and one that
\* finds it in a context it contends for.  Sockets that contend for a context,
\* or for a queue where another has left its entry, are not served for sure.
LiveIsServed ==
    \A s \in Sockets :
      pc[s] = "open" /\ map[s] # None /\ map[s] \notin torn /\ Umem[s] \notin contended =>
        /\ map[s] \in attached /\ refcnt[map[s]] > 0
        /\ s \notin Inhibit =>
             /\ xsks_map[map[s]][Queue[s]] = Fd(s)
             /\ \A g \in attached : refcnt[g] > 0 => xsks_map[g][Queue[s]] \in {None, Fd(s)}

\* While no call is running, and unless one has failed, a context was overwritten
\* or a process has died, the programs on the device are those that open sockets
\* refer to and those of control processes: test_xsk_refcnt.c checks that a
\* program is attached if and only if it is referenced.
AttachedIffReferenced ==
    faults = 0 /\ (\A p \in Callers : pc[p] \in {"closed", "open"}) =>
      attached = {g \in Progs : \E s \in Sockets : xdp_prog[s] = g}
                 \cup {g \in attached : lost[g] > 0}

\* A umem counts the sockets that use it, so xsk_umem__delete refuses while there
\* are some, whatever failed before.  Only a failed socket() makes it refuse when
\* there are none: xsk_socket__create_shared then leaves the count too high.
UmemCounted ==
    \A u \in Umems :
      /\ umem[u].refcount >= Cardinality(InUse(u))
      /\ u \notin unpaired => umem[u].refcount = Cardinality(InUse(u))

\* The fill and completion rings of an open socket are mapped, although sockets
\* of a queue share them and failed calls unmap what they have mapped.  Only a
\* first socket with rings of its own, when it fails, unmaps the ones that the
\* umem goes on offering.
RingsMapped ==
    \A s \in Sockets :
      pc[s] # "closed" /\ Umem[s] \notin unpaired => ctx[Umem[s]][Queue[s]].mapped
=============================================================================
