----------------------------- MODULE Dispatcher -----------------------------
(***************************************************************************)
(* Several xdp_pass_user processes load and unload programs on one         *)
(* interface through libxdp.  The programs on the interface are components *)
(* of a dispatcher; adding or removing one builds a new dispatcher, pins   *)
(* its links in bpffs and swaps it with the old one, with no lock held     *)
(* from one of these steps to the next.  The lock directory is held while  *)
(* pins are read, made or removed, so each of these is one step; a process *)
(* may crash at any point, in the middle of such a step included.  The ip  *)
(* tool of manage_xdp.sh attaches and clears programs without any of this. *)
(***************************************************************************)
EXTENDS Naturals, FiniteSets

CONSTANTS
    Attachers,   \* processes that attach a program; the process names it
    Unloaders,   \* processes run with --unload <prog_id>
    UnloadAll,   \* processes run with --unload-all
    Cleaners,    \* processes in libxdp_clean_references
    Target,      \* [Unloaders -> the program to unload]
    MAX_RETRY,
    MAX_DISPATCHER_ACTIONS,
    MaxIp,       \* bound: commands of manage_xdp.sh beside the loaders
    Faults,      \* TRUE if building or pinning a dispatcher may fail
    Crashes,     \* TRUE if processes may crash
    NONE,        \* no program
    LEGACY       \* the program the ip tool attaches

Procs == Attachers \cup Unloaders \cup UnloadAll \cup Cleaners

\* A dispatcher is named by its maker and the attempt that made it.
Ids == Procs \X (0..MAX_RETRY)
Mains == Ids \cup {LEGACY}

ASSUME ProcsAssumption ==
    /\ Attachers \cap Unloaders = {} /\ Attachers \cap UnloadAll = {}
    /\ Attachers \cap Cleaners = {} /\ Unloaders \cap UnloadAll = {}
    /\ Unloaders \cap Cleaners = {} /\ UnloadAll \cap Cleaners = {}
    /\ Target \in [Unloaders -> Attachers \cup {LEGACY}]
ASSUME BoundsAssumption ==
    MAX_RETRY \in Nat /\ MAX_DISPATCHER_ACTIONS \in Nat /\ MaxIp \in Nat
ASSUME NamesAssumption ==
    /\ NONE # LEGACY /\ NONE \notin Ids /\ LEGACY \notin Ids
    /\ NONE \notin Procs /\ LEGACY \notin Procs /\ Procs \cap Ids = {}

VARIABLES
    hook,    \* the program on the interface
    progs,   \* components of each dispatcher generated
    dirs,    \* pin directories dispatch-<ifindex>-<id>
    links,   \* components whose link is pinned, per dispatcher
    pinned,  \* components whose program is pinned, per dispatcher
    lock,    \* the cleaner that holds the lock directory, or NONE
    pc,      \* where a process is
    stage,   \* the libxdp call it is in
    qid,     \* prog_id of xdp_multiprog__get_from_ifindex
    qretry,  \* its retry_counter
    mp,      \* the multiprog it returned
    base,    \* main program of the multiprog do_unload holds
    new,     \* the dispatcher the process has built
    retry,   \* retry_counter of attach_multi and detach_multi
    ret,     \* what the process reports
    todo,    \* directories libxdp_clean_references has still to look at
    victim,  \* the one it is about to remove
    ips      \* number of changes the ip tool has made

kernel == <<hook, progs>>
bpffs == <<dirs, links, pinned>>
clean == <<todo, victim>>
vars == <<hook, progs, dirs, links, pinned, lock, pc, stage, qid, qretry, mp,
          base, new, retry, ret, todo, victim, ips>>

NoMp == [id |-> NONE, progs |-> {}, legacy |-> FALSE]
Pcs == {"query", "open", "read", "use", "pin", "swap", "unpin_new", "unpin_old",
        "clean", "check", "remove", "done", "crashed"}
Stages == {"attach", "find", "detach", "all", "clean"}
Results == {"none", "ok", "EBUSY", "E2BIG", "ENOENT", "EAGAIN", "EUNPIN", "EFAULT"}

ProtocolOK ==
    /\ hook \in Mains \cup {NONE}
    /\ progs \in [Ids -> SUBSET Attachers]
    /\ dirs \subseteq Ids
    /\ links \in [Ids -> SUBSET Attachers]
    /\ pinned \in [Ids -> SUBSET Attachers]
    /\ lock \in Cleaners \cup {NONE}
    /\ pc \in [Procs -> Pcs]
    /\ stage \in [Procs -> Stages]
    /\ qid \in [Procs -> Mains \cup {NONE}]
    /\ qretry \in [Procs -> 0..MAX_RETRY]
    /\ mp \in [Procs -> [id : Mains \cup {NONE}, progs : SUBSET Attachers,
                         legacy : BOOLEAN]]
    /\ base \in [Procs -> Mains \cup {NONE}]
    /\ new \in [Procs -> Ids \cup {NONE}]
    /\ retry \in [Procs -> 0..MAX_RETRY]
    /\ ret \in [Procs -> Results]
    /\ todo \in [Procs -> SUBSET Ids]
    /\ victim \in [Procs -> Ids \cup {NONE}]

TypeOK == ProtocolOK /\ ips \in 0..MaxIp

Init ==
    /\ hook = NONE
    /\ progs = [d \in Ids |-> {}]
    /\ dirs = {}
    /\ links = [d \in Ids |-> {}]
    /\ pinned = [d \in Ids |-> {}]
    /\ lock = NONE
    /\ pc = [p \in Procs |-> IF p \in Cleaners THEN "clean" ELSE "query"]
    /\ stage = [p \in Procs |-> IF p \in Attachers THEN "attach"
                                ELSE IF p \in Unloaders THEN "find"
                                ELSE IF p \in UnloadAll THEN "all" ELSE "clean"]
    /\ qid = [p \in Procs |-> NONE]
    /\ qretry = [p \in Procs |-> 0]
    /\ mp = [p \in Procs |-> NoMp]
    /\ base = [p \in Procs |-> NONE]
    /\ new = [p \in Procs |-> NONE]
    /\ retry = [p \in Procs |-> 0]
    /\ ret = [p \in Procs |-> "none"]
    /\ todo = [p \in Procs |-> {}]
    /\ victim = [p \in Procs |-> NONE]
    /\ ips = 0

\* File descriptors of a running process.
Holds(p, d) ==
    pc[p] \notin {"done", "crashed"} /\ (mp[p].id = d \/ base[p] = d \/ new[p] = d)

\* bpf_prog_get_fd_by_id finds a program that is attached, open in a process,
\* or the target of a pinned link.
Live(d) ==
    \/ hook = d
    \/ \E p \in Procs : Holds(p, d)
    \/ d \in Ids /\ links[d] # {}

Goto(p, where) == pc' = [pc EXCEPT ![p] = where]

Return(p, result) ==
    /\ Goto(p, "done")
    /\ ret' = [ret EXCEPT ![p] = result]

-----------------------------------------------------------------------------
(* xdp_multiprog__get_from_ifindex *)

\* xdp_get_ifindex_prog_id leaves prog_id alone when nothing is attached, so
\* on a second call it still holds the id read before.
QueryId(p) == qid' = [qid EXCEPT ![p] = IF hook # NONE THEN hook ELSE @]

Query(p) ==
    /\ pc[p] = "query"
    /\ QueryId(p)
    /\ Goto(p, IF qid'[p] = NONE THEN "use" ELSE "open")
    /\ UNCHANGED <<kernel, bpffs, lock, stage, qretry, mp, base, new, retry, ret,
                   clean>>

\* xdp_multiprog__from_id.
Open(p) ==
    /\ pc[p] = "open"
    /\ Live(qid[p])
    /\ mp' = [mp EXCEPT ![p] = [id |-> qid[p], progs |-> {},
                                legacy |-> qid[p] = LEGACY]]
    /\ Goto(p, IF qid[p] = LEGACY THEN "use" ELSE "read")
    /\ UNCHANGED <<kernel, bpffs, lock, stage, qid, qretry, base, new, retry, ret,
                   clean>>

\* Mutant: retries are not counted.
OpenRetryForever(p) ==
    /\ pc[p] = "open"
    /\ ~ Live(qid[p])
    /\ Goto(p, "query")
    /\ UNCHANGED <<kernel, bpffs, lock, stage, qid, qretry, mp, base, new, retry, ret,
                   clean>>

\* Mutant: one retry too many.
OpenRetryLate(p) ==
    /\ pc[p] = "open"
    /\ ~ Live(qid[p])
    /\ IF qretry[p] > MAX_RETRY
       THEN Goto(p, "use") /\ UNCHANGED qretry
       ELSE Goto(p, "query") /\ qretry' = [qretry EXCEPT ![p] = @ + 1]
    /\ UNCHANGED <<kernel, bpffs, lock, stage, qid, mp, base, new, retry, ret,
                   clean>>

OpenRetry(p) ==
    /\ pc[p] = "open"
    /\ ~ Live(qid[p])
    /\ IF qretry[p] = MAX_RETRY
       THEN Goto(p, "use") /\ UNCHANGED qretry
       ELSE Goto(p, "query") /\ qretry' = [qretry EXCEPT ![p] = @ + 1]
    /\ UNCHANGED <<kernel, bpffs, lock, stage, qid, mp, base, new, retry, ret,
                   clean>>

\* xdp_multiprog__link_pinned_progs; if a pin is missing the multiprog is marked
\* legacy.
Read(p) ==
    /\ pc[p] = "read"
    /\ lock = NONE
    /\ LET d == mp[p].id
           ok == d \in dirs /\ progs[d] \subseteq pinned[d]
       IN  mp' = [mp EXCEPT ![p] = [id |-> d, progs |-> IF ok THEN progs[d] ELSE {},
                                    legacy |-> ~ ok]]
    /\ Goto(p, "use")
    /\ UNCHANGED <<kernel, bpffs, lock, stage, qid, qretry, base, new, retry, ret,
                   clean>>

-----------------------------------------------------------------------------
(* xdp_program__attach_multi, xdp_program__detach_multi, do_unload *)

\* A fresh call of get_from_ifindex.
StartQuery(p) ==
    /\ Goto(p, "query")
    /\ qid' = [qid EXCEPT ![p] = NONE]
    /\ qretry' = [qretry EXCEPT ![p] = 0]
    /\ mp' = [mp EXCEPT ![p] = NoMp]
    /\ new' = [new EXCEPT ![p] = NONE]

\* xdp_multiprog__generate: load a dispatcher and link components S to it.
Generate(p, S) ==
    LET d == <<p, retry[p]>> IN
    /\ progs' = [progs EXCEPT ![d] = S]
    /\ new' = [new EXCEPT ![p] = d]
    /\ Goto(p, "pin")
    /\ UNCHANGED ret

\* A failed get_from_ifindex counts as an empty interface.
AttachMulti(p) ==
    /\ pc[p] = "use" /\ stage[p] = "attach"
    /\ IF Cardinality(mp[p].progs) + 1 > MAX_DISPATCHER_ACTIONS
       THEN Return(p, "E2BIG") /\ UNCHANGED <<progs, new>>
       ELSE IF mp[p].legacy
       THEN Return(p, "EBUSY") /\ UNCHANGED <<progs, new>>
       ELSE Generate(p, mp[p].progs \cup {p})
    /\ UNCHANGED <<hook, bpffs, lock, stage, qid, qretry, mp, base, retry, clean>>

\* do_unload looks the program up, then calls xdp_program__detach.
FindProgram(p) ==
    /\ pc[p] = "use" /\ stage[p] = "find"
    /\ IF Target[p] \in mp[p].progs \/ mp[p].id = Target[p]
       THEN /\ StartQuery(p)
            /\ stage' = [stage EXCEPT ![p] = "detach"]
            /\ base' = [base EXCEPT ![p] = mp[p].id]
            /\ UNCHANGED ret
       ELSE Return(p, "ENOENT") /\ UNCHANGED <<stage, base, qid, qretry, mp, new>>
    /\ UNCHANGED <<kernel, bpffs, lock, retry, clean>>

DetachMulti(p) ==
    /\ pc[p] = "use" /\ stage[p] = "detach"
    /\ IF mp[p].id = Target[p] \/ mp[p].progs = {Target[p]}
       THEN Goto(p, "swap") /\ UNCHANGED <<progs, new, ret>>
       ELSE IF Target[p] \in mp[p].progs
       THEN Generate(p, mp[p].progs \ {Target[p]})
       ELSE Return(p, "ENOENT") /\ UNCHANGED <<progs, new>>
    /\ UNCHANGED <<hook, bpffs, lock, stage, qid, qretry, mp, base, retry, clean>>

\* do_unload with unload_all: xdp_multiprog__detach.
DetachAll(p) ==
    /\ pc[p] = "use" /\ stage[p] = "all"
    /\ IF mp[p].id = NONE THEN Return(p, "ENOENT")
       ELSE Goto(p, "swap") /\ UNCHANGED ret
    /\ UNCHANGED <<kernel, bpffs, lock, stage, qid, qretry, mp, base, new, retry,
                   clean>>

\* Mutant: the links are pinned, the programs are not.
PinLinks(p) ==
    /\ pc[p] = "pin"
    /\ lock = NONE
    /\ dirs' = dirs \cup {new[p]}
    /\ links' = [links EXCEPT ![new[p]] = progs[new[p]]]
    /\ Goto(p, "swap")
    /\ UNCHANGED <<kernel, pinned, lock, stage, qid, qretry, mp, base, new, retry, ret,
                   clean>>

\* xdp_multiprog__pin, under the lock.
Pin(p) ==
    /\ pc[p] = "pin"
    /\ lock = NONE
    /\ dirs' = dirs \cup {new[p]}
    /\ links' = [links EXCEPT ![new[p]] = progs[new[p]]]
    /\ pinned' = [pinned EXCEPT ![new[p]] = progs[new[p]]]
    /\ Goto(p, "swap")
    /\ UNCHANGED <<kernel, lock, stage, qid, qretry, mp, base, new, retry, ret,
                   clean>>

\* Loading or pinning the dispatcher fails; err_unpin leaves nothing behind.
PinFails(p) ==
    /\ Faults
    /\ pc[p] = "pin"
    /\ Return(p, "EFAULT")
    /\ UNCHANGED <<kernel, bpffs, lock, stage, qid, qretry, mp, base, new, retry,
                   clean>>

\* Mutant: the expected program is not passed to the kernel.
SwapAlways(p) ==
    /\ pc[p] = "swap"
    /\ hook' = new[p]
    /\ IF mp[p].id = NONE \/ mp[p].legacy
       THEN Return(p, "ok")
       ELSE Goto(p, "unpin_old") /\ UNCHANGED ret
    /\ UNCHANGED <<progs, bpffs, lock, stage, qid, qretry, mp, base, new, retry,
                   clean>>

\* xdp_multiprog__attach: the kernel swaps only if the interface still carries
\* the old program, or, with UPDATE_IF_NOEXIST, still none.
Swap(p) ==
    /\ pc[p] = "swap"
    /\ hook = mp[p].id
    /\ hook' = new[p]
    /\ IF mp[p].id = NONE \/ mp[p].legacy
       THEN Return(p, "ok")
       ELSE Goto(p, "unpin_old") /\ UNCHANGED ret
    /\ UNCHANGED <<progs, bpffs, lock, stage, qid, qretry, mp, base, new, retry,
                   clean>>

TryAgain(p) ==
    IF retry[p] = MAX_RETRY
    THEN Return(p, "EBUSY") /\ UNCHANGED <<qid, qretry, mp, new, retry>>
    ELSE /\ StartQuery(p)
         /\ retry' = [retry EXCEPT ![p] = @ + 1]
         /\ UNCHANGED ret

SwapFails(p) ==
    /\ pc[p] = "swap"
    /\ hook # mp[p].id
    /\ \/ /\ stage[p] = "all"
          /\ Return(p, "EAGAIN")
          /\ UNCHANGED <<qid, qretry, mp, new, retry>>
       \/ /\ stage[p] # "all" /\ new[p] = NONE
          /\ TryAgain(p)
       \/ /\ stage[p] # "all" /\ new[p] # NONE
          /\ Goto(p, "unpin_new")
          /\ UNCHANGED <<qid, qretry, mp, new, retry, ret>>
    /\ UNCHANGED <<kernel, bpffs, lock, stage, base, clean>>

Whole(d) == d \in dirs /\ links[d] = progs[d] /\ pinned[d] = progs[d]

RemoveDir(d) ==
    /\ dirs' = dirs \ {d}
    /\ links' = [links EXCEPT ![d] = {}]
    /\ pinned' = [pinned EXCEPT ![d] = {}]

\* xdp_multiprog__unpin, under the lock, component by component, link first; it
\* stops at a file that a cleaner has removed, and the directory stays.
Unpin(d) ==
    /\ lock = NONE
    /\ IF Whole(d) THEN RemoveDir(d)
       ELSE \E L \in SUBSET links[d] :
              /\ links' = [links EXCEPT ![d] = L]
              /\ pinned' = [pinned EXCEPT ![d] = @ \ (links[d] \ L)]
              /\ Cardinality((links[d] \ L) \ pinned[d]) <= 1
              /\ UNCHANGED dirs

\* Mutant: the failed dispatcher's pins are left behind.
LeaveNew(p) ==
    /\ pc[p] = "unpin_new"
    /\ IF mp[p].id = NONE
       THEN Return(p, "EBUSY") /\ UNCHANGED <<qid, qretry, mp, new, retry>>
       ELSE TryAgain(p)
    /\ UNCHANGED <<kernel, bpffs, lock, stage, base, clean>>

\* After a failed swap; only a failed replacement is retried.
UnpinNew(p) ==
    /\ pc[p] = "unpin_new"
    /\ Unpin(new[p])
    /\ IF mp[p].id = NONE
       THEN Return(p, "EBUSY") /\ UNCHANGED <<qid, qretry, mp, new, retry>>
       ELSE TryAgain(p)
    /\ UNCHANGED <<kernel, lock, stage, base, clean>>

UnpinOld(p) ==
    /\ pc[p] = "unpin_old"
    /\ Unpin(mp[p].id)
    /\ Return(p, IF Whole(mp[p].id) \/ new[p] # NONE THEN "ok" ELSE "EUNPIN")
    /\ UNCHANGED <<kernel, lock, stage, qid, qretry, mp, base, new, retry, clean>>

-----------------------------------------------------------------------------
(* libxdp_clean_references holds the lock from start to end. *)

CleanStart(p) ==
    /\ pc[p] = "clean"
    /\ lock = NONE
    /\ lock' = p
    /\ todo' = [todo EXCEPT ![p] = dirs]
    /\ Goto(p, "check")
    /\ UNCHANGED <<kernel, bpffs, stage, qid, qretry, mp, base, new, retry, ret,
                   victim>>

\* Mutant: directories are kept as long as anything is attached.
CleanCheckAny(p) ==
    /\ pc[p] = "check"
    /\ \E d \in todo[p] :
         /\ QueryId(p)
         /\ IF qid'[p] # NONE
            THEN todo' = [todo EXCEPT ![p] = @ \ {d}] /\ UNCHANGED <<pc, victim>>
            ELSE /\ victim' = [victim EXCEPT ![p] = d]
                 /\ Goto(p, "remove")
                 /\ UNCHANGED todo
    /\ UNCHANGED <<kernel, bpffs, lock, stage, qretry, mp, base, new, retry, ret>>

CleanCheck(p) ==
    /\ pc[p] = "check"
    /\ \E d \in todo[p] :
         /\ QueryId(p)
         /\ IF qid'[p] = d
            THEN todo' = [todo EXCEPT ![p] = @ \ {d}] /\ UNCHANGED <<pc, victim>>
            ELSE /\ victim' = [victim EXCEPT ![p] = d]
                 /\ Goto(p, "remove")
                 /\ UNCHANGED todo
    /\ UNCHANGED <<kernel, bpffs, lock, stage, qretry, mp, base, new, retry, ret>>

\* remove_pin_dir.
CleanRemove(p) ==
    /\ pc[p] = "remove"
    /\ RemoveDir(victim[p])
    /\ todo' = [todo EXCEPT ![p] = @ \ {victim[p]}]
    /\ Goto(p, "check")
    /\ UNCHANGED <<kernel, lock, stage, qid, qretry, mp, base, new, retry, ret,
                   victim>>

CleanEnd(p) ==
    /\ pc[p] = "check"
    /\ todo[p] = {}
    /\ lock' = NONE
    /\ Return(p, "ok")
    /\ UNCHANGED <<kernel, bpffs, stage, qid, qretry, mp, base, new, retry, clean>>

\* remove_pin_dir stops early: files of a directory go in any order.
RemoveSome(p) ==
    /\ pc[p] = "remove"
    /\ \E L \in SUBSET links[victim[p]], P \in SUBSET pinned[victim[p]] :
         /\ links' = [links EXCEPT ![victim[p]] = L]
         /\ pinned' = [pinned EXCEPT ![victim[p]] = P]
    /\ lock' = NONE
    /\ UNCHANGED <<kernel, dirs, stage, qid, qretry, mp, base, new, retry, clean>>

CleanFails(p) == Faults /\ RemoveSome(p) /\ Return(p, "EFAULT")

-----------------------------------------------------------------------------
(* The environment: crashes, and the ip tool. *)

\* The kernel closes the file descriptors and drops the lock.
Crash(p) ==
    /\ Crashes
    /\ pc[p] \notin {"done", "crashed"}
    /\ Goto(p, "crashed")
    /\ lock' = IF lock = p THEN NONE ELSE lock
    /\ UNCHANGED <<kernel, bpffs, stage, qid, qretry, mp, base, new, retry, ret,
                   clean>>

CleanCrash(p) == Crashes /\ RemoveSome(p) /\ Goto(p, "crashed") /\ UNCHANGED ret

\* Some components are pinned, the last one perhaps without its program.
CrashPinning(p) ==
    /\ Crashes
    /\ pc[p] = "pin" /\ lock = NONE
    /\ dirs' = dirs \cup {new[p]}
    /\ \E L \in SUBSET progs[new[p]] : \E P \in SUBSET L :
         /\ Cardinality(L \ P) <= 1
         /\ links' = [links EXCEPT ![new[p]] = L]
         /\ pinned' = [pinned EXCEPT ![new[p]] = P]
    /\ Goto(p, "crashed")
    /\ UNCHANGED <<kernel, lock, stage, qid, qretry, mp, base, new, retry, ret,
                   clean>>

\* Some components are unpinned, the last one perhaps not its program.
CrashUnpinning(p) ==
    LET d == IF pc[p] = "unpin_old" THEN mp[p].id ELSE new[p] IN
    /\ Crashes
    /\ pc[p] \in {"unpin_new", "unpin_old"} /\ lock = NONE
    /\ \E L \in SUBSET links[d], P \in SUBSET pinned[d] :
         /\ pinned[d] \ (links[d] \ L) \subseteq P
         /\ Cardinality(P \cap (links[d] \ L)) <= 1
         /\ Cardinality((links[d] \ L) \ pinned[d]) <= 1
         /\ links' = [links EXCEPT ![d] = L]
         /\ pinned' = [pinned EXCEPT ![d] = P]
    /\ Goto(p, "crashed")
    /\ UNCHANGED <<kernel, dirs, lock, stage, qid, qretry, mp, base, new, retry, ret,
                   clean>>

\* ip link set ... xdp object: refused if a program is attached.
IpAttach ==
    /\ ips < MaxIp /\ ips' = ips + 1
    /\ hook = NONE
    /\ hook' = LEGACY
    /\ UNCHANGED <<progs, bpffs, lock, pc, stage, qid, qretry, mp, base, new, retry,
                   ret, clean>>

\* ip link set ... xdp off: whatever is attached.
IpOff ==
    /\ ips < MaxIp /\ ips' = ips + 1
    /\ hook # NONE
    /\ hook' = NONE
    /\ UNCHANGED <<progs, bpffs, lock, pc, stage, qid, qretry, mp, base, new, retry,
                   ret, clean>>

Step(p) ==
    \/ Query(p) \/ Open(p) \/ OpenRetry(p) \/ Read(p)
    \/ AttachMulti(p) \/ FindProgram(p) \/ DetachMulti(p) \/ DetachAll(p)
    \/ Pin(p) \/ PinFails(p) \/ Swap(p) \/ SwapFails(p)
    \/ UnpinNew(p) \/ UnpinOld(p)
    \/ CleanStart(p) \/ CleanCheck(p) \/ CleanRemove(p) \/ CleanFails(p) \/ CleanEnd(p)

Process(p) == Step(p) /\ UNCHANGED ips
CrashAnywhere(p) ==
    /\ Crash(p) \/ CrashPinning(p) \/ CrashUnpinning(p) \/ CleanCrash(p)
    /\ UNCHANGED ips

Next ==
    \/ \E p \in Procs : Process(p) \/ CrashAnywhere(p)
    \/ IpAttach
    \/ IpOff

\* Every running process is scheduled; flock hands the lock on.
Spec == Init /\ [][Next]_vars /\ \A p \in Procs : WF_vars(Process(p))

-----------------------------------------------------------------------------
AttachedIsPinned == hook \in Ids => Whole(hook)

\* Until somebody calls libxdp_clean_references the attached dispatcher has all
\* its components pinned, link and program, whoever crashed where and whatever
\* the ip tool did: closing every file descriptor detaches nothing
\* (protocol.org:309-311).
PinnedUntilCleaned == (\A c \in Cleaners : pc[c] = "clean") => AttachedIsPinned

\* The programs that requests have put on the interface.
Loaded ==
    IF hook \in Ids THEN progs[hook] ELSE IF hook = LEGACY THEN {LEGACY} ELSE {}

\* A component sees packets while its link is pinned, or open in the process
\* that made the dispatcher.
Linked(d) ==
    {c \in progs[d] :
       c \in links[d] \/ \E p \in Procs : new[p] = d /\ pc[p] \notin {"done", "crashed"}}

Detached == IF hook \in Ids THEN progs[hook] \ Linked(hook) ELSE {}

Status(p) ==
    IF pc[p] = "crashed" THEN "crashed"
    ELSE IF pc[p] \in {"unpin_old", "check", "remove"} THEN "applied"
    ELSE IF pc[p] # "done" THEN "pending"
    ELSE IF ret[p] = "ok" THEN "ok" ELSE "failed"

Abstract == INSTANCE HookContents WITH
    IpTool <- MaxIp > 0, loaded <- Loaded, detached <- Detached,
    status <- [p \in Procs |-> Status(p)]

\* Concurrent loads and unloads through libxdp behave as indivisible changes of
\* the set of programs on the interface: no update is lost, a request that
\* reports success took effect exactly once and one that reports failure never,
\* and every program on the interface sees its packets.  Once somebody has
\* called libxdp_clean_references that is all that may go wrong: an unload may
\* report the failure to remove pins that are gone, and programs may be cut off
\* from the packets, although they stay components of the dispatcher and the
\* next load that finds their pins brings them back.
ImplementsHookContents == Abstract!Spec

\* When every process has returned, no cleaner failed, none crashed and the ip
\* tool was not used, the only pin directory is that of the dispatcher on the
\* interface: retries and failures leak nothing.
NoStalePins ==
    /\ \A p \in Procs : pc[p] = "done"
    /\ \A c \in Cleaners : ret[c] = "ok"
    /\ ips = 0
    => dirs \subseteq {hook}

\* libxdp_clean_references, started when no other process is running, takes away
\* what crashed processes and the ip tool left behind and spares the attached
\* dispatcher, unless it fails itself.
CleanReclaims ==
    \A c \in Cleaners :
      /\ pc[c] = "clean" /\ ips = MaxIp /\ AttachedIsPinned
      /\ \A p \in Procs \ {c} : pc[p] \in {"done", "crashed"}
      ~> \/ pc[c] = "crashed" \/ ret[c] = "EFAULT"
         \/ dirs \subseteq {hook} /\ AttachedIsPinned

\* Every process returns or crashes: retries are bounded, the lock is released.
AllReturn == <>(\A p \in Procs : pc[p] \in {"done", "crashed"})
=============================================================================
