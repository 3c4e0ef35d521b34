# Verification of Kernel-Bypass-Networking

TLA+ models of the repository's own programs, checked with TLC on small
instances, and theorems about them proved with TLAPS for every value of the
constants. `PROJECT.json` maps every definition to the lines it models; paths
there start at the directory that holds the repository as `src/`.

## 1. The system

| Part | Source | State and operations | What is hard about it |
|---|---|---|---|
| XDP echo programs | `src/xdp/xdp_icmp_echo.c`, `xdp_echo_kern.c` | a packet, rewritten in place | bounds from packet fields, byte order, an answer that might be answered |
| veth link | `Scripts/manage_xdp.sh` | a program per end; attach-pass, attach-echo, clear-xdp | programs come and go while packets fly |
| parsing and rewriting helpers | `src/common/parsing_helpers.h`, `rewrite_helpers.h` | cursor, packet, headroom | chains of calls, length fields, VLAN nesting |
| UDP echo client and server | `src/echocli.c`, `src/server.c` | a loop each, one socket buffer, a clock per client | loss, duplicates, reordering, a blocking receive, a clock set back |
| `xdp_pass_user` | `src/xdp/xdp_pass_user.c`, `src/common/common_params.c` | configuration, exit status | order of options, errors after the effect |
| loading helpers | `src/common/common_user_bpf_xdp.c` | the program found on a device | snapshot used after it is stale |
| map pinning loader | `src/common/common_libbpf.c` | pins in bpffs, descriptors | two loaders, each finding the pin missing |
| statistics | `src/common/xdp_stats_kern.h` | a record per CPU and action | updates without atomic operations, torn reads |
| dispatcher protocol | `src/lib/xdp-tools/lib/libxdp/libxdp.c` | attached dispatcher, pins | optimistic concurrency, crashes, retries |
| AF_XDP rings | `src/lib/xdp-tools/headers/xdp/xsk.h` | shared and cached indices, slots | wrap-around, stale copies of the other end's index |
| AF_XDP sockets | `src/lib/xdp-tools/lib/libxdp/xsk.c` | umems, contexts, one counted program per device | count, attach and detach are separate steps of several processes |

They interact as follows. `xdp_pass_user` parses its options and calls libxdp,
which puts programs on an interface as components of a dispatcher.
`manage_xdp.sh` attaches and clears programs on the same interfaces without
libxdp. The programs answer packets before the network stack and the UDP server
behind it see them. AF_XDP sockets are the way to take packets from a program to
a process: they attach their own program through the same dispatcher and pass
descriptors through the rings. The last three parts are vendored. They are
modelled because what the loader promises rests on them and on nothing else, and
because they hold most of the concurrency of the repository.

## 2. Modules

| Module | Models | Built on |
|---|---|---|
| `Frames` | a frame as words between `data` and `data_end`, header fields | |
| `XdpEcho` | the two programs as functions of a frame | `Frames` |
| `EchoLink` | the veth pair, two hooks, the script | `XdpEcho` |
| `PacketHelpers` | a program that chains the helpers | `Frames` |
| `UdpEcho` | clients, server, network | |
| `PassUser` | command line to exit status | |
| `PinnedMaps` | concurrent `bpf_prog_load_xattr_maps` | |
| `XdpStats` | `xdp_stats_record_action` on several CPUs, and a reader | |
| `Dispatcher` | concurrent loads and unloads through libxdp | |
| `HookContents` | what loading and unloading promises | refined by `Dispatcher` |
| `XskRing` | a ring and its two ends | |
| `RingQueue` | a bounded FIFO queue | refined by `XskRing` |
| `XskSocket` | umems, sockets and the program they share | |

`MC*` modules hold inputs and constants for TLC, `*Proofs` modules theorems about
the module they are named after; `LoaderProofs` those about `PinnedMaps` and
`PassUser`, and extends both (hence `UserInit`, `UserNext` and `UserSpec` in the
latter).

**Frames and the echo programs.** A frame is a sequence of 16-bit words with
their value on the wire; `bpf_htons` swaps the bytes, as on a little-endian host.
Headers start at even offsets and bounds are even, so an odd last byte never
matters. `bpf_csum_diff` refuses sizes that are not multiples of 4, as the kernel
does. The tests of the C programs are the conjuncts of `IcmpReflects` and the
branches of `xdp_udp_echo`.

**EchoLink.** `prog` is the program at each end, `wire` the packets in flight,
`stack` those handed on. Ghosts: a packet carries the frame as sent and how often
it was reflected, and `udpAt` is the set of ends that have ever had
`xdp_udp_echo`. `clear_xdp` is two steps, one command each.

**PacketHelpers.** `pos` is `nh->pos` as an offset. Each parser gives the cursor
it leaves and the value it returns, also when it fails. A rewrite moves `data`,
so the program parses again. The program itself is external: it calls the helper
the last content type calls for.

**UdpEcho.** Sequence numbers are ghosts: every probe has the same bytes. The
server's `buf` and `peer` survive from one round to the next, as in the C code.
Each client reads a clock of its own before `sendto` and after `recv`; it advances
at any time and may be set back, as `gettimeofday` may. A payload longer than the
server's buffer comes back cut. The client looks at the result of no call: a failed
`recv` counts as a round trip (`RecvFails`), and when `socket` has failed that is
all there is.

**PassUser.** Options are taken one per step. What libxdp does to a device is one
step here; `Dispatcher` takes it apart. `parse_cmdline_args` copies the option table
without its terminating entry, so for a name that is not in it `getopt_long` reads
on: the option is refused or the process ends. Options whose fields the program never
reads have no effect. An error of `do_unload` may come after its effect.

**PinnedMaps.** One step per system call. `common_libbpf.c` is not linked into a
target of the Makefiles, and calls `bpf_object__open_xattr`, which the vendored
libbpf no longer has; the function is modelled as it is written. Each requested
name occurs once, and names stand for their pin paths. Every call may fail, opening a
pin that is there included.

**XdpStats.** Each load and each store of the two additions is a step. A CPU
finishes one packet before the next (softirq); CPUs and the reader interleave. An
action without a record is turned away, by the test of the action or by that of
the pointer.

**Dispatcher.** `hook` is the program on the interface; `dirs`, `links` and
`pinned` are bpffs; `mp`, `new` and the counters are a process's locals. Reading,
making and removing pins hold the directory lock and are one step each, except
that a crash or an error may leave them half done, in the order in which each of
the three functions goes through the files. Query, open, build, pin, swap and unpin
are separate steps. libxdp's `prog_id` keeps its value over retries, and so does
`qid`. `libxdp_clean_references` holds the lock from start to end and looks at one
directory per step.

A component sees packets while its link is pinned or held by the process that
built the dispatcher (`Linked`): `libxdp.c:2833` has "The attach will disappear once
this fd is closed".

**HookContents.** The programs that requests have put on the interface (`loaded`),
those among them that no packet reaches (`detached`), and a status per request. A
request takes effect in one step, or not at all, its status says which, and every
loaded program sees packets. `libxdp_clean_references` breaks the last two: a cleaner
that takes the pins of a dispatcher which is not on the interface yet leaves it
without links when its loader returns, and an unload may find the old pins gone
and report an error after it took effect. `CutOff` and `Finish` allow just that, and
only once a cleaner has begun.

**XskRing.** The shared `producer` and `consumer`, and at each end copies of both,
`cached_prod` and `cached_cons`, reduced modulo `U32`; `reserved`, `filled`,
`submitted`, `peeked` and `released` are ghost counts that do not wrap. A copy is
refreshed only when it runs short, in `xsk_prod_nb_free` and `xsk_cons_nb_avail`.
The kernel's end keeps the same protocol (external).

**XskSocket.** Each call of `xsk.c` is split where another process can get in
between: at the lookup of the program, the lock around the count, the attach and
the detach. Attach and detach are single steps, which is what `HookContents` says
of them. The sockets of a umem belong to one process, which makes one call at a
time and may die anywhere; calls may fail. A control process only calls
`xsk_setup_xdp_prog`. The ghosts `lost`, `torn` and `unpaired` keep account of what
failed calls, deaths and control processes leave behind.

The program and the map belong to a context, that is to a umem and a queue, and
`xsk_setup_xdp_prog` sets them for each socket it is called for. Nothing keeps two
sockets from loading the program into one context; the second overwrites what the
first relies on, and whichever is deleted first gives back, detaches and closes the
other's (`xsk.c:1268`, `1284`). `Contends` says when a new socket gets into this,
the ghost `contended` remembers its umem, and `Overwritten` lets a socket there find
any program and map, or none, when it is deleted. `Progs` bounds how many
copies of the program are loaded at a time: an attach takes a copy that nobody
refers to, and waits while there is none.

## 3. Runs

Passing runs:

| Run | Bounds | Shows |
|---|---|---|
| `echo_link` | 19 frames, 2 sent, 4 reflections | `ReflectedAtMostOnce`, `ReflectsEchoRequests`, `UdpTurnsByParity`, `RequestsAreBypassed`, `WireDrains` |
| `packet_helpers` | 21 packets, 12 bytes of headroom, 4 tag arguments | `CursorInBounds`, `RewritesUndo`, `SkipsTags` |
| `udp_echo` | 2 clients, 2 rounds, 1 server error; loss, duplicate and a failed `recv` for one client, a tick and a clock set back for the other | `SamplesAreEchoes`, `Conservation`, `MeasuresAgree`, `Completes` |
| `pass_user` | all command lines of up to 3 of 15 options, beside a second process | `ParsedAsWritten`, `ExitTellsEffect` |
| `pinned_maps` | 3 loaders, 3 names, every call failing, one loader whose `bpf_map__reuse_fd` may fail | `HandlesAgree`, `SharedOrWarned` |
| `xdp_stats` | 2 CPUs, 2 packets each, 2 sizes, 2 counted actions and one past the limit | `CountersGrow`, `NoLostUpdate`, `SnapshotNearlyWhole` |
| `dispatcher_race` | 2 loads, an unload of one and of the script's program, 2 retries, room for 2, the script once, failing pins, crashes | `PinnedUntilCleaned`, `NoStalePins`, `ImplementsHookContents`, `AllReturn` |
| `dispatcher_clean` | 2 loads, 1 unload-all, 1 cleaner, no retry, room for 2, the script once, failing pins and unpins, crashes | `ImplementsHookContents`, `CleanReclaims` |
| `xsk_ring` | 4 slots, indices modulo 8, batches of 1 to 3, 18 entries | `EntriesIntact`, `NoOverrun`, `ImplementsQueue`, `AllDelivered` |
| `xsk_socket` | 4 sockets on 2 umems and 2 queues, 1 control process, 2 copies of the program, 1 fault or death | `RefcntExact`, `LiveIsServed`, `AttachedIffReferenced`, `UmemCounted`, `RingsMapped` |

`TypeOK` is checked in one run of every module but `EchoLink`, `XdpStats`, `PassUser`
and `XskRing`; of all but `PassUser` it is proved. In `packet_helpers` it includes the
range of what a helper returns, which lengths from the packet go into.

The frames cover every branch of the programs, both sides of every bound, header
lengths of 2 to 6 and 15 words, fragments and other protocols; a packet that
could be reflected twice would be, well within the four reflections allowed. In
`packet_helpers` the headroom allows three pushes, one more than the
`VLAN_MAX_DEPTH` of 2 that `parse_ethhdr` skips. Two packets per CPU let an
update meet one of the other CPU and a reader in every order. Three loaders give a
pin a maker, a loser of the race and a late comer. In `udp_echo` one client has an
empty and one an oversized payload. In the dispatcher runs the retry limit, 10 in
the code, is low enough to be hit, and the script may act between any two steps; a
load that is refused with `E2BIG` takes a third one and is left to the proof. In
`dispatcher_clean` two components make the order matter in which pins go. In `xsk_ring`
the 18 entries take the indices around twice, in batches of any sizes. In
`xsk_socket` two sockets of a umem load the program into one context (they are alike,
which the symmetry of the run uses), a third has a context of its own and a map from
the control process, and one on another umem wants the third one's queue and counts
on the same program as the first two; each may be created, deleted and created anew
without bound.

Runs that end in a violation, each a disagreement between code and text:

| Run | The text | The code |
|---|---|---|
| `icmp_checksum` | `xdp_icmp_echo.c:61` "fix checksum" | sizes of 2 make `bpf_csum_diff` fail; the error is stored as the checksum |
| `udp_only` | `xdp_echo_kern.c:25` "only echo UDP" | the EtherType is not tested |

Smaller disagreements met while modelling, read off the code and not the subject of
a run: `vlan_tag_pop` returns the whole TCI where `rewrite_helpers.h:19` says "the
popped VLAN ID"; `parse_ethhdr` returns the EtherType in network byte order where
`parsing_helpers.h:12` says "All return values are in host byte order"; a failed
`bpf_obj_get_info_by_fd` is the exit status although `xdp_pass_user.c:112` calls the
step "not really needed"; a loader that loses a pin race reports the map like a
"requested map name that doesn't exist" (`common_libbpf.c:150`); the result of
`bpf_map__reuse_fd` is dropped (`common_libbpf.c:100`); of two first loads that
race, the loser gives up where `protocol.org:315` says that it "starts over"; a
dispatcher whose pins went while it was being read is taken for a foreign program
where `protocol.org:454` says "simply started over"; with IP options `xdp_udp_echo`
exchanges and clears other words than the ports and the checksum of
`xdp_echo_kern.c:41`; and a failed `socket` leaves `umem->refcount` raised, so that
`xsk_umem__delete` answers `-EBUSY` for good. The models have this behaviour.

Where it makes a property false, the property says so and excepts it:
`UdpTurnsByParity` is about IP headers without options; `SamplesAreEchoes` about
clients without duplicates and failed calls; `PinnedUntilCleaned`, and the part of
`HookContents` on who sees packets, about the time before a cleaner, which may take
the pins of a dispatcher that is about to be attached; `RefcntExact` counts what
failed calls keep (`lost`); `LiveIsServed` leaves out programs that a failed call
took off (`torn`) and umems whose sockets have contended for a context; for umems in
`unpaired` `UmemCounted` is a bound from below and `RingsMapped` says nothing. The
hazards in `PROJECT.json` that no property covers are of this kind.

**Fairness.** `EchoLink`: a packet on the wire is received, since NAPI polls the
queue. `UdpEcho`: processes are scheduled and a datagram that stays in flight is
received; nothing is assumed of loss. `Dispatcher`: each running process is
scheduled and `flock` hands the lock on. `XskRing`: both ends keep at it, and a
consumer that takes entries again and again does not put them back every time
(strong fairness of release: `xsk_ring_cons__cancel` is the caller's choice). The
other modules state safety only.
Deadlock is not checked, because every model may come to rest: bounded inputs are
used up and processes return.

## 4. Proofs

| Theorem | For every | Assumes | Inductive invariant |
|---|---|---|---|
| `IcmpAnswerNotAnswered` | frame | | none: a fact about the program |
| `UdpReflectionFacts` | frame | | none |
| `LinkTypeOK` | set of frames, bounds | | `TypeOK` |
| `LinkReflectsOnce` | set of frames, programs, bounds | | `LinkInv` |
| `LinkUdpTurnsByParity`, `LinkReflectsEchoRequests` | the same | | `ReflectedInv` |
| `LinkRequestsAreBypassed` | the same | | `TypeOK`; a fact about single steps |
| `DispatcherTypeOK` | set of processes, bounds | | `TypeInv` |
| `DispatcherPinnedUntilCleaned` | set of processes, bounds, with crashes and the script | | `TypeInv`, `UnseenInv`, `PinInv` |
| `DispatcherNoStalePins` | the same | | the above, `LeakInv` |
| `DispatcherImplements` | the same | | `DispatcherInv`, `ContentsInv` |
| `HelpersTypeOK`, `CursorStaysInBounds`, `TagsAreSkipped` | set of packets and tag arguments, headroom, `VLAN_MAX_DEPTH` | | `HelperInv` |
| `RewritesCanBeUndone` | the same | | `HelperInv`, `UndoInv` |
| `UserParsesAsWritten` | set of processes, devices and command lines of any length | `ArgvAssumption` | `UserInv` |
| `UserExitTellsEffect` | the same | the same | `UserInv` |
| `MapsTypeOK`, `MapsHandlesAgree` | set of loaders, objects, faults | | `Agreement` |
| `MapsSharedOrWarned` | set of loaders, objects, faults | | `Sharing` |
| `StatsTypeOK`, `StatsNoLostUpdate`, `StatsCountersGrow` | set of CPUs, actions, sizes | | `UpdateInv` |
| `StatsSnapshotNearlyWhole` | the same | | `UpdateInv`, `SizeInv` |
| `RingNoOverrun`, `RingEntriesIntact`, `RingImplementsQueue` | ring size, index width, batches | `Size < U32`, `Size` divides `U32` | `RingInv` |
| `EchoTypeOK` | set of clients, payloads, faults | | `EchoInv`, `ClockOK` |
| `EchoSamplesAreEchoes` | the same | | `TripInv` |
| `EchoMeasuresAgree` | the same | | `MeasuredInv` |
| `EchoConservation` | the same | | `FlightInv` |
| `SocketRefcntExact` | sets of sockets, umems, queues, control processes, copies of the program, bounds | `NamesAssumption` | `TypeInv`, `LockInv`, `CountInv` |
| `SocketAttachedIffReferenced` | the same | the same | the above, `AttachInv` |
| `SocketTypeOK`, `SocketUmemCounted`, `SocketRingsMapped` | the same | the same | `TypeInv`, `UmemInv` |
| `SocketLiveIsServed` | the same | the same | all of the above, `BindInv`, `OwnInv`, `MapInv` |

The named assumptions of each module say only that constants have their types and
that names of different things differ; TLC evaluates them in the runs.

*One reflection.* "At most one" is not inductive: nothing in it keeps a packet
reflected once from being reflected again. `LinkInv` accounts for each packet in
flight: it has not been reflected; or it was, once, and is ICMP that
`xdp_icmp_echo` does not reflect; or it is UDP and the end it comes from has had
`xdp_udp_echo`, so that the next reflection puts both ends in `udpAt`. That an
answer is not answered is `IcmpAnswerNotAnswered`. It holds for every header
length, also those that place the ICMP header inside the IP header: the byte the
program clears is the one it would test, and swapping addresses moves neither the
length nor the protocol.

*What comes back.* `ReflectedInv` relates the frame of a packet to the frame as
sent: one `xdp_icmp_echo` reflection of it, or what a number of `xdp_udp_echo`
reflections make of it. Two of the latter cancel out but for the checksums, which
are zero after the first, so the number enters by its parity only. `ReflectedInv`
holds for every header; that the words the program exchanges are the ports takes an
IP header of 20 bytes, the guard of `UdpTurnsByParity`.

*Pinned until cleaned.* A process unpins the dispatcher it failed to attach and the
one it replaced. `PinInv` says that neither is on the interface, and that what is
about to be swapped in is pinned. The first needs `UnseenInv`: a dispatcher that
was never attached is known to its maker only. Both speak of the time before the
first cleaner starts.

*No stale pins.* `LeakInv` finds an owner for each directory: it is the hook's, or
some process still owes its removal. A step that ends a debt removes the directory
or puts it on the interface. The debts of a process that dies and of a cleaner that
fails are the exceptions the property makes; a directory that somebody fails to unpin
because files are missing is a cleaner's doing.

*Implements.* A load reads the components of the attached dispatcher, builds the
next one and swaps it in if the old one is still attached. `ContentsInv` says that
what a process has read is what that dispatcher contains, and what it is about to
swap in is its request applied to that (`PlanAt`). A dispatcher never changes once
built, so a swap that succeeds applies the request to what is attached
(`SwapApplies`), and every other step leaves the contents alone. Before a cleaner has
begun `PinInv` has every link of the attached dispatcher pinned, so none of its
components is cut off.

*Helpers.* Each parser tests the header it is about to pass, so the cursor stays
within the packet if it was there before. What needs an invariant is that a program
keeps pointers from one call to the next: `HelperInv` says that `l3`, once a transport
layer is reached, is the network header behind all tags of the packet as it is now,
and not cut off; so the address swaps, which test nothing, hit the addresses. A push
or a pop makes the program start over. `parse_ethhdr` skips at most
`VLAN_MAX_DEPTH` tags, and yet `l3` is behind all of them: had it stopped at a tag, the
type it returned would have called for no other parser.

*Undo.* `UndoInv` gives the packet as a function of the received one, of the tags
pushed and not popped, and of the swaps done an odd number of times. A pop takes off
the last push (`UntagTag`); a swap is done to the packet with all its tags and must
come to the same as one done to the packet without them, which holds for one push
(`MacsTag`, `AddrsTag`) and for all by induction on their number (`SwapsPassTags`).

*Command line.* `UserInv` has `ParsedAsWritten`, which is inductive: what the options
up to n + 1 mean is one `SetOption` away from what those up to n mean
(`OneMoreOption`, `SetMeans`). After the last option the configuration is thus the
meaning of the whole command line, and the rest of `UserInv` says for each place in
`main` what was done by then.

*Maps.* A pin is made only where there was none and never replaced, so agreement
is inductive. Sharing needs what the object uses in each phase (`Own`). It is
stated for the loaders outside `FlakyReuse`: the code drops the result of
`bpf_map__reuse_fd`, and where that fails `map_fd` and the object differ. The
others may fail as they like, and so may the flaky ones beside them.

*Statistics.* `UpdateInv` ties the register of a CPU to the record it was loaded
from, which no other CPU writes, and counts the packet between its two stores.
`SizeInv` bounds the bytes of a record from below by its packets and says that a
reader is at most one packet ahead, which gives how far a snapshot can be off.

*Rings.* The ghost counts are in order and no more than `Size` apart; each index is
its count modulo `U32`. A copy of an index is stale, and `RingInv` says so: there
is a count `seen`, not above the present one, whose index it is. The difference of
two wrapped indices is the difference of the counts because that is below `U32`.

*User-space echo.* That a sample belongs to the payload just sent needs that at
most one datagram of a client is under way, on the network or in the server's
buffer, unless the network duplicates or a `recv` fails (`TripInv`). `MeasuredInv` ties minimum,
maximum and total to the time since the client started, less what its clock was
set back.

`FlightInv` counts the datagrams of a client over the network and the server's
buffer; each action moves one of them, or changes `lost`, `dups`, `fails` or what the
client waits for by as much as it changes the count.

*AF_XDP sockets.* Four layers, each resting on the ones before.

1. `LockInv`: who is between reading and writing a count holds the lock, and what
   it has read is still the count. So each update adds or takes one, and
   `CountInv`, which is `RefcntExact` for the programs not attached as well, is
   preserved: a step changes the count of a program and the set of its users
   together, or charges the difference to `lost`.
2. `AttachInv`: a program that is gone, or about to be detached, has count 0. A
   lookup finds only programs that are attached; the increment after it refuses a
   count of 0, so nobody joins a program on its way out. Without a fault, an
   attached program with count 0 has somebody about to detach it, who is not there
   any more when all calls have returned.
3. `UmemInv`: `umem->refcount` and the count of each context are the numbers of
   sockets on them, and rings that are needed are mapped. It speaks of all umems at
   once because a step on one must leave the others alone; the one a call fails on
   enters `unpaired`, where the count is only bounded from below.
4. `BindInv`, `OwnInv` and `MapInv`: a queue is bound to one umem; an open socket
   whose umem is not in `contended` has counted itself on the program whose map it
   uses, and shares its context with no other that loads the program; an entry of
   `xsks_map` is the descriptor of a socket that is bound to that queue and put itself
   there. Two programs that both have an entry for a queue thus have entries of one
   umem, and, unless it is contended, of one socket.

*Induction over data.* The walk over the VLAN tags (`VlanWalk`), the number of tags
(`Depth`) and repeated pushes (`TagAll`) are defined by recursion. What they compute
is proved by induction on the number of rounds, in the form of the lemma `UpTo`: a
set of numbers takes the place of the predicate, and the least number outside it, if
there were one, gives the contradiction. That the recursive functions exist at all is
proved in the same way (`WalkExists`, `TagsExist`).

Every invariant and every action property that a run checks is proved, and so are
both refinements. Only model-checked are the liveness
properties `WireDrains`, `Completes`, `AllReturn`, `CleanReclaims` and
`AllDelivered`, which are out of the prover's reach.

## 5. Not modelled

- Attach modes, hardware offload, bpf_link attachment, the fallback to a single
  program, dispatcher versions, run order and chain-call actions of libxdp.
- `load_bpf_and_xdp_attach`, `open_bpf_map_file`, `check_map_fd_info`,
  `reuse_maps`, `action2str`: no caller in the repository.
- `usage`, `_print_options`, setup-netns, show-progs, `xdp_benchmarks.sh`: they
  print, or set up devices the models start from.
- `xdp_attach_fd` attaches again without the old program when the kernel refuses the
  compare-and-swap (`libxdp.c:598`): kernels that old can lose an update.
- Of xsk.c: programs without a reference count, Tx-only sockets, the sizing of
  `xsks_map`, and the ring caches `xsk_create_umem_rings` does not set. When sockets
  contend for a context the program object is freed twice and descriptors are closed
  twice; the model has what they find in the context, not what else is hit.
- Lifetimes of strings and memory layout.
- The rest of the vendored libbpf and xdp-tools. Most lines of the repository are
  there: generated headers (`vmlinux.h`), ELF and BTF parsing, skeletons,
  utilities and tests. They are sequential conversions of data, which a model
  would have to transliterate; none is called in a way the parts above depend on
  beyond success or failure.

## 6. Plan

The order was: packet programs and link, which are the point of the repository;
loading, where processes interfere; the helpers, the maps and the user-space echo;
then AF_XDP and the proofs of the refinements. Next:

1. Attach modes in `Dispatcher`: a mode mismatch on unload.
2. Run order and chain calls: which components see a packet, and in which order.
3. The map reader `open_bpf_map_file` beside `PinnedMaps`.
4. A composition of `PassUser` with `HookContents`, so that exit statuses are
   stated against the refined specification.
