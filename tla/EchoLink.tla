------------------------------ MODULE EchoLink ------------------------------
(***************************************************************************)
(* The veth pair of manage_xdp.sh: srv:veth0 and cli:veth1, an XDP hook at *)
(* each end, and the two network stacks behind them.  Programs are         *)
(* attached and cleared while frames are in flight.  A packet carries two  *)
(* ghost fields: the frame as it was sent, and how often a hook has        *)
(* reflected it.                                                           *)
(***************************************************************************)
EXTENDS XdpEcho

CONSTANTS
    Inputs,      \* the frames the client's stack may send
    MaxTx,       \* bound: a hook stops reflecting a packet after MaxTx times
    MaxSent      \* bound: number of frames sent

Hosts == {"srv", "cli"}
Programs == {"xdp_pass", "xdp_icmp_echo", "xdp_udp_echo"}

ASSUME InputsAssumption == Inputs \subseteq Frame
ASSUME BoundsAssumption == MaxTx \in Nat /\ MaxSent \in Nat

VARIABLES
    prog,    \* program attached to the interface of each host, or "none"
    udpAt,   \* ghost: the hosts where xdp_udp_echo has ever been attached
    script,  \* where a running clear_xdp is
    sent,    \* number of frames sent
    wire,    \* packets in flight, each to one host
    stack    \* packets a hook has handed to its network stack

vars == <<prog, udpAt, script, sent, wire, stack>>

Peer(h) == CHOOSE g \in Hosts : g # h

Packet == [to : Hosts, frame : Frame, orig : Frame, tx : Nat]

TypeOK ==
    /\ prog \in [Hosts -> Programs \cup {"none"}]
    /\ udpAt \subseteq Hosts
    /\ script \in {"idle", "clear_cli"}
    /\ sent \in Nat
    /\ wire \subseteq Packet
    /\ stack \subseteq Packet

Init ==
    /\ prog = [h \in Hosts |-> "none"]
    /\ udpAt = {}
    /\ script = "idle"
    /\ sent = 0
    /\ wire = {}
    /\ stack = {}

\* attach-pass and attach-echo, with any object file at either end: `ip link set
\* ... xdp object' is refused when the interface already has a program.
Attach(h, p) ==
    /\ script = "idle"
    /\ prog[h] = "none"
    /\ prog' = [prog EXCEPT ![h] = p]
    /\ udpAt' = IF p = "xdp_udp_echo" THEN udpAt \cup {h} ELSE udpAt
    /\ UNCHANGED <<script, sent, wire, stack>>

\* clear-xdp: `xdp off' on srv, then on cli, frames moving in between.
ClearSrv ==
    /\ script = "idle"
    /\ prog' = [prog EXCEPT !["srv"] = "none"]
    /\ script' = "clear_cli"
    /\ UNCHANGED <<udpAt, sent, wire, stack>>

ClearCli ==
    /\ script = "clear_cli"
    /\ prog' = [prog EXCEPT !["cli"] = "none"]
    /\ script' = "idle"
    /\ UNCHANGED <<udpAt, sent, wire, stack>>

\* The client's stack puts a frame on the wire.
Send(f) ==
    /\ sent < MaxSent
    /\ sent' = sent + 1
    /\ wire' = wire \cup {[to |-> "srv", frame |-> f, orig |-> f, tx |-> 0]}
    /\ UNCHANGED <<prog, udpAt, script, stack>>

\* The hook at the receiving end: no program and xdp_pass let the frame through.
Run(p, f) ==
    CASE p = "xdp_icmp_echo" -> xdp_icmp_echo(f)
      [] p = "xdp_udp_echo"  -> xdp_udp_echo(f)
      [] OTHER               -> Verdict("XDP_PASS", f)

ReceiveTx(p) ==
    LET v == Run(prog[p.to], p.frame) IN
    /\ v.act = "XDP_TX"
    /\ p.tx < MaxTx
    /\ wire' = (wire \ {p}) \cup
                 {[to |-> Peer(p.to), frame |-> v.frame, orig |-> p.orig,
                   tx |-> p.tx + 1]}
    /\ UNCHANGED <<prog, udpAt, script, sent, stack>>

ReceivePass(p) ==
    LET v == Run(prog[p.to], p.frame) IN
    /\ v.act = "XDP_PASS"
    /\ wire' = wire \ {p}
    /\ stack' = stack \cup {[p EXCEPT !.frame = v.frame]}
    /\ UNCHANGED <<prog, udpAt, script, sent>>

ReceiveAborted(p) ==
    /\ Run(prog[p.to], p.frame).act = "XDP_ABORTED"
    /\ wire' = wire \ {p}
    /\ UNCHANGED <<prog, udpAt, script, sent, stack>>

Receive(p) == ReceiveTx(p) \/ ReceivePass(p) \/ ReceiveAborted(p)

Next ==
    \/ \E h \in Hosts : \E p \in Programs : Attach(h, p)
    \/ ClearSrv
    \/ ClearCli
    \/ \E f \in Inputs : Send(f)
    \/ \E p \in wire : ReceiveTx(p)
    \/ \E p \in wire : ReceivePass(p)
    \/ \E p \in wire : ReceiveAborted(p)

\* A frame on the wire is eventually received (NAPI polls the veth queue).
Spec == Init /\ [][Next]_vars /\ WF_vars(\E p \in wire : Receive(p))

-----------------------------------------------------------------------------
Packets == wire \cup stack

\* An answer is never answered: whatever is attached or cleared at the two ends
\* while a packet is in flight, it is reflected at most once.  The one exception
\* is a packet of the UDP protocol when both ends have had xdp_udp_echo.
ReflectedAtMostOnce ==
    \A p \in Packets :
      p.tx <= 1 \/ (protocol(p.orig) = IPPROTO_UDP /\ udpAt = Hosts)

\* A well-formed IPv4 header (version 4, ihl >= 5), not of a later fragment.
WellFormedIp(f) ==
    /\ Len(f) >= 17
    /\ f[7] = ETH_P_IP
    /\ Hi(f[8]) \in 69..79
    /\ data_end(f) >= IcmpOffset(f)
    /\ f[11] % 8192 = 0

IsEchoRequest(f) ==
    /\ Lo(f[12]) = IPPROTO_ICMP
    /\ data_end(f) >= IcmpOffset(f) + 8
    /\ Hi(f[W(IcmpOffset(f))]) = ICMP_ECHO

\* f with its MAC and IP addresses exchanged.
Turned(f) ==
    [i \in 1..Len(f) |->
        CASE i \in 1..3   -> f[i + 3]
          [] i \in 4..6   -> f[i - 3]
          [] i \in 14..15 -> f[i + 2]
          [] i \in 16..17 -> f[i - 2]
          [] OTHER -> f[i]]

SameBut(f, g, ix) == Len(f) = Len(g) /\ \A i \in 1..Len(f) \ ix : f[i] = g[i]

\* A well-formed ICMP packet that xdp_icmp_echo reflected was an echo request,
\* and what comes back is its answer in every word but the two checksums:
\* addresses exchanged, type 0, code, identifier, sequence and data kept.  A
\* packet no hook reflected is bit for bit what was sent.
ReflectsEchoRequests ==
    \A p \in Packets :
      IF p.tx = 0 THEN p.frame = p.orig
      ELSE (WellFormedIp(p.orig) /\ Lo(p.orig[12]) = IPPROTO_ICMP) =>
             LET t == W(IcmpOffset(p.orig)) IN
             /\ IsEchoRequest(p.orig)
             /\ SameBut(p.frame, Turned(p.orig), {13, t, t + 1})
             /\ p.frame[t] = Lo(p.orig[t])

\* A UDP packet whose IPv4 header has no options.
IsPlainUdp(f) == WellFormedIp(f) /\ ihl(f) = 5 /\ Lo(f[12]) = IPPROTO_UDP

\* "swap UDP ports & clear checksum" (xdp_echo_kern.c:41): a UDP packet without IP
\* options that xdp_udp_echo reflected carries its original addresses and ports
\* after an even number of reflections and exchanged ones after an odd number;
\* nothing else has changed but the two checksums, which are zero.  With options
\* the code exchanges and clears other words, and nothing is claimed.
UdpTurnsByParity ==
    \A p \in Packets :
      (p.tx > 0 /\ IsPlainUdp(p.orig)) =>
        LET o == p.orig
            turned == [Turned(o) EXCEPT ![18] = o[19], ![19] = o[18]]
        IN  /\ SameBut(p.frame, IF p.tx % 2 = 0 THEN o ELSE turned, {13, 21})
            /\ p.frame[13] = 0 /\ p.frame[21] = 0

\* While xdp_icmp_echo is attached no well-formed echo request reaches the
\* stack behind it: the answer bypasses the kernel.
RequestsAreBypassed ==
    [][ \A p \in stack' \ stack :
          (prog[p.to] = "xdp_icmp_echo" /\ WellFormedIp(p.frame))
             => ~ IsEchoRequest(p.frame) ]_vars

\* No packet bounces between the two hooks for ever, unless both ends have had
\* xdp_udp_echo: once the client stops sending the wire drains.
WireDrains == [](udpAt # Hosts) => <>[](wire = {})

\* "fix checksum" (xdp_icmp_echo.c:61): the answer to a request whose ICMP
\* checksum is right carries a right checksum.  SumOK is the receiver's test.
IcmpChecksumFixed(SumOK(_)) ==
    \A p \in Packets :
      (p.tx = 1 /\ WellFormedIp(p.orig) /\ IsEchoRequest(p.orig)) =>
        LET msg(f) == SubSeq(f, W(IcmpOffset(f)), Len(f))
        IN  SumOK(msg(p.orig)) => SumOK(msg(p.frame))

\* "only echo UDP" (xdp_echo_kern.c:25): what xdp_udp_echo reflects is a UDP
\* packet over IPv4.
OnlyUdpEchoed ==
    \A p \in wire :
      (prog[p.to] = "xdp_udp_echo" /\ xdp_udp_echo(p.frame).act = "XDP_TX")
         => WellFormedIp(p.frame) /\ Lo(p.frame[12]) = IPPROTO_UDP
=============================================================================
