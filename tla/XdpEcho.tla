------------------------------ MODULE XdpEcho -------------------------------
(***************************************************************************)
(* The two echo programs that run at the XDP hook, xdp_icmp_echo and       *)
(* xdp_udp_echo, as functions from a frame to a verdict and the frame the  *)
(* program leaves behind.                                                  *)
(***************************************************************************)
EXTENDS Frames

Verdict(act, f) == [act |-> act, frame |-> f]

swap_src_dst_mac(f) == SwapWords(f, W(0), W(6), 3)
swap_src_dst_ipv4(f) == SwapWords(f, W(ETH_HLEN + 12), W(ETH_HLEN + 16), 2)

ClearIpCheck(f) == [f EXCEPT ![W(ETH_HLEN + 10)] = 0]

\* The kernel helper on buffers of at most one word, zero padded: it refuses
\* sizes that are not multiples of 4.
bpf_csum_diff(from, from_size, to, to_size, seed) ==
    IF from_size % 4 # 0 \/ to_size % 4 # 0
    THEN -EINVAL
    ELSE seed + to + (65535 - from)

\* (__u16) of the 32-bit result.
U16(x) == x % 65536

\* Mutant: the code is not carried over into the reply.
EchoReplyNoCode(f, icmp) ==
    [f EXCEPT ![W(icmp)] = Mk(ICMP_ECHOREPLY, 0),
              ![W(icmp + 2)] = bpf_htons(U16(-EINVAL))]

\* Step 7: the type becomes ECHOREPLY, the checksum what bpf_csum_diff gives.
EchoReply(f, icmp) ==
    LET code  == Lo(f[W(icmp)])
        old16 == bpf_htons(Mk(ICMP_ECHO, code))
        new16 == bpf_htons(Mk(ICMP_ECHOREPLY, code))
        csum  == bpf_csum_diff(old16, 2, new16, 2, bpf_htons(f[W(icmp + 2)]))
    IN  [f EXCEPT ![W(icmp)] = Mk(ICMP_ECHOREPLY, code),
                  ![W(icmp + 2)] = bpf_htons(U16(csum))]

IcmpOffset(f) == ETH_HLEN + 4 * ihl(f)

\* Mutants: the type is not looked at; the bound test is off by one.
IcmpReflectsAnyType(f) ==
    /\ ETH_HLEN + IP_HLEN + ICMP_HLEN <= data_end(f)
    /\ h_proto(f) = bpf_htons(ETH_P_IP)
    /\ protocol(f) = IPPROTO_ICMP
    /\ IcmpOffset(f) + ICMP_HLEN <= data_end(f)

IcmpReflectsLonger(f) ==
    /\ IcmpReflectsAnyType(f)
    /\ IcmpOffset(f) + ICMP_HLEN < data_end(f)
    /\ Hi(f[W(IcmpOffset(f))]) = ICMP_ECHO

IcmpReflects(f) ==
    /\ ETH_HLEN + IP_HLEN + ICMP_HLEN <= data_end(f)
    /\ h_proto(f) = bpf_htons(ETH_P_IP)
    /\ protocol(f) = IPPROTO_ICMP
    /\ IcmpOffset(f) + ICMP_HLEN <= data_end(f)
    /\ Hi(f[W(IcmpOffset(f))]) = ICMP_ECHO

xdp_icmp_echo(f) ==
    IF IcmpReflects(f)
    THEN Verdict("XDP_TX", EchoReply(ClearIpCheck(swap_src_dst_ipv4(
                               swap_src_dst_mac(f))), IcmpOffset(f)))
    ELSE Verdict("XDP_PASS", f)

\* The UDP header is taken to follow a 20-byte IP header.
UdpOffset == ETH_HLEN + IP_HLEN

\* Mutant: source is overwritten before it is saved.
CopyUdpPort(f) ==
    [f EXCEPT ![W(UdpOffset)] = f[W(UdpOffset + 2)], ![W(UdpOffset + 6)] = 0]

SwapUdpPorts(f) ==
    [SwapWords(f, W(UdpOffset), W(UdpOffset + 2), 1)
        EXCEPT ![W(UdpOffset + 6)] = 0]

xdp_udp_echo(f) ==
    IF UdpOffset + UDP_HLEN > data_end(f) THEN Verdict("XDP_ABORTED", f)
    ELSE IF protocol(f) # IPPROTO_UDP THEN Verdict("XDP_PASS", f)
    ELSE Verdict("XDP_TX", SwapUdpPorts(ClearIpCheck(swap_src_dst_ipv4(
                               swap_src_dst_mac(f)))))
=============================================================================
