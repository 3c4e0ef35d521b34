--------------------------- MODULE PacketHelpers ----------------------------
(***************************************************************************)
(* An XDP program that walks and rewrites one packet with the helpers of   *)
(* parsing_helpers.h and rewrite_helpers.h.  The cursor nh->pos is a byte  *)
(* offset from data; the program calls the helper the last content type    *)
(* calls for; once it has parsed the Ethernet header it may push or pop a  *)
(* VLAN tag, once it has parsed the network header it may swap the         *)
(* addresses, and it then starts over.                                     *)
(***************************************************************************)
EXTENDS Frames

CONSTANTS
    Inputs,      \* the frames received
    Vlids,       \* the arguments vlid of vlan_tag_push
    Headroom,    \* bytes bpf_xdp_adjust_head can add in front
    VLAN_MAX_DEPTH

ASSUME InputsAssumption == Inputs \subseteq Frame
ASSUME VlidsAssumption == Vlids \subseteq Int
ASSUME BoundsAssumption == Headroom \in Nat /\ VLAN_MAX_DEPTH \in Nat

VARIABLES
    orig,   \* ghost: the frame as received
    pushed, \* ghost: arguments of the pushes not popped yet, innermost first
    popped, \* ghost: TRUE once a tag of the received frame was popped
    turned, \* ghost: the helpers among swap_src_dst_* called an odd number of times
    frame,  \* the bytes from data to data_end
    room,   \* headroom left
    pos,    \* nh->pos - data
    l3,     \* where the network header is, once parsed
    layer,  \* what the program parses next
    ret     \* what the last helper returned

vars == <<orig, pushed, popped, turned, frame, room, pos, l3, layer, ret>>

ETH_P_8021Q == 33024    \* 0x8100
ETH_P_8021AD == 34984   \* 0x88A8
ETH_P_IPV6 == 34525     \* 0x86DD
VLAN_HLEN == 4          \* sizeof(struct vlan_hdr)
IPV6_HLEN == 40         \* sizeof(struct ipv6hdr)
TCP_HLEN == 20          \* sizeof(struct tcphdr), no options
ICMP_COMMON_HLEN == 4   \* sizeof(struct icmphdr_common)
IPPROTO_TCP == 6
IPPROTO_ICMPV6 == 58

Layers == {"eth", "l3", "ip", "ip6", "icmp", "icmp6", "udp", "tcp", "end"}

\* What a helper may return.
Result == -1..U16_MAX

\* In particular a helper returns -1 or what a 16-bit field can hold, so that the
\* callers, which test for -1, take no other negative number for a result.
TypeOK ==
    /\ orig \in Frame /\ frame \in Frame
    /\ pushed \in Seq(Vlids)
    /\ popped \in BOOLEAN /\ turned \subseteq {"mac", "ip"}
    /\ room \in Nat
    /\ pos \in Nat /\ l3 \in Nat
    /\ layer \in Layers
    /\ ret \in Result

Init ==
    /\ orig \in Inputs
    /\ frame = orig
    /\ pushed = <<>>
    /\ popped = FALSE /\ turned = {}
    /\ room = Headroom
    /\ pos = 0 /\ l3 = 0
    /\ layer = "eth"
    /\ ret = 0

-----------------------------------------------------------------------------
(* parsing_helpers.h: each helper gives the new cursor and its return value. *)

Parsed(p, r) == [pos |-> p, ret |-> r]

\* A header of fixed size.
ParseFixed(p, size, type) ==
    IF p + size > data_end(frame) THEN Parsed(p, -1) ELSE Parsed(p + size, type)

\* Mutant: only one of the two tag protocols is known.
IsCustomerVlan(proto) == proto = bpf_htons(ETH_P_8021Q)
proto_is_vlan(proto) == proto \in {bpf_htons(ETH_P_8021Q), bpf_htons(ETH_P_8021AD)}

\* Whether the unrolled loop goes on.
VlanFollows(f, w) == proto_is_vlan(w.proto) /\ w.pos + VLAN_HLEN <= data_end(f)

\* The state of that loop after k tags: vlh, h_proto and vlans->id.
VlanWalk(f, start) ==
    LET walk[k \in 0..VLAN_MAX_DEPTH] ==
          IF k = 0 THEN start
          ELSE LET w == walk[k - 1] IN
               IF VlanFollows(f, w)
               THEN [pos |-> w.pos + VLAN_HLEN,
                     proto |-> bpf_htons(f[W(w.pos + 2)]),
                     id |-> Append(w.id, f[W(w.pos)] % 4096)]
               ELSE w
    IN  walk[VLAN_MAX_DEPTH]

parse_ethhdr_vlan(f, p) ==
    VlanWalk(f, [pos |-> p + ETH_HLEN, proto |-> h_proto(f), id |-> <<>>])

parse_ethhdr(p) ==
    IF p + ETH_HLEN > data_end(frame) THEN Parsed(p, -1)
    ELSE LET w == parse_ethhdr_vlan(frame, p) IN Parsed(w.pos, w.proto)

parse_ip6hdr(p) == ParseFixed(p, IPV6_HLEN, Hi(frame[W(p + 6)]))

\* Mutant: a header longer than the packet is let through.
ParseIpShort(p) ==
    LET hdrsize == 4 * (Hi(frame[W(p)]) % 16) IN
    IF p + IP_HLEN > data_end(frame) \/ hdrsize < IP_HLEN
    THEN Parsed(p, -1) ELSE Parsed(p + hdrsize, Lo(frame[W(p + 8)]))

parse_iphdr(p) ==
    LET hdrsize == 4 * (Hi(frame[W(p)]) % 16) IN
    IF p + IP_HLEN > data_end(frame) \/ hdrsize < IP_HLEN
                                     \/ p + hdrsize > data_end(frame)
    THEN Parsed(p, -1) ELSE Parsed(p + hdrsize, Lo(frame[W(p + 8)]))

parse_icmp6hdr(p) == ParseFixed(p, ICMP_HLEN, Hi(frame[W(p)]))
parse_icmphdr(p) == ParseFixed(p, ICMP_HLEN, Hi(frame[W(p)]))
parse_icmphdr_common(p) == ParseFixed(p, ICMP_COMMON_HLEN, Hi(frame[W(p)]))

\* Mutant: a length field smaller than the header itself is let through.
ParseUdpShort(p) ==
    IF p + UDP_HLEN > data_end(frame) THEN Parsed(p, -1)
    ELSE Parsed(p + UDP_HLEN, frame[W(p + 4)] - UDP_HLEN)

\* The cursor moves even when the length field is refused.
parse_udphdr(p) ==
    IF p + UDP_HLEN > data_end(frame) THEN Parsed(p, -1)
    ELSE LET len == frame[W(p + 4)] - UDP_HLEN IN
         Parsed(p + UDP_HLEN, IF len < 0 THEN -1 ELSE len)

parse_tcphdr(p) ==
    LET len == 4 * (Hi(frame[W(p + 12)]) \div 16) IN
    IF p + TCP_HLEN > data_end(frame) \/ len < TCP_HLEN
                                      \/ p + len > data_end(frame)
    THEN Parsed(p, -1) ELSE Parsed(p + len, len)

\* What the program parses after layer l, the helper having returned r; it gives
\* up on -1.
Following(l, r) ==
    IF r = -1 THEN "end"
    ELSE CASE l = "eth"                         -> "l3"
           [] l = "l3" /\ r = IPPROTO_ICMP      -> "icmp"
           [] l = "l3" /\ r = IPPROTO_ICMPV6    -> "icmp6"
           [] l = "l3" /\ r = IPPROTO_UDP       -> "udp"
           [] l = "l3" /\ r = IPPROTO_TCP       -> "tcp"
           [] OTHER                             -> "end"

Call(l, result) ==
    /\ layer = l
    /\ pos' = result.pos
    /\ ret' = result.ret
    /\ layer' = Following(l, result.ret)
    /\ l3' = IF l = "l3" THEN pos ELSE l3
    /\ UNCHANGED <<orig, pushed, popped, turned, frame, room>>

ParseEth == Call("eth", parse_ethhdr(pos))
ParseIp == ret = bpf_htons(ETH_P_IP) /\ Call("l3", parse_iphdr(pos))
ParseIp6 == ret = bpf_htons(ETH_P_IPV6) /\ Call("l3", parse_ip6hdr(pos))
ParseIcmp6 == Call("icmp6", parse_icmp6hdr(pos))
ParseIcmp == Call("icmp", parse_icmphdr(pos))
ParseIcmpCommon ==
    layer \in {"icmp", "icmp6"} /\ Call(layer, parse_icmphdr_common(pos))
ParseUdp == Call("udp", parse_udphdr(pos))
ParseTcp == Call("tcp", parse_tcphdr(pos))

-----------------------------------------------------------------------------
(* rewrite_helpers.h *)

\* A rewrite moves data, so the program parses again from the start.
Rewritten(f, r) ==
    /\ frame' = f
    /\ ret' = r
    /\ pos' = 0
    /\ layer' = "eth"

\* Mutant: the Ethernet header keeps the type of the tag.
UntagKeepProto(f) == SubSeq(f, 1, 7) \o SubSeq(f, 10, Len(f))

\* Cut the tag out; the inner protocol becomes that of the Ethernet header.
Untag(f) == SubSeq(f, 1, 6) \o SubSeq(f, 9, Len(f))

vlan_tag_pop ==
    /\ layer = "l3"
    /\ IF /\ proto_is_vlan(h_proto(frame))
          /\ ETH_HLEN + VLAN_HLEN <= data_end(frame)
       THEN /\ Rewritten(Untag(frame), frame[W(ETH_HLEN)])
            /\ room' = room + VLAN_HLEN
            /\ popped' = (popped \/ pushed = <<>>)
            /\ pushed' = IF pushed = <<>> THEN <<>> ELSE SubSeq(pushed, 1, Len(pushed) - 1)
       ELSE ret' = -1 /\ layer' = "end" /\ UNCHANGED <<pushed, popped, frame, room, pos>>
    /\ UNCHANGED <<orig, turned, l3>>

\* Put a tag in; vlid is cut to 16 bits.
Tag(f, vlid) ==
    SubSeq(f, 1, 6) \o <<ETH_P_8021Q, vlid % 65536>> \o SubSeq(f, 7, Len(f))

vlan_tag_push(vlid) ==
    /\ layer = "l3"
    /\ IF room >= VLAN_HLEN
       THEN /\ Rewritten(Tag(frame, vlid), 0)
            /\ room' = room - VLAN_HLEN
            /\ pushed' = Append(pushed, vlid)
       ELSE ret' = -1 /\ layer' = "end" /\ UNCHANGED <<pushed, frame, room, pos>>
    /\ UNCHANGED <<orig, popped, turned, l3>>

SwapMacs(f) == SwapWords(f, W(0), W(6), 3)

Turn(what) == turned' = (turned \ {what}) \cup ({what} \ turned)

swap_src_dst_mac ==
    /\ layer = "l3"
    /\ frame' = SwapMacs(frame)
    /\ Turn("mac")
    /\ UNCHANGED <<orig, pushed, popped, room, pos, l3, layer, ret>>

\* saddr and daddr of an IPv4 and of an IPv6 header at p.
SwapIpv4(f, p) == SwapWords(f, W(p + 12), W(p + 16), 2)
SwapIpv6(f, p) == SwapWords(f, W(p + 8), W(p + 24), 8)

SwapIp(type, swapped) ==
    /\ layer \in {"icmp", "icmp6", "udp", "tcp"}
    /\ frame[W(l3 - 2)] = type
    /\ Rewritten(swapped, 0)
    /\ Turn("ip")
    /\ UNCHANGED <<orig, pushed, popped, room, l3>>

swap_src_dst_ipv4 == SwapIp(ETH_P_IP, SwapIpv4(frame, l3))
swap_src_dst_ipv6 == SwapIp(ETH_P_IPV6, SwapIpv6(frame, l3))

Next ==
    \/ ParseEth
    \/ ParseIp
    \/ ParseIp6
    \/ ParseIcmp6
    \/ ParseIcmp
    \/ ParseIcmpCommon
    \/ ParseUdp
    \/ ParseTcp
    \/ swap_src_dst_mac
    \/ swap_src_dst_ipv4
    \/ swap_src_dst_ipv6
    \/ vlan_tag_pop
    \/ \E vlid \in Vlids : vlan_tag_push(vlid)

Spec == Init /\ [][Next]_vars

-----------------------------------------------------------------------------
\* However the helpers are chained, succeeding or failing, before and after
\* rewrites, the cursor stays between data and data_end.
CursorInBounds == pos <= data_end(frame)

\* f with the tags s, innermost first.
TagAll(f, s) ==
    LET tag[k \in 0..Len(s)] == IF k = 0 THEN f ELSE Tag(tag[k - 1], s[k])
    IN  tag[Len(s)]

\* The tags of a frame, outermost first, as IEEE 802.1Q lays them out.
Tagged(f, k) ==
    /\ 2 * (7 + 2 * k) <= data_end(f)
    /\ \A j \in 1..k : f[5 + 2 * j] \in {ETH_P_8021Q, ETH_P_8021AD}
Depth(f) == CHOOSE k \in 0..Len(f) : Tagged(f, k) /\ ~ Tagged(f, k + 1)

\* The words of frame f with the addresses of its network header exchanged, the
\* header being the one behind all its tags.
SwapAddrs(f) ==
    LET h == 7 + 2 * Depth(f)
        n == IF f[h] = ETH_P_IP THEN 2 ELSE 8
        saddr == h + IF f[h] = ETH_P_IP THEN 7 ELSE 5
    IN  [k \in 1..Len(f) |-> IF k \in saddr..(saddr + n - 1) THEN f[k + n]
                             ELSE IF k \in (saddr + n)..(saddr + 2 * n - 1) THEN f[k - n]
                             ELSE f[k]]

Turned(f) ==
    LET g == IF "mac" \in turned THEN SwapMacs(f) ELSE f
    IN  IF "ip" \in turned THEN SwapAddrs(g) ELSE g

\* Pushes, pops and address swaps in any order leave the frame as received, with
\* the tags not yet popped in front and the addresses turned by parity, bit for
\* bit: the header moves lose nothing, and the network header found behind any
\* number of tags is the one whose addresses are swapped.
RewritesUndo == ~ popped => frame = TagAll(Turned(orig), pushed)

\* parse_ethhdr skips every VLAN tag up to VLAN_MAX_DEPTH, whoever put it there,
\* stops at a tag cut off by data_end, and returns the type of what follows.
SkipsTags ==
    layer = "l3" =>
      LET d == Depth(frame)
          k == IF d < VLAN_MAX_DEPTH THEN d ELSE VLAN_MAX_DEPTH
      IN  /\ pos = ETH_HLEN + VLAN_HLEN * k
          /\ bpf_htons(ret) = frame[7 + 2 * k]
          /\ parse_ethhdr_vlan(frame, 0).id
               = [j \in 1..k |-> frame[6 + 2 * j] % 4096]
=============================================================================
