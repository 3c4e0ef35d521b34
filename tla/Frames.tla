------------------------------- MODULE Frames -------------------------------
(***************************************************************************)
(* An Ethernet frame as an XDP program sees it: the bytes between data and *)
(* data_end, grouped in 16-bit words that hold their value on the wire.    *)
(* Every header the programs touch starts at an even offset, and every     *)
(* bound they test is even, so a frame of odd length behaves as the frame  *)
(* one byte shorter.                                                       *)
(***************************************************************************)
EXTENDS Integers, Sequences

U8_MAX == 255
U16_MAX == 65535
Byte == 0..U8_MAX
Word == 0..U16_MAX
Frame == Seq(Word)

ETH_HLEN == 14         \* sizeof(struct ethhdr)
IP_HLEN == 20          \* sizeof(struct iphdr), no options
ICMP_HLEN == 8         \* sizeof(struct icmphdr)
UDP_HLEN == 8          \* sizeof(struct udphdr)
ETH_P_IP == 2048       \* 0x0800
IPPROTO_ICMP == 1
IPPROTO_UDP == 17
ICMP_ECHO == 8
ICMP_ECHOREPLY == 0
EINVAL == 22

Hi(w) == w \div 256
Lo(w) == w % 256
Mk(hi, lo) == 256 * hi + lo

\* The host is little-endian: loading or storing a wire word swaps its bytes.
bpf_htons(x) == Mk(Lo(x), Hi(x))

\* Index of the word at byte offset b, and the number of bytes of a frame.
W(b) == b \div 2 + 1
data_end(f) == 2 * Len(f)

\* Fields of the Ethernet and IPv4 headers, as the host loads them.
h_proto(f) == bpf_htons(f[W(12)])
ihl(f) == Hi(f[W(ETH_HLEN)]) % 16
protocol(f) == Lo(f[W(ETH_HLEN + 8)])

\* Exchange the n words starting at indices i and j (the memcpy triples and
\* the temporaries of the swap helpers); the two runs do not overlap.
SwapWords(f, i, j, n) ==
    [k \in 1..Len(f) |-> IF k \in i..(i + n - 1) THEN f[k - i + j]
                         ELSE IF k \in j..(j + n - 1) THEN f[k - j + i]
                         ELSE f[k]]
=============================================================================
