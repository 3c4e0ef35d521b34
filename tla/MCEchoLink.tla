----------------------------- MODULE MCEchoLink -----------------------------
(* Frames for EchoLink: ICMP and UDP over IPv4, with and without options,    *)
(* fragments, foreign protocols, truncated and malformed headers.            *)
EXTENDS EchoLink, SequencesExt

SumWords(s) == FoldSeq(LAMBDA x, y : x + y, 0, s)

\* One's-complement checksum of the words of s.
Csum(s) == (65535 - (SumWords(s) % 65535)) % 65535

Eth(proto) == <<2, 0, 1,  2, 0, 2, proto>>

Ip(words, frag, proto, tail) ==
    LET hdr(check) == <<Mk(64 + words, 0), 4 * words + 2 * Len(tail), 7, frag,
                        Mk(64, proto), check, 2560, 2, 2560, 1>>
                      \o [i \in 1..2 * (words - 5) |-> 257]
    IN  Eth(ETH_P_IP) \o hdr(Csum(hdr(0))) \o tail

Icmp(type, code, data) ==
    LET msg(check) == <<Mk(type, code), check, 77, 1>> \o data
    IN  msg(Csum(msg(0)))

Udp(sport, dport, data) == <<sport, dport, 8 + 2 * Len(data), 4660>> \o data

IcmpInputs ==
    { Ip(5, 0, IPPROTO_ICMP, Icmp(8, 0, <<43981, 43981>>)),
      Ip(5, 0, IPPROTO_ICMP, Icmp(8, 5, <<>>)),
      Ip(6, 0, IPPROTO_ICMP, Icmp(8, 0, <<1>>)),
      Ip(15, 0, IPPROTO_ICMP, Icmp(8, 0, <<>>)),
      Ip(5, 0, IPPROTO_ICMP, Icmp(0, 0, <<1>>)),
      Ip(5, 185, IPPROTO_ICMP, <<2048, 1, 2, 3>>),
      Ip(6, 0, IPPROTO_ICMP, <<2048, 1, 2>>),
      Ip(5, 0, IPPROTO_ICMP, <<2048>>),
      Ip(5, 0, IPPROTO_UDP, Udp(9000, 5000, <<1>>)),
      Eth(2054) \o [i \in 1..16 |-> i],
      \* ihl of 2, 3 and 4: the "ICMP header" lies inside the IP header
      Eth(ETH_P_IP) \o <<Mk(66, 0), 28, 0, 0, Mk(8, 1), 9, 1, 2, 3, 4, 5, 6, 7, 8>>,
      Eth(ETH_P_IP) \o <<Mk(67, 0), 28, 0, 0, Mk(9, 1), 9, 2049, 2, 3, 4, 5, 6, 7, 8>>,
      Eth(ETH_P_IP) \o <<Mk(68, 0), 28, 0, 0, Mk(9, 1), 9, 3, 4, 2055, 2, 5, 6, 7, 8>> }

UdpInputs ==
    { Ip(5, 0, IPPROTO_UDP, Udp(9000, 5000, <<43981>>)),
      Ip(5, 0, IPPROTO_UDP, Udp(9000, 9000, <<>>)),
      Ip(6, 0, IPPROTO_UDP, Udp(9000, 5000, <<1, 2>>)),
      Ip(5, 0, IPPROTO_ICMP, Icmp(8, 0, <<1>>)),
      Eth(ETH_P_IP) \o [i \in 1..13 |-> 17],
      \* an ARP request: 42 bytes, the sender's MAC from byte 22 on
      Eth(2054) \o <<1, 2048, 1540, 1, 512, 2, 1, 2560, 2, 0, 0, 0, 2560, 1>> }

MCInputs == IcmpInputs \cup UdpInputs

\* The same ARP request from the MAC address 02:11:00:02:00:01.
ArpInput ==
    { Eth(2054) \o <<1, 2048, 1540, 1, 529, 2, 1, 2560, 2, 0, 0, 0, 2560, 1>> }

\* The receiver's test: a one's-complement sum of all ones.
SumOK(s) == SumWords(s) > 0 /\ SumWords(s) % 65535 = 0
ChecksumFixed == IcmpChecksumFixed(SumOK)
=============================================================================
