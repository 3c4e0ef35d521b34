-------------------------- MODULE MCPacketHelpers ---------------------------
(* Packets for PacketHelpers: each protocol whole, truncated and with bad      *)
(* length fields, and frames that arrive with VLAN tags.                       *)
EXTENDS PacketHelpers

Macs == <<2, 0, 1, 2, 0, 2>>
Words(n) == [k \in 1..n |-> k]
Ip(words, proto, rest) ==
    <<ETH_P_IP, Mk(64 + words, 0), 0, 0, 0, Mk(64, proto)>> \o rest
Ip6(proto, rest) ==
    <<ETH_P_IPV6, 24576, 0, 0, Mk(proto, 64)>> \o Words(16) \o rest

MCInputs ==
    { Macs \o p : p \in
      { <<ETH_P_IP>>, <<2054, 1, 2>>,
        Ip(5, IPPROTO_ICMP, Words(5) \o <<2048, 0, 0, 1>>),
        Ip(5, IPPROTO_ICMP, Words(5) \o <<2048, 0>>),
        Ip(4, IPPROTO_UDP, Words(9)), Ip(15, IPPROTO_UDP, Words(9)),
        Ip(6, IPPROTO_UDP, Words(7) \o <<1, 2, 8, 0>>),
        Ip(5, IPPROTO_UDP, Words(5) \o <<1, 2, 0, 0>>),
        Ip(5, IPPROTO_UDP, Words(5) \o <<1, 2, 7, 0>>),
        Ip(5, IPPROTO_UDP, Words(5) \o <<1, 2, 65535, 0>>),
        Ip(5, IPPROTO_TCP, Words(11) \o <<20480, 1, 2, 3>>),
        Ip(5, IPPROTO_TCP, Words(11) \o <<61440, 1, 2, 3>>),
        Ip(5, IPPROTO_TCP, Words(11) \o <<16384, 1, 2, 3>>),
        Ip(5, 89, Words(5)),
        Ip6(IPPROTO_ICMPV6, <<32768, 0, 0, 0>>), Ip6(IPPROTO_UDP, <<1, 2, 12>>),
        <<ETH_P_8021Q>>, <<ETH_P_8021Q, 1>>, <<ETH_P_8021AD, 8193, 2048>>,
        <<ETH_P_8021AD, 4097, ETH_P_8021Q, 2, ETH_P_8021Q, 65535, 2054>> } }
    \cup {Macs}
=============================================================================
