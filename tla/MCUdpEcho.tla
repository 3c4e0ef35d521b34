----------------------------- MODULE MCUdpEcho ------------------------------
EXTENDS UdpEcho, TLC

CONSTANTS c1, c2

\* One client with an empty payload, one with a payload over BUF_SZ.
EmptyAndOversized == (c1 :> 0) @@ (c2 :> 2049)

\* The network is unkind to the second client, the clock to the first.
OnlySecond == (c1 :> 0) @@ (c2 :> 1)
OnlyFirst == (c1 :> 1) @@ (c2 :> 0)
=============================================================================
