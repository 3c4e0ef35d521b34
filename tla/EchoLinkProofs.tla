--------------------------- MODULE EchoLinkProofs ---------------------------
(***************************************************************************)
(* What the echo programs do to a frame, for every frame, and the          *)
(* consequences for the link: an answer is never answered, and is the      *)
(* answer to what was sent.                                                *)
(***************************************************************************)
EXTENDS EchoLink, SequenceTheorems, TLAPS

\* Words and bytes by their bounds.
LEMMA WordBounds ==
  /\ \A w : w \in Word <=> w \in Int /\ 0 <= w /\ w <= U16_MAX
  /\ \A b : b \in Byte <=> b \in Int /\ 0 <= b /\ b <= U8_MAX
<1>1. U8_MAX \in Int /\ U16_MAX \in Int
  BY DEF U8_MAX, U16_MAX
<1> QED
  BY <1>1 DEF Word, Byte

\* Two bytes make a word, whose high byte is zero if the first byte is.
LEMMA MkFacts ==
  ASSUME NEW a \in Byte, NEW b \in Byte
  PROVE  Mk(a, b) \in Word /\ Hi(Mk(0, b)) = 0 /\ Lo(Mk(0, b)) = b
<1>1. a \in Int /\ 0 <= a /\ a <= U8_MAX /\ b \in Int /\ 0 <= b /\ b <= U8_MAX
  BY WordBounds, Zenon
<1>2. 256 * a + b \in Int /\ 0 <= 256 * a + b /\ 256 * a + b <= U16_MAX
  BY <1>1 DEF U8_MAX, U16_MAX
<1>3. (256 * 0 + b) \div 256 = 0 /\ (256 * 0 + b) % 256 = b
  BY <1>1 DEF U8_MAX
<1> QED
  BY <1>2, <1>3, WordBounds DEF Mk, Hi, Lo

\* The bytes of a word, and bpf_htons, stay in range.
LEMMA WordBytes ==
  ASSUME NEW w \in Word
  PROVE  Hi(w) \in Byte /\ Lo(w) \in Byte /\ bpf_htons(w) \in Word
<1>1. w \in Int /\ 0 <= w /\ w <= U16_MAX
  BY WordBounds, Zenon
<1>2. /\ w \div 256 \in Int /\ 0 <= w \div 256 /\ w \div 256 <= U8_MAX
      /\ w % 256 \in Int /\ 0 <= w % 256 /\ w % 256 <= U8_MAX
  BY <1>1 DEF U8_MAX, U16_MAX
<1>3. Hi(w) \in Byte /\ Lo(w) \in Byte
  BY <1>2, WordBounds, ZenonT(60) DEF Hi, Lo
<1> QED
  BY <1>3, MkFacts, Zenon DEF bpf_htons

\* A function from 1..n into S is a sequence over S of length n.
LEMMA FunIsSeq ==
  ASSUME NEW S, NEW n \in Nat, NEW g \in [1..n -> S]
  PROVE  g \in Seq(S) /\ Len(g) = n
<1>1. g \in Seq(S)
  BY SeqDef, Zenon
<1>2. DOMAIN g = 1..n
  BY Zenon
<1> QED
  BY <1>1, <1>2, LenProperties

\* Exchanging two runs of words keeps the length, and every word outside them.
LEMMA SwapWordsFacts ==
  ASSUME NEW f \in Frame, NEW i \in Nat, NEW j \in Nat, NEW n \in Nat,
         i >= 1, j >= 1, i + n - 1 <= Len(f), j + n - 1 <= Len(f)
  PROVE  /\ SwapWords(f, i, j, n) \in Frame
         /\ Len(SwapWords(f, i, j, n)) = Len(f)
         /\ \A k \in 1..Len(f) :
               k \notin i..(i + n - 1) /\ k \notin j..(j + n - 1)
                 => SwapWords(f, i, j, n)[k] = f[k]
<1> DEFINE g == SwapWords(f, i, j, n)
<1>1. Len(f) \in Nat /\ \A k \in 1..Len(f) : f[k] \in Word
  BY DEF Frame
<1>2. g \in [1..Len(f) -> Word]
  <2>1. ASSUME NEW k \in 1..Len(f), k \in i..(i + n - 1)
        PROVE  k - i + j \in 1..Len(f)
    BY <1>1, <2>1
  <2>2. ASSUME NEW k \in 1..Len(f), k \in j..(j + n - 1)
        PROVE  k - j + i \in 1..Len(f)
    BY <1>1, <2>2
  <2> QED
    BY <1>1, <2>1, <2>2, Zenon DEF SwapWords
<1>3. g \in Frame /\ Len(g) = Len(f)
  BY <1>1, <1>2, FunIsSeq, Zenon DEF Frame
<1>4. \A k \in 1..Len(f) :
         k \notin i..(i + n - 1) /\ k \notin j..(j + n - 1) => g[k] = f[k]
  BY Zenon DEF SwapWords
<1> QED
  BY <1>3, <1>4, Zenon

\* Turning a frame around: the words a program reads again are kept.
TurnedAround(f) == ClearIpCheck(swap_src_dst_ipv4(swap_src_dst_mac(f)))

\* Turning a frame around keeps its length and all words but the addresses.
LEMMA TurnedAroundFacts ==
  ASSUME NEW f \in Frame, Len(f) >= 17
  PROVE  /\ TurnedAround(f) \in Frame
         /\ Len(TurnedAround(f)) = Len(f)
         /\ \A k \in 1..Len(f) : k \in 7..12 \/ k > 17
               => TurnedAround(f)[k] = f[k]
<1> DEFINE m == swap_src_dst_mac(f)
           a == swap_src_dst_ipv4(m)
<1>0. /\ W(0) = 1 /\ W(6) = 4 /\ W(ETH_HLEN + 10) = 13
      /\ W(ETH_HLEN + 12) = 14 /\ W(ETH_HLEN + 16) = 16
      /\ Len(f) \in Nat
  BY DEF W, ETH_HLEN, Frame
<1>1. /\ m \in Frame /\ Len(m) = Len(f)
      /\ \A k \in 1..Len(f) : k > 6 => m[k] = f[k]
  <2>1. m = SwapWords(f, 1, 4, 3)
    BY <1>0, Zenon DEF swap_src_dst_mac
  <2>2. /\ m \in Frame /\ Len(m) = Len(f)
        /\ \A k \in 1..Len(f) :
              k \notin 1..(1 + 3 - 1) /\ k \notin 4..(4 + 3 - 1) => m[k] = f[k]
    <3>1. 1 + 3 - 1 <= Len(f) /\ 4 + 3 - 1 <= Len(f)
      BY <1>0
    <3> HIDE DEF m
    <3> QED
      BY <2>1, <3>1, SwapWordsFacts
  <2> HIDE DEF m
  <2> QED
    BY <1>0, <2>2
<1> HIDE DEF m
<1>2. /\ a \in Frame /\ Len(a) = Len(f)
      /\ \A k \in 1..Len(f) : k \in 7..12 \/ k > 17 => a[k] = f[k]
  <2>1. a = SwapWords(m, 14, 16, 2)
    BY <1>0, Zenon DEF swap_src_dst_ipv4
  <2>2. /\ a \in Frame /\ Len(a) = Len(m)
        /\ \A k \in 1..Len(m) :
              k \notin 14..(14 + 2 - 1) /\ k \notin 16..(16 + 2 - 1) => a[k] = m[k]
    <3>1. 14 + 2 - 1 <= Len(m) /\ 16 + 2 - 1 <= Len(m) /\ m \in Frame
      BY <1>0, <1>1
    <3> HIDE DEF a
    <3> QED
      BY <2>1, <3>1, SwapWordsFacts
  <2> HIDE DEF a
  <2> QED
    BY <1>0, <1>1, <2>2
<1> HIDE DEF a
<1>3. /\ ClearIpCheck(a) \in Frame
      /\ Len(ClearIpCheck(a)) = Len(f)
      /\ \A k \in 1..Len(f) : k # 13 => ClearIpCheck(a)[k] = a[k]
  <2>1. 0 \in Word
    BY WordBounds DEF U16_MAX
  <2> QED
    BY <1>0, <1>2, <2>1 DEF ClearIpCheck, Frame
<1>4. TurnedAround(f) = ClearIpCheck(a)
  BY DEF TurnedAround, a, m
<1> QED
  BY <1>0, <1>2, <1>3, <1>4

\* -22 truncated to 16 bits.
LEMMA U16Word == \A x \in Int : U16(x) \in Word
<1> SUFFICES ASSUME NEW x \in Int PROVE U16(x) \in Word
  OBVIOUS
<1>1. x % 65536 \in Int /\ 0 <= x % 65536 /\ x % 65536 <= U16_MAX
  BY DEF U16_MAX
<1> QED
  BY <1>1, WordBounds DEF U16

\* Step 7 of xdp_icmp_echo changes two adjacent words: the first keeps its low
\* byte and loses its high byte.
LEMMA EchoReplyFacts ==
  ASSUME NEW f \in Frame, NEW i \in Nat, i >= 8, i + 1 <= Len(f),
         NEW o \in Nat, W(o) = i, W(o + 2) = i + 1
  PROVE  LET r == EchoReply(f, o) IN
         /\ r \in Frame /\ Len(r) = Len(f)
         /\ r[i] = Mk(0, Lo(f[i]))
         /\ \A k \in 1..Len(f) : k # i /\ k # i + 1 => r[k] = f[k]
<1> DEFINE r == EchoReply(f, o)
<1>1. Len(f) \in Nat /\ i \in 1..Len(f) /\ i + 1 \in 1..Len(f)
  BY DEF Frame
<1>2. PICK v \in Word, u \in Word :
         /\ v = Mk(0, Lo(f[i]))
         /\ r = [f EXCEPT ![i] = v, ![i + 1] = u]
  <2>1. f[i] \in Word /\ f[i + 1] \in Word
    BY <1>1 DEF Frame
  <2>2. Mk(0, Lo(f[i])) \in Word
    <3>1. 0 \in Byte
      BY WordBounds DEF U8_MAX
    <3> QED
      BY <2>1, <3>1, WordBytes, MkFacts, Zenon
  <2>3. bpf_htons(U16(-EINVAL)) \in Word
    <3>1. -EINVAL \in Int
      BY DEF EINVAL
    <3> QED
      BY <3>1, U16Word, WordBytes, Zenon
  <2>4. \A from, to, seed : bpf_csum_diff(from, 2, to, 2, seed) = -EINVAL
    BY DEF bpf_csum_diff
  <2>5. r = [f EXCEPT ![i] = Mk(0, Lo(f[i])),
                      ![i + 1] = bpf_htons(U16(-EINVAL))]
    BY <2>4, Zenon DEF EchoReply, ICMP_ECHOREPLY
  <2> QED
    BY <2>2, <2>3, <2>5, Zenon
<1>3. r \in Frame /\ Len(r) = Len(f)
  BY <1>1, <1>2 DEF Frame
<1>4. r[i] = v /\ \A k \in 1..Len(f) : k # i /\ k # i + 1 => r[k] = f[k]
  BY <1>1, <1>2 DEF Frame
<1> QED
  BY <1>2, <1>3, <1>4, Zenon

\* What a frame xdp_icmp_echo reflects looks like: the ICMP header starts at
\* word i = 8 + 2 * ihl, inside the frame and after the word that holds ihl.
LEMMA IcmpIndex ==
  ASSUME NEW f \in Frame, IcmpReflects(f)
  PROVE  LET o == IcmpOffset(f)
             i == 8 + 2 * ihl(f)
         IN  /\ ihl(f) \in Nat /\ o \in Nat /\ i \in Nat
             /\ W(o) = i /\ W(o + 2) = i + 1 /\ i > 8
             /\ i + 1 <= Len(f) /\ Len(f) >= 21 /\ Len(f) \in Nat
<1>1. Len(f) \in Nat
  BY DEF Frame
<1>2. Len(f) >= 21
  BY <1>1 DEF IcmpReflects, data_end, ETH_HLEN, IP_HLEN, ICMP_HLEN
<1>3. Hi(f[8]) \in Byte
  BY <1>1, <1>2, WordBytes DEF Frame
<1>4. ihl(f) = Hi(f[8]) % 16
  BY DEF ihl, W, ETH_HLEN
<1>5. ihl(f) \in Nat
  <2>1. Hi(f[8]) \in Int
    BY <1>3, WordBounds, Zenon
  <2> QED
    BY <1>4, <2>1
<1>6. W(IcmpOffset(f)) = 8 + 2 * ihl(f) /\ W(IcmpOffset(f) + 2) = 9 + 2 * ihl(f)
  BY <1>5 DEF W, IcmpOffset, ETH_HLEN
<1>7. 9 + 2 * ihl(f) <= Len(f)
  BY <1>1, <1>5 DEF IcmpReflects, IcmpOffset, data_end, ETH_HLEN, ICMP_HLEN
<1>8. ihl(f) # 0
  <2>1. SUFFICES ASSUME ihl(f) = 0 PROVE FALSE
    BY Zenon
  <2>2. Hi(f[8]) = 8
    BY <1>6, <2>1 DEF IcmpReflects, ICMP_ECHO
  <2> QED
    BY <1>4, <2>1, <2>2
<1>9. IcmpOffset(f) \in Nat
  BY <1>5 DEF IcmpOffset, ETH_HLEN
<1>10. 8 + 2 * ihl(f) \in Nat /\ 8 + 2 * ihl(f) > 8
  BY <1>5, <1>8
<1> QED
  BY <1>1, <1>2, <1>5, <1>6, <1>7, <1>9, <1>10

\* Reflecting a frame keeps it a frame of the same length, and keeps its IP
\* protocol.  xdp_icmp_echo never reflects what it has reflected, whatever ihl
\* says: the type it clears is the one it would look at.
THEOREM IcmpAnswerNotAnswered ==
  ASSUME NEW f \in Frame, IcmpReflects(f)
  PROVE  LET r == xdp_icmp_echo(f).frame IN
         /\ r \in Frame /\ Len(r) = Len(f)
         /\ protocol(f) = IPPROTO_ICMP /\ protocol(r) = IPPROTO_ICMP
         /\ ~ IcmpReflects(r)
<1> DEFINE t == TurnedAround(f)
           o == IcmpOffset(f)
           i == 8 + 2 * ihl(f)
           r == EchoReply(t, o)
<1>0. xdp_icmp_echo(f).frame = r
  BY Zenon DEF xdp_icmp_echo, Verdict, TurnedAround
<1>1. /\ ihl(f) \in Nat /\ o \in Nat /\ i \in Nat
      /\ W(o) = i /\ W(o + 2) = i + 1 /\ i > 8
      /\ i + 1 <= Len(f) /\ Len(f) >= 21 /\ Len(f) \in Nat
  BY IcmpIndex, Zenon
<1>2. /\ t \in Frame /\ Len(t) = Len(f)
      /\ \A k \in 1..Len(f) : k \in 7..12 \/ k > 17 => t[k] = f[k]
  BY SMTT(40), <1>1, TurnedAroundFacts
<1> HIDE DEF t, o
<1>3. /\ r \in Frame /\ Len(r) = Len(f)
      /\ r[i] = Mk(0, Lo(t[i]))
      /\ \A k \in 1..Len(f) : k # i /\ k # i + 1 => r[k] = t[k]
  <2>1. /\ i \in Nat /\ i >= 8 /\ i + 1 <= Len(t) /\ t \in Frame
        /\ o \in Nat /\ W(o) = i /\ W(o + 2) = i + 1
    BY <1>1, <1>2
  <2> HIDE DEF i
  <2>2. /\ r \in Frame /\ Len(r) = Len(t)
        /\ r[i] = Mk(0, Lo(t[i]))
        /\ \A k \in 1..Len(t) : k # i /\ k # i + 1 => r[k] = t[k]
    BY <2>1, EchoReplyFacts, Zenon
  <2> HIDE DEF r
  <2> QED
    BY <1>2, <2>2, Zenon
<1>4. r[8] = f[8]
  <2>1. 8 \in 1..Len(f) /\ 8 # i /\ 8 # i + 1
    BY <1>1
  <2> HIDE DEF r, i
  <2>2. r[8] = t[8]
    BY <1>3, <2>1, Zenon
  <2> QED
    BY <1>2, <2>1, <2>2
<1>5. ihl(r) = ihl(f) /\ IcmpOffset(r) = o
  BY <1>4 DEF ihl, W, ETH_HLEN, IcmpOffset, o
<1>6. t[i] \in Word
  BY SMTT(40), <1>1, <1>2 DEF Frame
<1>7. Hi(r[i]) = 0 /\ Lo(r[i]) = Lo(t[i])
  BY <1>3, <1>6, WordBytes, MkFacts
<1>8. ~ IcmpReflects(r)
  BY <1>1, <1>5, <1>7 DEF IcmpReflects, ICMP_ECHO
<1>9. Lo(r[12]) = Lo(f[12])
  <2>1. i # 11
    <3>1. i = 8 + 2 * ihl(f)
      BY Zenon
    <3> QED
      BY SMTT(40), <1>1, <3>1
  <2>2. t[12] = f[12]
    BY <1>1, <1>2
  <2>3. CASE i = 12
    BY <1>7, <2>2, <2>3, Zenon
  <2>4. CASE i # 12
    <3>1. 12 \in 1..Len(f) /\ 12 # i /\ 12 # i + 1
      BY SMTT(40), <1>1, <2>1, <2>4
    <3> HIDE DEF r, i
    <3>2. r[12] = t[12]
      BY <1>3, <3>1, Zenon
    <3> QED
      BY <2>2, <3>2, Zenon
  <2> QED
    BY <2>3, <2>4, Zenon
<1>10. protocol(f) = IPPROTO_ICMP /\ protocol(r) = IPPROTO_ICMP
  BY <1>9 DEF IcmpReflects, protocol, W, ETH_HLEN
<1> QED
  BY <1>0, <1>3, <1>8, <1>10, Zenon

\* xdp_udp_echo, too, leaves a frame of the same length and protocol.
THEOREM UdpReflectionFacts ==
  ASSUME NEW f \in Frame, xdp_udp_echo(f).act = "XDP_TX"
  PROVE  LET r == xdp_udp_echo(f).frame IN
         /\ r \in Frame /\ Len(r) = Len(f)
         /\ protocol(f) = IPPROTO_UDP /\ protocol(r) = IPPROTO_UDP
<1> DEFINE t == TurnedAround(f)
           s == SwapWords(t, 18, 19, 1)
           r == SwapUdpPorts(t)
<1>1. /\ xdp_udp_echo(f) = Verdict("XDP_TX", r)
      /\ protocol(f) = IPPROTO_UDP
      /\ ~ (UdpOffset + UDP_HLEN > data_end(f))
  BY Zenon DEF xdp_udp_echo, Verdict, TurnedAround
<1>2. Len(f) \in Nat /\ Len(f) >= 21
  BY <1>1 DEF Frame, UdpOffset, UDP_HLEN, ETH_HLEN, IP_HLEN, data_end
<1>3. /\ t \in Frame /\ Len(t) = Len(f)
      /\ t[12] = f[12]
  BY <1>2, TurnedAroundFacts
<1> HIDE DEF t
<1>4. /\ s \in Frame /\ Len(s) = Len(f)
      /\ s[12] = t[12]
  BY <1>2, <1>3, SwapWordsFacts
<1> HIDE DEF s
<1>5. r = [s EXCEPT ![21] = 0]
  BY DEF SwapUdpPorts, W, UdpOffset, ETH_HLEN, IP_HLEN, s
<1>6. 0 \in Word
  BY WordBounds DEF U16_MAX
<1>7. r \in Frame /\ Len(r) = Len(f) /\ r[12] = f[12]
  BY <1>2, <1>3, <1>4, <1>5, <1>6 DEF Frame
<1> HIDE DEF r
<1> QED
  BY <1>1, <1>7 DEF Verdict, protocol, W, ETH_HLEN

\* Running any program keeps a frame a frame.
LEMMA RunFrame ==
  ASSUME NEW f \in Frame, NEW p
  PROVE  Run(p, f).frame \in Frame
<1>1. CASE p = "xdp_icmp_echo"
  <2>1. CASE IcmpReflects(f)
    BY <1>1, <2>1, IcmpAnswerNotAnswered, Zenon DEF Run
  <2>2. CASE ~ IcmpReflects(f)
    BY <1>1, <2>2, Zenon DEF Run, xdp_icmp_echo, Verdict
  <2> QED
    BY <2>1, <2>2, Zenon
<1>2. CASE p = "xdp_udp_echo"
  <2>1. CASE xdp_udp_echo(f).act = "XDP_TX"
    BY <1>2, <2>1, UdpReflectionFacts, Zenon DEF Run
  <2>2. CASE xdp_udp_echo(f).act # "XDP_TX"
    BY <1>2, <2>2, Zenon DEF Run, xdp_udp_echo, Verdict
  <2> QED
    BY <2>1, <2>2, Zenon
<1>3. CASE p # "xdp_icmp_echo" /\ p # "xdp_udp_echo"
  BY <1>3, Zenon DEF Run, Verdict
<1> QED
  BY <1>1, <1>2, <1>3, Zenon

\* The veth pair has two ends.
LEMMA PeerFacts ==
  /\ Peer("srv") = "cli" /\ Peer("cli") = "srv"
  /\ \A h \in Hosts : Peer(h) \in Hosts
BY Zenon DEF Peer, Hosts

\* The type invariant of the link.
THEOREM LinkTypeOK == Spec => []TypeOK
<1>1. Init => TypeOK
  BY DEF Init, TypeOK
<1>2. TypeOK /\ [Next]_vars => TypeOK'
  <2> SUFFICES ASSUME TypeOK, [Next]_vars PROVE TypeOK'
    BY Zenon
  <2> USE DEF TypeOK
  <2>1. ASSUME NEW h \in Hosts, NEW p \in Programs, Attach(h, p)
        PROVE  TypeOK'
    BY <2>1, Zenon DEF Attach
  <2>2. CASE ClearSrv
    BY <2>2, Zenon DEF ClearSrv
  <2>3. CASE ClearCli
    BY <2>3, Zenon DEF ClearCli
  <2>4. ASSUME NEW f \in Inputs, Send(f)
        PROVE  TypeOK'
    <3>1. [to |-> "srv", frame |-> f, orig |-> f, tx |-> 0] \in Packet
      BY InputsAssumption, Zenon DEF Packet, Hosts
    <3> QED
      BY <2>4, <3>1 DEF Send
  <2>5. ASSUME NEW p \in wire, Receive(p)
        PROVE  TypeOK'
    <3> DEFINE v == Run(prog[p.to], p.frame)
    <3>1. /\ p.to \in Hosts /\ p.frame \in Frame /\ p.orig \in Frame
          /\ p.tx \in Nat /\ p \in Packet
      BY Zenon DEF Packet
    <3>2. v.frame \in Frame
      BY <3>1, RunFrame, Zenon
    <3> HIDE DEF v
    <3>3. CASE ReceiveTx(p)
      <4>1. [to |-> Peer(p.to), frame |-> v.frame, orig |-> p.orig,
             tx |-> p.tx + 1] \in Packet
        BY <3>1, <3>2, PeerFacts DEF Packet
      <4> QED
        BY <3>3, <4>1, Zenon DEF ReceiveTx, v
    <3>4. CASE ReceivePass(p)
      <4>1. [p EXCEPT !.frame = v.frame] \in Packet
        BY <3>1, <3>2, Zenon DEF Packet
      <4> QED
        BY <3>4, <4>1, Zenon DEF ReceivePass, v
    <3>5. CASE ReceiveAborted(p)
      BY <3>5, Zenon DEF ReceiveAborted
    <3> QED
      BY <2>5, <3>3, <3>4, <3>5, Zenon DEF Receive
  <2>6. CASE UNCHANGED vars
    BY <2>6, Zenon DEF vars
  <2> QED
    BY <2>1, <2>2, <2>3, <2>4, <2>5, <2>6, Zenon DEF Next, Receive
<1> QED
  BY <1>1, <1>2, PTL DEF Spec

\* What a packet in flight may have been through, U being the hosts that have had
\* xdp_udp_echo: nothing; xdp_icmp_echo, which will not reflect it again; or
\* xdp_udp_echo at the other end, more than once only with both ends in U.
Accounted(p, U) ==
    \/ p.tx = 0 /\ p.frame = p.orig
    \/ /\ p.tx = 1
       /\ protocol(p.frame) = IPPROTO_ICMP /\ ~ IcmpReflects(p.frame)
    \/ /\ protocol(p.frame) = IPPROTO_UDP /\ protocol(p.orig) = IPPROTO_UDP
       /\ Peer(p.to) \in U
       /\ p.tx = 1 \/ U = Hosts

\* The inductive strengthening of ReflectedAtMostOnce.
LinkInv ==
    /\ \A h \in Hosts : prog[h] = "xdp_udp_echo" => h \in udpAt
    /\ \A p \in wire : Accounted(p, udpAt)
    /\ \A p \in stack :
         p.tx <= 1 \/ (protocol(p.orig) = IPPROTO_UDP /\ udpAt = Hosts)

\* What accounts for a packet still does when more ends have had xdp_udp_echo.
LEMMA AccountedMonotone ==
  ASSUME NEW U \in SUBSET Hosts, NEW V \in SUBSET Hosts, U \subseteq V,
         NEW p \in Packet, Accounted(p, U)
  PROVE  Accounted(p, V)
BY Zenon DEF Accounted

\* A packet whatever program reflects is accounted for again.
LEMMA TxFacts ==
  ASSUME NEW h \in Hosts, NEW g, NEW U \in SUBSET Hosts,
         g = "xdp_udp_echo" => h \in U,
         NEW p \in Packet, p.to = h, Accounted(p, U),
         Run(g, p.frame).act = "XDP_TX"
  PROVE  Accounted([to |-> Peer(h), frame |-> Run(g, p.frame).frame,
                    orig |-> p.orig, tx |-> p.tx + 1], U)
<1> DEFINE f == p.frame
           q == [to |-> Peer(h), frame |-> Run(g, f).frame,
                 orig |-> p.orig, tx |-> p.tx + 1]
<1>0. /\ f \in Frame /\ p.tx \in Nat
      /\ q.frame = Run(g, f).frame /\ q.to = Peer(h)
      /\ q.orig = p.orig /\ q.tx = p.tx + 1
  BY Zenon DEF Packet
<1>1. IPPROTO_ICMP # IPPROTO_UDP
  BY DEF IPPROTO_ICMP, IPPROTO_UDP
<1>2. CASE g = "xdp_icmp_echo"
  <2>1. Run(g, f) = xdp_icmp_echo(f)
    BY <1>2, Zenon DEF Run
  <2>2. IcmpReflects(f)
    BY <2>1 DEF xdp_icmp_echo, Verdict
  <2>3. /\ protocol(f) = IPPROTO_ICMP
        /\ protocol(q.frame) = IPPROTO_ICMP /\ ~ IcmpReflects(q.frame)
    BY <1>0, <2>1, <2>2, IcmpAnswerNotAnswered, Zenon
  <2>4. p.tx = 0
    BY <1>1, <2>2, <2>3, Zenon DEF Accounted
  <2> HIDE DEF q
  <2>5. q.tx = 1
    BY <1>0, <2>4
  <2>6. Accounted(q, U)
    BY <2>3, <2>5, Zenon DEF Accounted
  <2> QED
    BY <2>6, Zenon DEF q
<1>3. CASE g = "xdp_udp_echo"
  <2>1. Run(g, f) = xdp_udp_echo(f)
    BY <1>3, Zenon DEF Run
  <2>2. protocol(f) = IPPROTO_UDP /\ protocol(q.frame) = IPPROTO_UDP
    BY <1>0, <2>1, UdpReflectionFacts, Zenon
  <2>3. h \in U /\ Peer(q.to) = h
    BY <1>0, <1>3, PeerFacts, Zenon DEF Hosts
  <2>4. \/ p.tx = 0 /\ f = p.orig
        \/ protocol(p.orig) = IPPROTO_UDP /\ Peer(h) \in U
    BY <1>1, <2>2, Zenon DEF Accounted
  <2>5. Peer(h) \in U => U = Hosts
    BY <2>3, PeerFacts, Zenon DEF Hosts
  <2>6. protocol(q.orig) = IPPROTO_UDP /\ (q.tx = 1 \/ U = Hosts)
    BY <1>0, <2>2, <2>4, <2>5
  <2> HIDE DEF q
  <2>7. Accounted(q, U)
    BY <2>2, <2>3, <2>6, Zenon DEF Accounted
  <2> QED
    BY <2>7, Zenon DEF q
<1>4. CASE g # "xdp_icmp_echo" /\ g # "xdp_udp_echo"
  BY <1>4, Zenon DEF Run, Verdict
<1> QED
  BY <1>2, <1>3, <1>4, Zenon

\* Whatever is attached and cleared at the two ends while packets fly, a packet
\* is reflected at most once, unless it is UDP and both ends have had
\* xdp_udp_echo.
THEOREM LinkReflectsOnce == Spec => []ReflectedAtMostOnce
<1>1. Init => LinkInv
  BY Zenon DEF Init, LinkInv
<1>2. TypeOK /\ LinkInv /\ [Next]_vars => LinkInv'
  <2> SUFFICES ASSUME TypeOK, LinkInv, [Next]_vars PROVE LinkInv'
    BY Zenon
  <2>0. /\ udpAt \in SUBSET Hosts
        /\ \A p \in wire : p \in Packet /\ Accounted(p, udpAt)
        /\ \A p \in stack :
             p.tx <= 1 \/ (protocol(p.orig) = IPPROTO_UDP /\ udpAt = Hosts)
        /\ \A h \in Hosts : prog[h] = "xdp_udp_echo" => h \in udpAt
    BY Zenon DEF TypeOK, LinkInv
  <2>1. ASSUME NEW h \in Hosts, NEW p \in Programs, Attach(h, p)
        PROVE  LinkInv'
    <3>1. /\ udpAt' \in SUBSET Hosts /\ udpAt \subseteq udpAt'
          /\ wire' = wire /\ stack' = stack
      BY <2>0, <2>1, Zenon DEF Attach
    <3>2. \A k \in Hosts : prog'[k] = "xdp_udp_echo" => k \in udpAt'
      BY <2>0, <2>1, Zenon DEF Attach, TypeOK
    <3>3. \A k \in wire : Accounted(k, udpAt')
      BY <2>0, <3>1, AccountedMonotone, Zenon
    <3>4. udpAt = Hosts => udpAt' = Hosts
      BY <3>1, Zenon
    <3> QED
      BY <2>0, <3>1, <3>2, <3>3, <3>4, Zenon DEF LinkInv
  <2>2. CASE ClearSrv
    BY <2>0, <2>2, Zenon DEF ClearSrv, TypeOK, LinkInv
  <2>3. CASE ClearCli
    BY <2>0, <2>3, Zenon DEF ClearCli, TypeOK, LinkInv
  <2>4. ASSUME NEW f \in Inputs, Send(f)
        PROVE  LinkInv'
    <3> DEFINE q == [to |-> "srv", frame |-> f, orig |-> f, tx |-> 0]
    <3>1. Accounted(q, udpAt)
      BY Zenon DEF Accounted
    <3>2. wire' = wire \cup {q} /\ UNCHANGED <<prog, udpAt, stack>>
      BY <2>4, Zenon DEF Send
    <3> HIDE DEF q
    <3> QED
      BY <2>0, <3>1, <3>2, Zenon DEF LinkInv
  <2>5. ASSUME NEW p \in wire, Receive(p)
        PROVE  LinkInv'
    <3> DEFINE v == Run(prog[p.to], p.frame)
               q == [to |-> Peer(p.to), frame |-> v.frame, orig |-> p.orig,
                     tx |-> p.tx + 1]
    <3>1. /\ p \in Packet /\ p.to \in Hosts /\ Accounted(p, udpAt)
          /\ prog[p.to] = "xdp_udp_echo" => p.to \in udpAt
      BY <2>0, Zenon DEF Packet
    <3>2. CASE ReceiveTx(p)
      <4>1. /\ v.act = "XDP_TX" /\ wire' = (wire \ {p}) \cup {q}
            /\ UNCHANGED <<prog, udpAt, stack>>
        BY <3>2, Zenon DEF ReceiveTx
      <4>2. Accounted(q, udpAt)
        BY <2>0, <3>1, <4>1, TxFacts, Zenon
      <4> HIDE DEF q, v
      <4> QED
        BY <2>0, <4>1, <4>2, Zenon DEF LinkInv
    <3>3. CASE ReceivePass(p)
      <4> DEFINE d == [p EXCEPT !.frame = v.frame]
      <4>1. d.tx = p.tx /\ d.orig = p.orig /\ p.tx \in Nat
        BY <3>1, Zenon DEF Packet
      <4>2. /\ wire' = wire \ {p} /\ stack' = stack \cup {d}
            /\ UNCHANGED <<prog, udpAt>>
        BY <3>3, Zenon DEF ReceivePass
      <4> HIDE DEF d
      <4>3. d.tx <= 1 \/ (protocol(d.orig) = IPPROTO_UDP /\ udpAt = Hosts)
        BY <3>1, <4>1 DEF Accounted
      <4> QED
        BY <2>0, <4>2, <4>3, Zenon DEF LinkInv
    <3>4. CASE ReceiveAborted(p)
      BY <2>0, <3>4, Zenon DEF ReceiveAborted, LinkInv
    <3> QED
      BY <2>5, <3>2, <3>3, <3>4, Zenon DEF Receive
  <2>6. CASE UNCHANGED vars
    BY <2>6, Zenon DEF vars, LinkInv
  <2> QED
    BY <2>1, <2>2, <2>3, <2>4, <2>5, <2>6, Zenon DEF Next, Receive
<1>3. TypeOK /\ LinkInv => ReflectedAtMostOnce
  <2> SUFFICES ASSUME TypeOK, LinkInv, NEW p \in wire
               PROVE  p.tx <= 1 \/ (protocol(p.orig) = IPPROTO_UDP /\ udpAt = Hosts)
    BY Zenon DEF LinkInv, ReflectedAtMostOnce, Packets
  <2> QED
    BY DEF LinkInv, Accounted
<1> QED
  BY <1>1, <1>2, <1>3, LinkTypeOK, PTL DEF Spec

\* Turned, word by word.
LEMMA TurnedWords ==
  ASSUME NEW f \in Frame, Len(f) >= 17
  PROVE  /\ Turned(f) \in Frame /\ Len(Turned(f)) = Len(f)
         /\ \A k \in 1..Len(f) :
              /\ k \in 1..3   => Turned(f)[k] = f[k + 3]
              /\ k \in 4..6   => Turned(f)[k] = f[k - 3]
              /\ k \in 14..15 => Turned(f)[k] = f[k + 2]
              /\ k \in 16..17 => Turned(f)[k] = f[k - 2]
              /\ k \in 7..13 \/ k > 17 => Turned(f)[k] = f[k]
<1> DEFINE t == Turned(f)
<1>1. Len(f) \in Nat /\ \A k \in 1..Len(f) : f[k] \in Word
  BY DEF Frame
<1>2. \A k \in 1..Len(f) :
         /\ k \in 1..3   => t[k] = f[k + 3]
         /\ k \in 4..6   => t[k] = f[k - 3]
         /\ k \in 14..15 => t[k] = f[k + 2]
         /\ k \in 16..17 => t[k] = f[k - 2]
         /\ k \in 7..13 \/ k > 17 => t[k] = f[k]
  <2> SUFFICES ASSUME NEW k \in 1..Len(f)
               PROVE /\ k \in 1..3   => t[k] = f[k + 3]
                     /\ k \in 4..6   => t[k] = f[k - 3]
                     /\ k \in 14..15 => t[k] = f[k + 2]
                     /\ k \in 16..17 => t[k] = f[k - 2]
                     /\ k \in 7..13 \/ k > 17 => t[k] = f[k]
    BY Zenon
  <2>1. t[k] = CASE k \in 1..3   -> f[k + 3]
                 [] k \in 4..6   -> f[k - 3]
                 [] k \in 14..15 -> f[k + 2]
                 [] k \in 16..17 -> f[k - 2]
                 [] OTHER -> f[k]
    BY Zenon DEF Turned
  <2> HIDE DEF t
  <2>2. CASE k \in 1..3
    <3>1. /\ k \notin 4..6 /\ k \notin 14..15 /\ k \notin 16..17
          /\ k \notin 7..13 /\ ~(k > 17)
      BY <2>2
    <3> QED
      BY <2>1, <2>2, <3>1, Zenon
  <2>3. CASE k \in 4..6
    <3>1. /\ k \notin 1..3 /\ k \notin 14..15 /\ k \notin 16..17
          /\ k \notin 7..13 /\ ~(k > 17)
      BY <2>3
    <3> QED
      BY <2>1, <2>3, <3>1, Zenon
  <2>4. CASE k \in 14..15
    <3>1. /\ k \notin 1..3 /\ k \notin 4..6 /\ k \notin 16..17
          /\ k \notin 7..13 /\ ~(k > 17)
      BY <2>4
    <3> QED
      BY <2>1, <2>4, <3>1, Zenon
  <2>5. CASE k \in 16..17
    <3>1. /\ k \notin 1..3 /\ k \notin 4..6 /\ k \notin 14..15
          /\ k \notin 7..13 /\ ~(k > 17)
      BY <2>5
    <3> QED
      BY <2>1, <2>5, <3>1, Zenon
  <2>6. CASE k \in 7..13 \/ k > 17
    <3>1. k \notin 1..3 /\ k \notin 4..6 /\ k \notin 14..15 /\ k \notin 16..17
      BY <2>6
    <3> QED
      BY <2>1, <2>6, <3>1, Zenon
  <2> QED
    BY <1>1, <2>2, <2>3, <2>4, <2>5, <2>6, Zenon
<1>3. t \in [1..Len(f) -> Word]
  <2>1. DOMAIN t = 1..Len(f) /\ t = [k \in DOMAIN t |-> t[k]]
    BY DEF Turned
  <2> HIDE DEF t
  <2>2. \A k \in 1..Len(f) : t[k] \in Word
    BY SMTT(40), <1>1, <1>2
  <2> QED
    BY <2>1, <2>2, Zenon
<1> QED
  BY <1>1, <1>2, <1>3, FunIsSeq, Zenon DEF Frame

\* The swap helpers and the cleared checksum turn a frame around, and zero the
\* IP checksum.
LEMMA TurnedAroundIsTurned ==
  ASSUME NEW f \in Frame, Len(f) >= 17
  PROVE  /\ TurnedAround(f)[13] = 0
         /\ \A k \in 1..Len(f) : k # 13 => TurnedAround(f)[k] = Turned(f)[k]
<1> DEFINE m == swap_src_dst_mac(f)
           a == swap_src_dst_ipv4(m)
<1>0. /\ W(0) = 1 /\ W(6) = 4 /\ W(ETH_HLEN + 10) = 13
      /\ W(ETH_HLEN + 12) = 14 /\ W(ETH_HLEN + 16) = 16
      /\ Len(f) \in Nat
  BY DEF W, ETH_HLEN, Frame
<1>1. /\ m \in Frame /\ Len(m) = Len(f) /\ m = SwapWords(f, 1, 4, 3)
  <2>1. m = SwapWords(f, 1, 4, 3)
    BY <1>0, Zenon DEF swap_src_dst_mac
  <2>2. 1 + 3 - 1 <= Len(f) /\ 4 + 3 - 1 <= Len(f)
    BY <1>0
  <2> HIDE DEF m
  <2> QED
    BY <2>1, <2>2, SwapWordsFacts
<1> HIDE DEF m
<1>2. /\ a \in Frame /\ Len(a) = Len(f) /\ a = SwapWords(m, 14, 16, 2)
  <2>1. a = SwapWords(m, 14, 16, 2)
    BY <1>0, Zenon DEF swap_src_dst_ipv4
  <2>2. 14 + 2 - 1 <= Len(m) /\ 16 + 2 - 1 <= Len(m)
    BY <1>0, <1>1
  <2> HIDE DEF a
  <2> QED
    BY <1>1, <2>1, <2>2, SwapWordsFacts
<1> HIDE DEF a
<1>3. \A k \in 1..Len(f) :
         /\ k \in 1..3 => m[k] = f[k + 3]
         /\ k \in 4..6 => m[k] = f[k - 3]
         /\ k > 6      => m[k] = f[k]
  <2> SUFFICES ASSUME NEW k \in 1..Len(f)
               PROVE  /\ k \in 1..3 => m[k] = f[k + 3]
                      /\ k \in 4..6 => m[k] = f[k - 3]
                      /\ k > 6      => m[k] = f[k]
    BY Zenon
  <2>1. m[k] = IF k \in 1..(1 + 3 - 1) THEN f[k - 1 + 4]
               ELSE IF k \in 4..(4 + 3 - 1) THEN f[k - 4 + 1] ELSE f[k]
    BY <1>1, Zenon DEF SwapWords
  <2>2. k \in Int /\ k - 1 + 4 = k + 3 /\ k - 4 + 1 = k - 3
    BY <1>0
  <2>3. CASE k \in 1..3
    BY SMTT(40), <2>1, <2>2, <2>3
  <2>4. CASE k \in 4..6
    BY <2>1, <2>2, <2>4
  <2>5. CASE k > 6
    BY SMTT(40), <2>1, <2>2, <2>5
  <2> QED
    BY <2>3, <2>4, <2>5, Zenon
<1>4. \A k \in 1..Len(f) :
         /\ k \in 14..15 => a[k] = m[k + 2]
         /\ k \in 16..17 => a[k] = m[k - 2]
         /\ k < 14 \/ k > 17 => a[k] = m[k]
  <2> SUFFICES ASSUME NEW k \in 1..Len(f)
               PROVE  /\ k \in 14..15 => a[k] = m[k + 2]
                      /\ k \in 16..17 => a[k] = m[k - 2]
                      /\ k < 14 \/ k > 17 => a[k] = m[k]
    BY Zenon
  <2>1. k \in 1..Len(m)
    BY <1>1, Zenon
  <2>2. a[k] = IF k \in 14..(14 + 2 - 1) THEN m[k - 14 + 16]
               ELSE IF k \in 16..(16 + 2 - 1) THEN m[k - 16 + 14] ELSE m[k]
    BY <1>2, <2>1, Zenon DEF SwapWords
  <2> QED
    BY <1>0, <2>2
<1>5. \A k \in 1..Len(f) : a[k] = Turned(f)[k]
  <2> SUFFICES ASSUME NEW k \in 1..Len(f)
               PROVE  a[k] = Turned(f)[k]
    BY Zenon
  <2>0. /\ k \in 1..3   => Turned(f)[k] = f[k + 3]
        /\ k \in 4..6   => Turned(f)[k] = f[k - 3]
        /\ k \in 14..15 => Turned(f)[k] = f[k + 2]
        /\ k \in 16..17 => Turned(f)[k] = f[k - 2]
        /\ k \in 7..13 \/ k > 17 => Turned(f)[k] = f[k]
    <3>1. Len(f) >= 17
      BY <1>0
    <3> QED
      BY <3>1, TurnedWords, Zenon
  <2>1. CASE k \in 1..6
    <3>1. k < 14 /\ (k \in 1..3 \/ k \in 4..6)
      BY <2>1
    <3> QED
      BY <1>3, <1>4, <2>0, <3>1, Zenon
  <2>2. CASE k \in 14..15
    <3>1. k + 2 \in 1..Len(f) /\ k + 2 > 6
      BY <1>0, <2>2
    <3> QED
      BY <1>3, <1>4, <2>0, <2>2, <3>1, Zenon
  <2>3. CASE k \in 16..17
    <3>1. k - 2 \in 1..Len(f) /\ k - 2 > 6
      BY <1>0, <2>3
    <3> QED
      BY <1>3, <1>4, <2>0, <2>3, <3>1, Zenon
  <2>4. CASE k \in 7..13 \/ k > 17
    <3>1. k > 6 /\ (k < 14 \/ k > 17)
      BY <1>0, <2>4
    <3> QED
      BY <1>3, <1>4, <2>0, <2>4, <3>1, Zenon
  <2>5. k \in 1..6 \/ k \in 14..15 \/ k \in 16..17 \/ k \in 7..13 \/ k > 17
    BY <1>0
  <2> QED
    BY <2>1, <2>2, <2>3, <2>4, <2>5, Zenon
<1>6. TurnedAround(f) = [a EXCEPT ![13] = 0]
  BY <1>0, Zenon DEF TurnedAround, ClearIpCheck, a, m
<1>7. /\ TurnedAround(f)[13] = 0
      /\ \A k \in 1..Len(f) : k # 13 => TurnedAround(f)[k] = a[k]
  BY <1>0, <1>2, <1>6 DEF Frame
<1> QED
  BY <1>5, <1>7, Zenon

\* A frame with its addresses and its UDP ports exchanged.
UdpTurned(f) == [Turned(f) EXCEPT ![18] = f[19], ![19] = f[18]]

\* What xdp_udp_echo leaves of a frame it reflects.
LEMMA UdpAnswerWords ==
  ASSUME NEW f \in Frame, xdp_udp_echo(f).act = "XDP_TX"
  PROVE  LET r == xdp_udp_echo(f).frame IN
         /\ Len(f) >= 21 /\ Len(r) = Len(f)
         /\ r[13] = 0 /\ r[21] = 0
         /\ \A k \in 1..Len(f) : k # 13 /\ k # 21 => r[k] = UdpTurned(f)[k]
<1> DEFINE t == TurnedAround(f)
           s == SwapWords(t, 18, 19, 1)
           r == SwapUdpPorts(t)
           u == Turned(f)
<1>1. xdp_udp_echo(f).frame = r /\ ~ (UdpOffset + UDP_HLEN > data_end(f))
  BY Zenon DEF xdp_udp_echo, Verdict, TurnedAround
<1>2. Len(f) \in Nat /\ Len(f) >= 21
  BY <1>1 DEF Frame, UdpOffset, UDP_HLEN, ETH_HLEN, IP_HLEN, data_end
<1>3. /\ t \in Frame /\ Len(t) = Len(f) /\ t[13] = 0
      /\ \A k \in 1..Len(f) : k # 13 => t[k] = u[k]
  BY <1>2, TurnedAroundFacts, TurnedAroundIsTurned
<1>4. /\ u \in Frame /\ Len(u) = Len(f) /\ u[18] = f[18] /\ u[19] = f[19]
  BY <1>2, TurnedWords
<1> HIDE DEF t, u
<1>5. /\ s \in Frame /\ Len(s) = Len(f)
      /\ \A k \in 1..Len(f) : k # 18 /\ k # 19 => s[k] = t[k]
  BY SMTT(40), <1>2, <1>3, SwapWordsFacts
<1>6. s[18] = t[19] /\ s[19] = t[18]
  <2>1. \A k \in 1..Len(t) : s[k] = IF k \in 18..(18 + 1 - 1) THEN t[k - 18 + 19]
               ELSE IF k \in 19..(19 + 1 - 1) THEN t[k - 19 + 18] ELSE t[k]
    BY Zenon DEF SwapWords
  <2> HIDE DEF s
  <2> QED
    BY <1>2, <1>3, <2>1
<1> HIDE DEF s
<1>7. r = [s EXCEPT ![21] = 0]
  BY DEF SwapUdpPorts, W, UdpOffset, ETH_HLEN, IP_HLEN, s
<1>8. /\ Len(r) = Len(f) /\ r[21] = 0
      /\ \A k \in 1..Len(f) : k # 21 => r[k] = s[k]
  BY <1>2, <1>5, <1>7 DEF Frame
<1> HIDE DEF r
<1>9. /\ UdpTurned(f)[18] = f[19] /\ UdpTurned(f)[19] = f[18]
      /\ \A k \in 1..Len(f) : k # 18 /\ k # 19 => UdpTurned(f)[k] = u[k]
  BY <1>2, <1>4 DEF UdpTurned, u, Frame
<1>10. \A k \in 1..Len(f) : k # 13 /\ k # 21 => r[k] = UdpTurned(f)[k]
  <2> SUFFICES ASSUME NEW k \in 1..Len(f), k # 13, k # 21
               PROVE  r[k] = UdpTurned(f)[k]
    BY Zenon
  <2>1. CASE k = 18
    BY <1>2, <1>3, <1>4, <1>6, <1>8, <1>9, <2>1
  <2>2. CASE k = 19
    BY <1>2, <1>3, <1>4, <1>6, <1>8, <1>9, <2>2
  <2>3. CASE k # 18 /\ k # 19
    BY <1>3, <1>5, <1>8, <1>9, <2>3
  <2> QED
    BY <2>1, <2>2, <2>3, Zenon
<1>11. r[13] = 0
  BY <1>2, <1>3, <1>5, <1>8
<1> QED
  BY <1>1, <1>2, <1>8, <1>10, <1>11, Zenon

\* UdpTurned, word by word.
LEMMA UdpTurnedWords ==
  ASSUME NEW f \in Frame, Len(f) >= 21
  PROVE  /\ UdpTurned(f) \in Frame /\ Len(UdpTurned(f)) = Len(f)
         /\ UdpTurned(f)[18] = f[19] /\ UdpTurned(f)[19] = f[18]
         /\ \A k \in 1..Len(f) :
              /\ k \in 1..3   => UdpTurned(f)[k] = f[k + 3]
              /\ k \in 4..6   => UdpTurned(f)[k] = f[k - 3]
              /\ k \in 14..15 => UdpTurned(f)[k] = f[k + 2]
              /\ k \in 16..17 => UdpTurned(f)[k] = f[k - 2]
              /\ k \in 7..13 \/ k > 19 => UdpTurned(f)[k] = f[k]
<1> DEFINE u == Turned(f)
           v == UdpTurned(f)
<1>0. Len(f) \in Nat /\ \A k \in 1..Len(f) : f[k] \in Word
  BY DEF Frame
<1>1. /\ u \in Frame /\ Len(u) = Len(f)
      /\ \A k \in 1..Len(f) :
           /\ k \in 1..3   => u[k] = f[k + 3]
           /\ k \in 4..6   => u[k] = f[k - 3]
           /\ k \in 14..15 => u[k] = f[k + 2]
           /\ k \in 16..17 => u[k] = f[k - 2]
           /\ k \in 7..13 \/ k > 17 => u[k] = f[k]
  BY <1>0, TurnedWords
<1>2. v \in Frame /\ Len(v) = Len(f)
  BY <1>0, <1>1 DEF UdpTurned, Frame
<1>3. /\ v[18] = f[19] /\ v[19] = f[18]
      /\ \A k \in 1..Len(f) : k # 18 /\ k # 19 => v[k] = u[k]
  BY <1>0, <1>1 DEF UdpTurned, Frame
<1> HIDE DEF u, v
<1>4. \A k \in 1..Len(f) :
         /\ k \in 1..3   => v[k] = f[k + 3]
         /\ k \in 4..6   => v[k] = f[k - 3]
         /\ k \in 14..15 => v[k] = f[k + 2]
         /\ k \in 16..17 => v[k] = f[k - 2]
         /\ k \in 7..13 \/ k > 19 => v[k] = f[k]
  <2> SUFFICES ASSUME NEW k \in 1..Len(f)
               PROVE  /\ k \in 1..3   => v[k] = f[k + 3]
                      /\ k \in 4..6   => v[k] = f[k - 3]
                      /\ k \in 14..15 => v[k] = f[k + 2]
                      /\ k \in 16..17 => v[k] = f[k - 2]
                      /\ k \in 7..13 \/ k > 19 => v[k] = f[k]
    BY Zenon
  <2>1. /\ k \in 1..3 \/ k \in 4..6 \/ k \in 14..15 \/ k \in 16..17 \/ k \in 7..13 \/ k > 19
             => k # 18 /\ k # 19
        /\ k > 19 => k > 17
    BY <1>0
  <2> QED
    BY <1>1, <1>3, <2>1, ZenonT(60)
<1> QED
  BY <1>2, <1>3, <1>4, Zenon DEF v

\* Exchanging frames that agree but for the two checksums gives such frames.
LEMMA UdpTurnedSame ==
  ASSUME NEW f \in Frame, NEW g \in Frame, Len(f) >= 21, SameBut(f, g, {13, 21})
  PROVE  SameBut(UdpTurned(f), UdpTurned(g), {13, 21})
<1>0. /\ Len(f) \in Nat /\ Len(g) = Len(f)
      /\ \A k \in 1..Len(f) : k # 13 /\ k # 21 => f[k] = g[k]
  BY DEF Frame, SameBut
<1> DEFINE v == UdpTurned(f)
           w == UdpTurned(g)
<1>1. /\ Len(v) = Len(f)
      /\ v[18] = f[19] /\ v[19] = f[18]
      /\ \A k \in 1..Len(f) :
           /\ k \in 1..3   => v[k] = f[k + 3]
           /\ k \in 4..6   => v[k] = f[k - 3]
           /\ k \in 14..15 => v[k] = f[k + 2]
           /\ k \in 16..17 => v[k] = f[k - 2]
           /\ k \in 7..13 \/ k > 19 => v[k] = f[k]
  BY UdpTurnedWords, Zenon
<1>2. /\ Len(w) = Len(f)
      /\ w[18] = g[19] /\ w[19] = g[18]
      /\ \A k \in 1..Len(f) :
           /\ k \in 1..3   => w[k] = g[k + 3]
           /\ k \in 4..6   => w[k] = g[k - 3]
           /\ k \in 14..15 => w[k] = g[k + 2]
           /\ k \in 16..17 => w[k] = g[k - 2]
           /\ k \in 7..13 \/ k > 19 => w[k] = g[k]
  <2>1. Len(g) >= 21
    BY <1>0, Zenon
  <2> QED
    BY <1>0, <2>1, UdpTurnedWords
<1> HIDE DEF v, w
<1>3. \A k \in 1..Len(f) : k # 13 /\ k # 21 => v[k] = w[k]
  <2> SUFFICES ASSUME NEW k \in 1..Len(f), k # 13, k # 21
               PROVE  v[k] = w[k]
    BY Zenon
  <2>1. CASE k \in 1..3
    <3>1. k + 3 \in 1..Len(f) /\ k + 3 # 13 /\ k + 3 # 21
      BY <1>0, <2>1
    <3>2. v[k] = f[k + 3] /\ w[k] = g[k + 3]
      BY <1>1, <1>2, <2>1, Zenon
    <3> QED
      BY <1>0, <3>1, <3>2, Zenon
  <2>2. CASE k \in 4..6
    <3>1. k - 3 \in 1..Len(f) /\ k - 3 # 13 /\ k - 3 # 21
      BY <1>0, <2>2
    <3>2. v[k] = f[k - 3] /\ w[k] = g[k - 3]
      BY <1>1, <1>2, <2>2, Zenon
    <3> QED
      BY <1>0, <3>1, <3>2, Zenon
  <2>3. CASE k \in 14..15
    <3>1. k + 2 \in 1..Len(f) /\ k + 2 # 13 /\ k + 2 # 21
      BY <1>0, <2>3
    <3>2. v[k] = f[k + 2] /\ w[k] = g[k + 2]
      BY <1>1, <1>2, <2>3, Zenon
    <3> QED
      BY <1>0, <3>1, <3>2, Zenon
  <2>4. CASE k \in 16..17
    <3>1. k - 2 \in 1..Len(f) /\ k - 2 # 13 /\ k - 2 # 21
      BY <1>0, <2>4
    <3>2. v[k] = f[k - 2] /\ w[k] = g[k - 2]
      BY <1>1, <1>2, <2>4, Zenon
    <3> QED
      BY <1>0, <3>1, <3>2, Zenon
  <2>5. CASE k = 18 \/ k = 19
    <3>1. f[18] = g[18] /\ f[19] = g[19]
      BY <1>0
    <3> QED
      BY <1>1, <1>2, <2>5, <3>1, ZenonT(60)
  <2>6. CASE k \in 7..13 \/ k > 19
    BY <1>0, <1>1, <1>2, <2>6, ZenonT(60)
  <2> QED
    BY <1>0, <2>1, <2>2, <2>3, <2>4, <2>5, <2>6
<1> QED
  BY <1>1, <1>2, <1>3, Zenon DEF SameBut, v, w

\* Exchanging twice gives the frame back.
LEMMA UdpTurnedTwice ==
  ASSUME NEW f \in Frame, Len(f) >= 21
  PROVE  SameBut(UdpTurned(UdpTurned(f)), f, {13, 21})
<1> DEFINE v == UdpTurned(f)
           w == UdpTurned(v)
<1>0. Len(f) \in Nat
  BY DEF Frame
<1>1. /\ Len(v) = Len(f) /\ v \in Frame
      /\ v[18] = f[19] /\ v[19] = f[18]
      /\ \A k \in 1..Len(f) :
           /\ k \in 1..3   => v[k] = f[k + 3]
           /\ k \in 4..6   => v[k] = f[k - 3]
           /\ k \in 14..15 => v[k] = f[k + 2]
           /\ k \in 16..17 => v[k] = f[k - 2]
           /\ k \in 7..13 \/ k > 19 => v[k] = f[k]
  BY UdpTurnedWords, Zenon
<1> HIDE DEF v
<1>2. /\ Len(w) = Len(f)
      /\ w[18] = v[19] /\ w[19] = v[18]
      /\ \A k \in 1..Len(f) :
           /\ k \in 1..3   => w[k] = v[k + 3]
           /\ k \in 4..6   => w[k] = v[k - 3]
           /\ k \in 14..15 => w[k] = v[k + 2]
           /\ k \in 16..17 => w[k] = v[k - 2]
           /\ k \in 7..13 \/ k > 19 => w[k] = v[k]
  <2>1. Len(v) >= 21
    BY <1>1, Zenon
  <2> QED
    BY <1>1, <2>1, UdpTurnedWords
<1> HIDE DEF w
<1>3. \A k \in 1..Len(f) : w[k] = f[k]
  <2> SUFFICES ASSUME NEW k \in 1..Len(f)
               PROVE  w[k] = f[k]
    BY Zenon
  <2>1. CASE k \in 1..3
    <3>1. k + 3 \in 1..Len(f) /\ k + 3 \in 4..6 /\ (k + 3) - 3 = k
      BY <1>0, <2>1
    <3>2. w[k] = v[k + 3]
      BY <1>2, <2>1, Zenon
    <3>3. v[k + 3] = f[(k + 3) - 3]
      BY <1>1, <3>1, Zenon
    <3> QED
      BY <3>1, <3>2, <3>3, Zenon
  <2>2. CASE k \in 4..6
    <3>1. k - 3 \in 1..Len(f) /\ k - 3 \in 1..3 /\ (k - 3) + 3 = k
      BY <1>0, <2>2
    <3>2. w[k] = v[k - 3]
      BY <1>2, <2>2, Zenon
    <3>3. v[k - 3] = f[(k - 3) + 3]
      BY <1>1, <3>1, Zenon
    <3> QED
      BY <3>1, <3>2, <3>3, Zenon
  <2>3. CASE k \in 14..15
    <3>1. k + 2 \in 1..Len(f) /\ k + 2 \in 16..17 /\ (k + 2) - 2 = k
      BY <1>0, <2>3
    <3>2. w[k] = v[k + 2]
      BY <1>2, <2>3, Zenon
    <3>3. v[k + 2] = f[(k + 2) - 2]
      BY <1>1, <3>1, Zenon
    <3> QED
      BY <3>1, <3>2, <3>3, Zenon
  <2>4. CASE k \in 16..17
    <3>1. k - 2 \in 1..Len(f) /\ k - 2 \in 14..15 /\ (k - 2) + 2 = k
      BY <1>0, <2>4
    <3>2. w[k] = v[k - 2]
      BY <1>2, <2>4, Zenon
    <3>3. v[k - 2] = f[(k - 2) + 2]
      BY <1>1, <3>1, Zenon
    <3> QED
      BY <3>1, <3>2, <3>3, Zenon
  <2>5. CASE k = 18 \/ k = 19
    BY <1>1, <1>2, <2>5, Zenon
  <2>6. CASE k \in 7..13 \/ k > 19
    BY <1>1, <1>2, <2>6, Zenon
  <2>7. \/ k \in 1..3 \/ k \in 4..6 \/ k \in 14..15 \/ k \in 16..17
        \/ k = 18 \/ k = 19 \/ k \in 7..13 \/ k > 19
    BY <1>0
  <2> QED
    BY <2>1, <2>2, <2>3, <2>4, <2>5, <2>6, <2>7, Zenon
<1> QED
  BY <1>2, <1>3, Zenon DEF SameBut, w, v

\* What a packet is, by how often it was reflected: what was sent; the answer
\* of xdp_icmp_echo to it; or what xdp_udp_echo makes of it, turned around
\* after an odd number of reflections.
Reflected(p) ==
    \/ p.tx = 0 /\ p.frame = p.orig
    \/ p.tx = 1 /\ IcmpReflects(p.orig) /\ p.frame = xdp_icmp_echo(p.orig).frame
    \/ /\ p.tx > 0 /\ Len(p.orig) >= 21 /\ protocol(p.orig) = IPPROTO_UDP
       /\ SameBut(p.frame, IF p.tx % 2 = 0 THEN p.orig ELSE UdpTurned(p.orig), {13, 21})
       /\ p.frame[13] = 0 /\ p.frame[21] = 0

\* A packet that xdp_udp_echo has reflected is still one of its packets.
LEMMA UdpKeepsProtocol ==
  ASSUME NEW o \in Frame, NEW f \in Frame, Len(o) >= 21,
         SameBut(f, o, {13, 21}) \/ SameBut(f, UdpTurned(o), {13, 21})
  PROVE  protocol(f) = protocol(o)
<1>1. Len(o) \in Nat /\ 12 \in 1..Len(o)
  BY DEF Frame
<1>2. UdpTurned(o)[12] = o[12] /\ Len(UdpTurned(o)) = Len(o)
  BY <1>1, UdpTurnedWords
<1>3. f[12] = o[12]
  BY <1>1, <1>2 DEF SameBut
<1> QED
  BY <1>3 DEF protocol, W, ETH_HLEN

\* Agreeing outside some words is transitive.
LEMMA SameButTrans ==
  ASSUME NEW f, NEW g, NEW h, NEW ix, SameBut(f, g, ix), SameBut(g, h, ix)
  PROVE  SameBut(f, h, ix)
BY Zenon DEF SameBut

\* xdp_udp_echo on a packet it has reflected turns it around once more.
LEMMA UdpReflectsAgain ==
  ASSUME NEW o \in Frame, NEW f \in Frame, Len(o) >= 21, NEW n \in Nat,
         xdp_udp_echo(f).act = "XDP_TX",
         SameBut(f, IF n % 2 = 0 THEN o ELSE UdpTurned(o), {13, 21})
  PROVE  LET r == xdp_udp_echo(f).frame IN
         /\ SameBut(r, IF (n + 1) % 2 = 0 THEN o ELSE UdpTurned(o), {13, 21})
         /\ r[13] = 0 /\ r[21] = 0
<1> DEFINE r == xdp_udp_echo(f).frame
<1>1. /\ Len(f) >= 21 /\ Len(r) = Len(f)
      /\ r[13] = 0 /\ r[21] = 0
      /\ \A k \in 1..Len(f) : k # 13 /\ k # 21 => r[k] = UdpTurned(f)[k]
  BY UdpAnswerWords, Zenon
<1>2. /\ UdpTurned(f) \in Frame /\ Len(UdpTurned(f)) = Len(f)
      /\ UdpTurned(o) \in Frame
  BY <1>1, UdpTurnedWords, Zenon
<1>3. SameBut(r, UdpTurned(f), {13, 21})
  BY <1>1, <1>2, Zenon DEF SameBut
<1> HIDE DEF r
<1>4. CASE n % 2 = 0
  <2>1. (n + 1) % 2 # 0
    BY <1>4
  <2>2. SameBut(UdpTurned(f), UdpTurned(o), {13, 21})
    BY <1>1, <1>4, UdpTurnedSame, Zenon
  <2>3. SameBut(r, UdpTurned(o), {13, 21})
    BY <1>3, <2>2, SameButTrans, Zenon
  <2> QED
    BY <1>1, <2>1, <2>3, Zenon DEF r
<1>5. CASE n % 2 # 0
  <2>1. (n + 1) % 2 = 0
    BY <1>5
  <2>2. SameBut(UdpTurned(f), UdpTurned(UdpTurned(o)), {13, 21})
    BY <1>1, <1>2, <1>5, UdpTurnedSame, Zenon
  <2>3. SameBut(UdpTurned(UdpTurned(o)), o, {13, 21})
    BY UdpTurnedTwice, Zenon
  <2>4. SameBut(r, o, {13, 21})
    BY <1>3, <2>2, <2>3, SameButTrans
  <2> QED
    BY <1>1, <2>1, <2>4, Zenon DEF r
<1> QED
  BY <1>4, <1>5

\* Whatever program reflects a packet, it is again what Reflected says.
LEMMA ReflectedAgain ==
  ASSUME NEW g, NEW h, NEW p \in Packet, Reflected(p), Run(g, p.frame).act = "XDP_TX"
  PROVE  Reflected([to |-> h, frame |-> Run(g, p.frame).frame,
                    orig |-> p.orig, tx |-> p.tx + 1])
<1> DEFINE f == p.frame
           q == [to |-> h, frame |-> Run(g, f).frame, orig |-> p.orig, tx |-> p.tx + 1]
<1>0. /\ f \in Frame /\ p.orig \in Frame /\ p.tx \in Nat
      /\ q.frame = Run(g, f).frame /\ q.orig = p.orig /\ q.tx = p.tx + 1
  BY Zenon DEF Packet
<1> HIDE DEF q
<1>1. IPPROTO_ICMP # IPPROTO_UDP
  BY DEF IPPROTO_ICMP, IPPROTO_UDP
<1>2. CASE g = "xdp_icmp_echo"
  <2>1. Run(g, f) = xdp_icmp_echo(f)
    BY <1>2, Zenon DEF Run
  <2>2. IcmpReflects(f)
    BY <2>1 DEF xdp_icmp_echo, Verdict
  <2>3. protocol(f) = IPPROTO_ICMP
    BY <2>2 DEF IcmpReflects
  <2>4. p.tx = 0 /\ f = p.orig
    <3>1. CASE IcmpReflects(p.orig) /\ f = xdp_icmp_echo(p.orig).frame
      BY <1>0, <2>2, <3>1, IcmpAnswerNotAnswered, Zenon
    <3>2. CASE /\ Len(p.orig) >= 21 /\ protocol(p.orig) = IPPROTO_UDP
               /\ SameBut(f, IF p.tx % 2 = 0 THEN p.orig ELSE UdpTurned(p.orig), {13, 21})
      <4>1. protocol(f) = protocol(p.orig)
        BY <1>0, <3>2, UdpKeepsProtocol, Zenon
      <4> QED
        BY <1>1, <2>3, <3>2, <4>1, Zenon
    <3> QED
      BY <3>1, <3>2, Zenon DEF Reflected
  <2>5. q.tx = 1 /\ IcmpReflects(q.orig) /\ q.frame = xdp_icmp_echo(q.orig).frame
    BY <1>0, <2>1, <2>2, <2>4
  <2> QED
    BY <2>5, Zenon DEF Reflected, q
<1>3. CASE g = "xdp_udp_echo"
  <2>1. Run(g, f) = xdp_udp_echo(f)
    BY <1>3, Zenon DEF Run
  <2>2. xdp_udp_echo(f).act = "XDP_TX" /\ protocol(f) = IPPROTO_UDP /\ Len(f) >= 21
    BY <1>0, <2>1, UdpReflectionFacts, UdpAnswerWords
  <2>3. /\ Len(p.orig) >= 21 /\ protocol(p.orig) = IPPROTO_UDP
        /\ SameBut(f, IF p.tx % 2 = 0 THEN p.orig ELSE UdpTurned(p.orig), {13, 21})
    <3>1. CASE p.tx = 0 /\ f = p.orig
      <4>1. p.tx % 2 = 0
        BY <3>1
      <4>2. SameBut(f, p.orig, {13, 21})
        BY <3>1, Zenon DEF SameBut
      <4> QED
        BY <2>2, <3>1, <4>1, <4>2, Zenon
    <3>2. CASE IcmpReflects(p.orig) /\ f = xdp_icmp_echo(p.orig).frame
      BY <1>0, <1>1, <2>2, <3>2, IcmpAnswerNotAnswered, Zenon
    <3> QED
      BY <3>1, <3>2, Zenon DEF Reflected
  <2>4. /\ SameBut(q.frame, IF (p.tx + 1) % 2 = 0 THEN p.orig ELSE UdpTurned(p.orig), {13, 21})
        /\ q.frame[13] = 0 /\ q.frame[21] = 0
    BY SMTT(40), <1>0, <2>1, <2>2, <2>3, UdpReflectsAgain
  <2>5. q.tx > 0
    BY <1>0
  <2>6. Reflected(q)
    BY <1>0, <2>3, <2>4, <2>5, Zenon DEF Reflected
  <2> QED
    BY <2>6, Zenon DEF q
<1>4. CASE g # "xdp_icmp_echo" /\ g # "xdp_udp_echo"
  BY <1>4, Zenon DEF Run, Verdict
<1> QED
  BY <1>2, <1>3, <1>4, Zenon

\* A frame that a program lets through is left as it is.
LEMMA PassKeepsFrame ==
  ASSUME NEW g, NEW f, Run(g, f).act = "XDP_PASS"
  PROVE  Run(g, f).frame = f
BY Zenon DEF Run, xdp_icmp_echo, xdp_udp_echo, Verdict

\* Packets on the wire and in the stacks are what Reflected says.
ReflectedInv == \A p \in Packets : Reflected(p)

\* A packet is at all times what its reflections make of the frame as sent.
LEMMA LinkReflected == Spec => []ReflectedInv
<1>1. Init => ReflectedInv
  BY Zenon DEF Init, ReflectedInv, Packets
<1>2. TypeOK /\ ReflectedInv /\ [Next]_vars => ReflectedInv'
  <2> SUFFICES ASSUME TypeOK, ReflectedInv, [Next]_vars PROVE ReflectedInv'
    BY Zenon
  <2>0. /\ \A p \in wire : p \in Packet /\ Reflected(p)
        /\ \A p \in stack : Reflected(p)
    BY Zenon DEF TypeOK, ReflectedInv, Packets
  <2>1. CASE wire' = wire /\ stack' = stack
    BY <2>0, <2>1, Zenon DEF ReflectedInv, Packets
  <2>2. ASSUME NEW f \in Inputs, Send(f)
        PROVE  ReflectedInv'
    <3> DEFINE q == [to |-> "srv", frame |-> f, orig |-> f, tx |-> 0]
    <3>1. Reflected(q)
      BY Zenon DEF Reflected
    <3>2. wire' = wire \cup {q} /\ stack' = stack
      BY <2>2, Zenon DEF Send
    <3> HIDE DEF q
    <3> QED
      BY <2>0, <3>1, <3>2, Zenon DEF ReflectedInv, Packets
  <2>3. ASSUME NEW p \in wire, Receive(p)
        PROVE  ReflectedInv'
    <3> DEFINE v == Run(prog[p.to], p.frame)
               q == [to |-> Peer(p.to), frame |-> v.frame, orig |-> p.orig,
                     tx |-> p.tx + 1]
    <3>1. CASE ReceiveTx(p)
      <4>1. v.act = "XDP_TX" /\ wire' = (wire \ {p}) \cup {q} /\ stack' = stack
        BY <3>1, Zenon DEF ReceiveTx
      <4>2. Reflected(q)
        BY <2>0, <4>1, ReflectedAgain, Zenon
      <4> HIDE DEF q, v
      <4> QED
        BY <2>0, <4>1, <4>2, Zenon DEF ReflectedInv, Packets
    <3>2. CASE ReceivePass(p)
      <4> DEFINE d == [p EXCEPT !.frame = v.frame]
      <4>1. v.act = "XDP_PASS" /\ wire' = wire \ {p} /\ stack' = stack \cup {d}
        BY <3>2, Zenon DEF ReceivePass
      <4>2. v.frame = p.frame
        BY <4>1, PassKeepsFrame, Zenon
      <4>3. d = p
        BY <2>0, <4>2, Zenon DEF Packet
      <4> HIDE DEF d, v
      <4> QED
        BY <2>0, <4>1, <4>3, Zenon DEF ReflectedInv, Packets
    <3>3. CASE ReceiveAborted(p)
      BY <2>0, <3>3, Zenon DEF ReceiveAborted, ReflectedInv, Packets
    <3> QED
      BY <2>3, <3>1, <3>2, <3>3, Zenon DEF Receive
  <2> QED
    BY <2>1, <2>2, <2>3 DEF Next, Receive, Attach, ClearSrv, ClearCli, vars
<1> QED
  BY <1>1, <1>2, LinkTypeOK, PTL DEF Spec

\* A UDP packet without IP options has its addresses and ports as sent after an even
\* number of reflections, exchanged after an odd number, and nothing else changed but
\* two checksums, which are zero.
THEOREM LinkUdpTurnsByParity == Spec => []UdpTurnsByParity
<1>1. TypeOK /\ ReflectedInv => UdpTurnsByParity
  <2> SUFFICES ASSUME TypeOK, ReflectedInv, NEW p \in Packets,
                      p.tx > 0, Lo(p.orig[12]) = IPPROTO_UDP
               PROVE  LET o == p.orig
                          turned == [Turned(o) EXCEPT ![18] = o[19], ![19] = o[18]]
                      IN  /\ SameBut(p.frame, IF p.tx % 2 = 0 THEN o ELSE turned, {13, 21})
                          /\ p.frame[13] = 0 /\ p.frame[21] = 0
    BY Zenon DEF UdpTurnsByParity, IsPlainUdp
  <2>1. Reflected(p)
    BY Zenon DEF ReflectedInv
  <2>2. ~ IcmpReflects(p.orig)
    BY DEF IcmpReflects, protocol, W, ETH_HLEN, IPPROTO_ICMP, IPPROTO_UDP
  <2>3. p.tx # 0
    OBVIOUS
  <2> QED
    BY <2>1, <2>2, <2>3, Zenon DEF Reflected, UdpTurned
<1> QED
  BY <1>1, LinkTypeOK, LinkReflected, PTL

\* The header length of a well-formed IPv4 header is 5 words or more.
LEMMA WellFormedIhl ==
  ASSUME NEW f \in Frame, WellFormedIp(f)
  PROVE  ihl(f) \in Nat /\ ihl(f) >= 5
<1>1. Hi(f[8]) \in 69..79 /\ ihl(f) = Hi(f[8]) % 16
  BY DEF WellFormedIp, ihl, W, ETH_HLEN
<1>2. \A x \in 69..79 : x % 16 \in Nat /\ x % 16 >= 5
  OBVIOUS
<1> QED
  BY <1>1, <1>2

\* The answer of xdp_icmp_echo, word by word, when the ICMP header follows the
\* IP addresses.
LEMMA IcmpAnswerWords ==
  ASSUME NEW f \in Frame, IcmpReflects(f), ihl(f) \in Nat, ihl(f) >= 5
  PROVE  LET r == xdp_icmp_echo(f).frame
             t == W(IcmpOffset(f))
         IN  SameBut(r, Turned(f), {13, t, t + 1}) /\ r[t] = Lo(f[t])
<1> DEFINE a == TurnedAround(f)
           o == IcmpOffset(f)
           t == W(o)
           r == EchoReply(a, o)
<1>0. xdp_icmp_echo(f).frame = r
  BY Zenon DEF xdp_icmp_echo, Verdict, TurnedAround
<1>1. /\ o \in Nat /\ t \in Nat /\ W(o + 2) = t + 1 /\ t >= 18
      /\ t + 1 <= Len(f) /\ Len(f) >= 21 /\ Len(f) \in Nat
  <2>1. /\ o \in Nat /\ W(o) = 8 + 2 * ihl(f) /\ W(o + 2) = 8 + 2 * ihl(f) + 1
        /\ 8 + 2 * ihl(f) + 1 <= Len(f) /\ Len(f) >= 21 /\ Len(f) \in Nat
    BY IcmpIndex, Zenon
  <2> DEFINE n == ihl(f)
  <2>2. n \in Nat /\ n >= 5 => 8 + 2 * n \in Nat /\ 8 + 2 * n >= 18
    BY SMT, Zenon
  <2> QED
    BY <2>1, <2>2, Zenon
<1> HIDE DEF t
<1>2. /\ a \in Frame /\ Len(a) = Len(f)
      /\ \A k \in 1..Len(f) : k # 13 => a[k] = Turned(f)[k]
      /\ a[t] = f[t]
  <2>1. /\ TurnedAround(f) \in Frame /\ Len(TurnedAround(f)) = Len(f)
        /\ \A k \in 1..Len(f) : k \in 7..12 \/ k > 17 => TurnedAround(f)[k] = f[k]
    BY <1>1, TurnedAroundFacts
  <2>2. \A k \in 1..Len(f) : k # 13 => TurnedAround(f)[k] = Turned(f)[k]
    BY <1>1, TurnedAroundIsTurned
  <2>3. t \in 1..Len(f) /\ t > 17
    BY <1>1
  <2> QED
    BY <2>1, <2>2, <2>3, Zenon
<1> HIDE DEF a, o
<1>3. /\ r \in Frame /\ Len(r) = Len(f)
      /\ r[t] = Mk(0, Lo(a[t]))
      /\ \A k \in 1..Len(f) : k # t /\ k # t + 1 => r[k] = a[k]
  <2>1. t >= 8 /\ t + 1 <= Len(a)
    BY <1>1, <1>2
  <2>2. W(o) = t
    BY Zenon DEF t
  <2>3. /\ r \in Frame /\ Len(r) = Len(a)
        /\ r[t] = Mk(0, Lo(a[t]))
        /\ \A k \in 1..Len(a) : k # t /\ k # t + 1 => r[k] = a[k]
    BY SMTT(40), <1>1, <1>2, <2>1, <2>2, EchoReplyFacts
  <2> HIDE DEF r
  <2> QED
    BY <1>2, <2>3, Zenon
<1> HIDE DEF r, t
<1>4. r[t] = Lo(f[t])
  <2>1. f[t] \in Word
    BY <1>1 DEF Frame
  <2>2. Lo(f[t]) \in Int
    BY <2>1, WordBytes, WordBounds, Zenon
  <2> QED
    BY <1>2, <1>3, <2>2 DEF Mk
<1>5. SameBut(r, Turned(f), {13, t, t + 1})
  <2>1. Len(Turned(f)) = Len(f)
    BY <1>1, TurnedWords
  <2> QED
    BY <1>2, <1>3, <2>1, Zenon DEF SameBut
<1> QED
  BY <1>0, <1>4, <1>5, Zenon DEF t, o

\* A well-formed ICMP packet was reflected only if it was an echo request, and
\* what comes back is its answer but for the checksums.
THEOREM LinkReflectsEchoRequests == Spec => []ReflectsEchoRequests
<1>1. TypeOK /\ ReflectedInv => ReflectsEchoRequests
  <2> SUFFICES ASSUME TypeOK, ReflectedInv, NEW p \in Packets
               PROVE  IF p.tx = 0 THEN p.frame = p.orig
                      ELSE (WellFormedIp(p.orig) /\ Lo(p.orig[12]) = IPPROTO_ICMP) =>
                             LET t == W(IcmpOffset(p.orig)) IN
                             /\ IsEchoRequest(p.orig)
                             /\ SameBut(p.frame, Turned(p.orig), {13, t, t + 1})
                             /\ p.frame[t] = Lo(p.orig[t])
    BY Zenon DEF ReflectsEchoRequests
  <2>1. Reflected(p) /\ p \in Packet
    BY Zenon DEF ReflectedInv, TypeOK, Packets
  <2>2. CASE p.tx = 0
    BY <2>1, <2>2 DEF Reflected
  <2>3. CASE p.tx # 0 /\ WellFormedIp(p.orig) /\ Lo(p.orig[12]) = IPPROTO_ICMP
    <3>0. p.orig \in Frame
      BY <2>1, Zenon DEF Packet
    <3>1. protocol(p.orig) # IPPROTO_UDP
      BY <2>3 DEF protocol, W, ETH_HLEN, IPPROTO_ICMP, IPPROTO_UDP
    <3>2. IcmpReflects(p.orig) /\ p.frame = xdp_icmp_echo(p.orig).frame
      BY <2>1, <2>3, <3>1, Zenon DEF Reflected
    <3>3. IsEchoRequest(p.orig)
      BY <2>3, <3>0, <3>2, Zenon DEF IcmpReflects, IsEchoRequest, ICMP_HLEN, data_end, Frame
    <3> QED
      BY <2>3, <3>0, <3>2, <3>3, IcmpAnswerWords, WellFormedIhl, Zenon
  <2> QED
    BY <2>2, <2>3, Zenon
<1> QED
  BY <1>1, LinkTypeOK, LinkReflected, PTL

\* Where xdp_icmp_echo is attached no well-formed echo request reaches the
\* stack.
THEOREM LinkRequestsAreBypassed == Spec => RequestsAreBypassed
<1> DEFINE Bypass == \A p \in stack' \ stack :
                       (prog[p.to] = "xdp_icmp_echo" /\ WellFormedIp(p.frame))
                          => ~ IsEchoRequest(p.frame)
<1>1. ASSUME NEW f \in Frame, WellFormedIp(f), IsEchoRequest(f)
      PROVE  IcmpReflects(f)
  <2>1. ihl(f) \in Nat /\ ihl(f) >= 5
    BY <1>1, WellFormedIhl
  <2>2. h_proto(f) = bpf_htons(ETH_P_IP) /\ protocol(f) = IPPROTO_ICMP
    BY <1>1 DEF WellFormedIp, IsEchoRequest, h_proto, protocol, W, ETH_HLEN
  <2>3. /\ Len(f) \in Nat /\ data_end(f) >= IcmpOffset(f) + 8
        /\ Hi(f[W(IcmpOffset(f))]) = ICMP_ECHO
    BY <1>1 DEF IsEchoRequest, Frame
  <2>4. /\ ETH_HLEN + IP_HLEN + ICMP_HLEN <= data_end(f)
        /\ IcmpOffset(f) + ICMP_HLEN <= data_end(f)
    <3>1. 2 * Len(f) >= 14 + 4 * ihl(f) + 8
      BY <2>3, Zenon DEF IcmpOffset, data_end, ETH_HLEN
    <3>2. 42 <= 2 * Len(f)
      BY <2>1, <2>3, <3>1
    <3> QED
      BY <2>1, <2>3, <3>1, <3>2 DEF IcmpOffset, data_end, ETH_HLEN, IP_HLEN, ICMP_HLEN
  <2> QED
    BY <2>2, <2>3, <2>4, Zenon DEF IcmpReflects
<1>2. TypeOK /\ [Next]_vars => Bypass
  <2> SUFFICES ASSUME TypeOK, [Next]_vars, NEW d \in stack' \ stack,
                      prog[d.to] = "xdp_icmp_echo", WellFormedIp(d.frame),
                      IsEchoRequest(d.frame)
               PROVE  FALSE
    BY Zenon
  <2>1. PICK p \in wire : ReceivePass(p)
    BY Zenon DEF Next, Attach, ClearSrv, ClearCli, Send, ReceiveTx, ReceiveAborted, vars
  <2>2. p \in Packet
    BY Zenon DEF TypeOK
  <2>3. /\ Run(prog[p.to], p.frame).act = "XDP_PASS"
        /\ d = [p EXCEPT !.frame = Run(prog[p.to], p.frame).frame]
    BY <2>1, Zenon DEF ReceivePass
  <2>4. d = p
    <3>1. Run(prog[p.to], p.frame).frame = p.frame
      BY <2>3, PassKeepsFrame, Zenon
    <3> QED
      BY <2>2, <2>3, <3>1, Zenon DEF Packet
  <2>5. p.frame \in Frame
    BY <2>2, Zenon DEF Packet
  <2>6. IcmpReflects(p.frame)
    BY <1>1, <2>4, <2>5, Zenon
  <2> QED
    BY <2>3, <2>4, <2>6, Zenon DEF Run, xdp_icmp_echo, Verdict
<1> QED
  BY <1>2, LinkTypeOK, PTL DEF Spec, RequestsAreBypassed
=============================================================================
