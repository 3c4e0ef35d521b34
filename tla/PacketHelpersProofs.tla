------------------------ MODULE PacketHelpersProofs -------------------------
(***************************************************************************)
(* For any packets, tag arguments, headroom and VLAN_MAX_DEPTH, and any    *)
(* chain of calls of the helpers of parsing_helpers.h and                  *)
(* rewrite_helpers.h: the cursor stays within the packet, parse_ethhdr     *)
(* skips the VLAN tags, and the rewrites can be undone.                    *)
(***************************************************************************)
EXTENDS PacketHelpers, SequenceTheorems, WellFoundedInduction, TLAPS

\* Induction up to m, with a set in the place of the predicate: what holds of 0 and
\* passes from each n below m to n + 1 holds of all numbers up to m.
LEMMA UpTo ==
  ASSUME NEW m \in Nat, NEW S, 0 \in S,
         \A n \in 0..(m - 1) : n \in S => n + 1 \in S
  PROVE  \A n \in 0..m : n \in S
<1> DEFINE R == OpToRel(<, Nat)
           T == {n \in 0..m : n \notin S}
<1> SUFFICES ASSUME T # {} PROVE FALSE
  BY Zenon
<1>1. IsWellFoundedOn(R, Nat)
  BY NatLessThanWellFounded, Zenon
<1>2. T \subseteq Nat
  OBVIOUS
<1> HIDE DEF R
<1>3. PICK x \in T : \A y \in T : ~(<<y, x>> \in R)
  <2> HIDE DEF T
  <2> QED
    BY ZenonT(60), <1>1, <1>2, WFMin
<1>4. x \in 1..m /\ x - 1 \in 0..(m - 1) /\ (x - 1) + 1 = x
  BY <1>3
<1>5. x - 1 \in S
  <2> SUFFICES ASSUME x - 1 \notin S PROVE FALSE
    BY Zenon
  <2>1. x - 1 \in 0..m /\ x - 1 \in Nat /\ x \in Nat /\ x - 1 < x
    BY <1>4
  <2>2. x - 1 \in T
    BY <2>1, Zenon
  <2>3. <<x - 1, x>> \in R
    BY <2>1, Zenon DEF R, OpToRel
  <2> QED
    BY <1>3, <2>2, <2>3, Zenon
<1>6. x \in S
  BY <1>4, <1>5, Zenon
<1> QED
  BY <1>3, <1>6, Zenon

\* One round of the unrolled loop of parse_ethhdr_vlan.
WalkStep(f, w) ==
    IF VlanFollows(f, w)
    THEN [pos |-> w.pos + VLAN_HLEN,
          proto |-> bpf_htons(f[W(w.pos + 2)]),
          id |-> Append(w.id, f[W(w.pos)] % 4096)]
    ELSE w

\* g is the history of n rounds.
IsWalk(f, start, g, n) ==
    g = [k \in 0..n |-> IF k = 0 THEN start ELSE WalkStep(f, g[k - 1])]

\* The recursion that VlanWalk is defined by has a solution.
LEMMA WalkExists ==
  ASSUME NEW f, NEW start, NEW m \in Nat
  PROVE  \E g : IsWalk(f, start, g, m)
<1> DEFINE S == {n \in 0..m : \E g : IsWalk(f, start, g, n)}
<1>1. 0 \in S
  <2> DEFINE g0 == [k \in 0..0 |-> start]
  <2>1. \A k \in 0..0 : k = 0
    OBVIOUS
  <2>2. g0 = [k \in 0..0 |-> IF k = 0 THEN start ELSE WalkStep(f, g0[k - 1])]
    BY <2>1, Zenon
  <2>3. 0 \in 0..m
    OBVIOUS
  <2> QED
    BY <2>2, <2>3, Zenon DEF IsWalk
<1>2. ASSUME NEW n \in 0..(m - 1), n \in S
      PROVE  n + 1 \in S
  <2>1. PICK g : IsWalk(f, start, g, n)
    BY <1>2, Zenon
  <2> DEFINE h == [k \in 0..(n + 1) |-> IF k = n + 1 THEN WalkStep(f, g[n]) ELSE g[k]]
  <2>2. \A k \in 0..n : g[k] = IF k = 0 THEN start ELSE WalkStep(f, g[k - 1])
    BY <2>1, Zenon DEF IsWalk
  <2>3. ASSUME NEW k \in 0..(n + 1)
        PROVE  h[k] = IF k = 0 THEN start ELSE WalkStep(f, h[k - 1])
    <3>0. h[k] = IF k = n + 1 THEN WalkStep(f, g[n]) ELSE g[k]
      BY Zenon
    <3>1. CASE k = n + 1
      <4>1. n \in 0..(n + 1) /\ n # n + 1 /\ k # 0 /\ k - 1 = n
        BY <3>1
      <4>2. h[n] = g[n]
        BY <4>1, Zenon
      <4> QED
        BY <3>0, <3>1, <4>1, <4>2, Zenon
    <3>2. CASE k = 0
      <4>1. 0 # n + 1 /\ 0 \in 0..n
        BY DEF Nat
      <4> QED
        BY <2>2, <3>0, <3>2, <4>1, Zenon
    <3>3. CASE k \in 1..n
      <4>1. k # n + 1 /\ k # 0 /\ k \in 0..n /\ k - 1 \in 0..(n + 1) /\ k - 1 # n + 1
        BY <3>3
      <4>2. h[k - 1] = g[k - 1]
        BY <4>1, Zenon
      <4> QED
        BY <2>2, <3>0, <4>1, <4>2, Zenon
    <3>4. k = n + 1 \/ k = 0 \/ k \in 1..n
      OBVIOUS
    <3> QED
      BY <3>1, <3>2, <3>3, <3>4, Zenon
  <2>4. h = [k \in 0..(n + 1) |-> IF k = 0 THEN start ELSE WalkStep(f, h[k - 1])]
    BY <2>3, Zenon
  <2>5. n + 1 \in 0..m
    OBVIOUS
  <2> HIDE DEF h
  <2> QED
    BY <2>4, <2>5, Zenon DEF IsWalk
<1> HIDE DEF S
<1>3. \A n \in 0..m : n \in S
  BY <1>1, <1>2, UpTo
<1>4. m \in 0..m
  OBVIOUS
<1> QED
  BY <1>3, <1>4, Zenon DEF S

\* VlanWalk is what VLAN_MAX_DEPTH rounds of the loop leave.
LEMMA VlanWalkIs ==
  ASSUME NEW f, NEW start
  PROVE  \E g : /\ IsWalk(f, start, g, VLAN_MAX_DEPTH)
                /\ VlanWalk(f, start) = g[VLAN_MAX_DEPTH]
<1> DEFINE Walks(g) ==
             g = [k \in 0..VLAN_MAX_DEPTH |->
                    IF k = 0 THEN start
                    ELSE IF VlanFollows(f, g[k - 1])
                         THEN [pos |-> g[k - 1].pos + VLAN_HLEN,
                               proto |-> bpf_htons(f[W(g[k - 1].pos + 2)]),
                               id |-> Append(g[k - 1].id, f[W(g[k - 1].pos)] % 4096)]
                         ELSE g[k - 1]]
           walk == CHOOSE g : Walks(g)
<1>1. VlanWalk(f, start) = walk[VLAN_MAX_DEPTH]
  BY Zenon DEF VlanWalk
<1>2. \A g : IsWalk(f, start, g, VLAN_MAX_DEPTH) <=> Walks(g)
  BY Zenon DEF IsWalk, WalkStep
<1> HIDE DEF Walks
<1>3. \E g : IsWalk(f, start, g, VLAN_MAX_DEPTH)
  BY BoundsAssumption, WalkExists, Zenon
<1>4. Walks(walk)
  BY <1>2, <1>3, Zenon
<1> QED
  BY <1>1, <1>2, <1>4, Zenon
-----------------------------------------------------------------------------
\* A word is 16 bits wide.
LEMMA WordBounds ==
  \A w : w \in Word <=> w \in Int /\ 0 <= w /\ w <= U16_MAX
<1>1. U16_MAX \in Int
  BY DEF U16_MAX
<1> QED
  BY <1>1 DEF Word

\* The Ethernet types are words.
LEMMA WordTypes ==
  {ETH_P_8021Q, ETH_P_8021AD, ETH_P_IP, ETH_P_IPV6} \subseteq Word
<1>1. /\ ETH_P_8021Q \in Int /\ 0 <= ETH_P_8021Q /\ ETH_P_8021Q <= U16_MAX
      /\ ETH_P_8021AD \in Int /\ 0 <= ETH_P_8021AD /\ ETH_P_8021AD <= U16_MAX
      /\ ETH_P_IP \in Int /\ 0 <= ETH_P_IP /\ ETH_P_IP <= U16_MAX
      /\ ETH_P_IPV6 \in Int /\ 0 <= ETH_P_IPV6 /\ ETH_P_IPV6 <= U16_MAX
  BY DEF U16_MAX, ETH_P_8021Q, ETH_P_8021AD, ETH_P_IP, ETH_P_IPV6
<1> QED
  BY <1>1, WordBounds, Zenon

\* bpf_htons undoes itself.
LEMMA HtonsTwice ==
  ASSUME NEW x \in Word
  PROVE  bpf_htons(x) \in Word /\ bpf_htons(bpf_htons(x)) = x
<1> DEFINE q == x \div 256
           r == x % 256
           y == 256 * r + q
<1>0. x \in Int /\ 0 <= x /\ x <= U16_MAX
  BY WordBounds, Zenon
<1>1. /\ q \in Int /\ 0 <= q /\ q <= 255 /\ r \in Int /\ 0 <= r /\ r <= 255
      /\ x = 256 * q + r
  BY <1>0 DEF U16_MAX
<1> HIDE DEF q, r
<1>2. y \in Int /\ 0 <= y /\ y <= U16_MAX /\ y \div 256 = r /\ y % 256 = q
  BY <1>1 DEF U16_MAX
<1>3. bpf_htons(x) = y /\ bpf_htons(y) = 256 * (y % 256) + (y \div 256)
  BY Zenon DEF bpf_htons, Mk, Lo, Hi, q, r
<1> HIDE DEF y
<1>4. bpf_htons(y) = x
  BY <1>1, <1>2, <1>3, ZenonT(60)
<1> QED
  BY <1>2, <1>3, <1>4, WordBounds, ZenonT(60)

\* A frame is a sequence of words, two bytes each.
LEMMA FrameWord ==
  ASSUME NEW f \in Frame
  PROVE  /\ Len(f) \in Nat /\ DOMAIN f = 1..Len(f) /\ data_end(f) = 2 * Len(f)
         /\ \A k \in 1..Len(f) : f[k] \in Word
BY DEF Frame, data_end

\* A frame with n tags has the first k of them.
LEMMA TaggedDown ==
  ASSUME NEW f \in Frame, NEW n \in Nat, NEW k \in 0..n, Tagged(f, n)
  PROVE  Tagged(f, k)
<1>1. data_end(f) \in Nat /\ Len(f) \in Nat
  BY DEF Frame, data_end
<1>2. 1..k \subseteq 1..n
  OBVIOUS
<1>3. 2 * (7 + 2 * n) <= data_end(f) => 2 * (7 + 2 * k) <= data_end(f)
  BY <1>1
<1> QED
  BY <1>2, <1>3, Zenon DEF Tagged

\* Some tag is the innermost: frames are finite.
LEMMA DepthExists ==
  ASSUME NEW f \in Frame, Len(f) >= 7
  PROVE  \E k \in 0..Len(f) : Tagged(f, k) /\ ~ Tagged(f, k + 1)
<1> DEFINE S == {n \in Nat : Tagged(f, n)}
<1>0. Len(f) \in Nat /\ data_end(f) = 2 * Len(f)
  BY FrameWord, Zenon
<1> SUFFICES ASSUME \A k \in 0..Len(f) : Tagged(f, k) => Tagged(f, k + 1)
             PROVE  FALSE
  BY Zenon
<1>1. 0 \in S
  <2>1. 2 * (7 + 2 * 0) <= data_end(f) /\ 1..0 = {} /\ 0 \in Nat
    BY <1>0
  <2> QED
    BY <2>1, Zenon DEF Tagged
<1>2. \A n \in 0..(Len(f) - 1) : n \in S => n + 1 \in S
  <2> TAKE n \in 0..(Len(f) - 1)
  <2>1. n \in 0..Len(f) /\ n + 1 \in Nat
    BY <1>0
  <2> QED
    BY <2>1, Zenon
<1> HIDE DEF S
<1>3. \A n \in 0..Len(f) : n \in S
  BY <1>0, <1>1, <1>2, UpTo, Zenon
<1>4. Len(f) \in 0..Len(f)
  BY <1>0
<1>5. Tagged(f, Len(f))
  BY <1>3, <1>4, Zenon DEF S
<1>6. ~ (2 * (7 + 2 * Len(f)) <= data_end(f))
  BY <1>0
<1> QED
  BY <1>5, <1>6, Zenon DEF Tagged

\* Depth counts the whole tags of a frame.
LEMMA DepthIs ==
  ASSUME NEW f \in Frame, Len(f) >= 7
  PROVE  /\ Depth(f) \in 0..Len(f) /\ Depth(f) \in Nat
         /\ Tagged(f, Depth(f)) /\ ~ Tagged(f, Depth(f) + 1)
<1>1. \E k \in 0..Len(f) : Tagged(f, k) /\ ~ Tagged(f, k + 1)
  BY DepthExists, Zenon
<1>2. /\ Depth(f) \in 0..Len(f)
      /\ Tagged(f, Depth(f)) /\ ~ Tagged(f, Depth(f) + 1)
  BY <1>1, Zenon DEF Depth
<1>3. \A k \in 0..Len(f) : k \in Nat
  OBVIOUS
<1> QED
  BY <1>2, <1>3, Zenon

\* No other number does.
LEMMA DepthUnique ==
  ASSUME NEW f \in Frame, NEW d \in Nat, Tagged(f, d), ~ Tagged(f, d + 1)
  PROVE  Len(f) >= 7 /\ Depth(f) = d
<1>0. Len(f) \in Nat /\ data_end(f) = 2 * Len(f)
  BY FrameWord, Zenon
<1>1. 2 * (7 + 2 * d) <= data_end(f)
  BY Zenon DEF Tagged
<1>2. Len(f) >= 7
  BY <1>0, <1>1
<1> DEFINE e == Depth(f)
<1>3. e \in Nat /\ Tagged(f, e) /\ ~ Tagged(f, e + 1)
  BY <1>2, DepthIs, Zenon
<1> HIDE DEF e
<1>4. e + 1 \in Nat /\ d + 1 \in Nat /\ (e = d \/ d + 1 \in 0..e \/ e + 1 \in 0..d)
  BY <1>3
<1>5. e = d
  BY <1>3, <1>4, TaggedDown, Zenon
<1> QED
  BY <1>2, <1>5, Zenon DEF e

\* The loop after k tags: the cursor behind them, the type they hide, their ids.
WalkAt(f, k) ==
    [pos |-> ETH_HLEN + VLAN_HLEN * k, proto |-> bpf_htons(f[7 + 2 * k]),
     id |-> [j \in 1..k |-> f[6 + 2 * j] % 4096]]

\* The fields of WalkAt.
LEMMA WalkAtFields ==
  ASSUME NEW f, NEW k
  PROVE  /\ WalkAt(f, k).pos = ETH_HLEN + VLAN_HLEN * k
         /\ WalkAt(f, k).proto = bpf_htons(f[7 + 2 * k])
         /\ WalkAt(f, k).id = [j \in 1..k |-> f[6 + 2 * j] % 4096]
BY DEF WalkAt

\* The id of one more tag is appended to vlans->id.
LEMMA AppendId ==
  ASSUME NEW n \in Nat, NEW f
  PROVE  Append([j \in 1..n |-> f[6 + 2 * j] % 4096], f[6 + 2 * (n + 1)] % 4096)
           = [j \in 1..(n + 1) |-> f[6 + 2 * j] % 4096]
OBVIOUS

\* No tag, no id.
LEMMA NoId ==
  ASSUME NEW f
  PROVE  <<>> = [j \in 1..0 |-> f[6 + 2 * j] % 4096]
OBVIOUS

\* In front of a tag that is all there, the loop goes on to the next.
LEMMA WalkGoesOn ==
  ASSUME NEW f \in Frame, NEW n \in Nat, Tagged(f, n + 1)
  PROVE  WalkStep(f, WalkAt(f, n)) = WalkAt(f, n + 1)
<1> DEFINE w == WalkAt(f, n)
<1>0. Len(f) \in Nat /\ data_end(f) = 2 * Len(f)
  BY FrameWord, Zenon
<1>1. /\ w.pos = ETH_HLEN + VLAN_HLEN * n /\ w.proto = bpf_htons(f[7 + 2 * n])
      /\ w.id = [j \in 1..n |-> f[6 + 2 * j] % 4096]
  BY DEF WalkAt
<1> HIDE DEF w
<1>2. /\ w.pos + VLAN_HLEN = ETH_HLEN + VLAN_HLEN * (n + 1)
      /\ W(w.pos + 2) = 7 + 2 * (n + 1) /\ W(w.pos) = 6 + 2 * (n + 1)
  BY <1>1 DEF W, ETH_HLEN, VLAN_HLEN
<1>3. VlanFollows(f, w)
  <2>1. n + 1 \in 1..(n + 1) /\ 5 + 2 * (n + 1) = 7 + 2 * n
    OBVIOUS
  <2>2. f[7 + 2 * n] \in {ETH_P_8021Q, ETH_P_8021AD} /\ 2 * (7 + 2 * (n + 1)) <= data_end(f)
    BY <2>1, Zenon DEF Tagged
  <2>3. proto_is_vlan(w.proto)
    BY <1>1, <2>2, Zenon DEF proto_is_vlan
  <2>4. w.pos + VLAN_HLEN <= data_end(f)
    BY SMTT(40), <1>0, <1>1, <2>2 DEF ETH_HLEN, VLAN_HLEN
  <2> QED
    BY <2>3, <2>4, Zenon DEF VlanFollows
<1> DEFINE a == w.pos + VLAN_HLEN
           b == bpf_htons(f[W(w.pos + 2)])
           c == Append(w.id, f[W(w.pos)] % 4096)
           c1 == [j \in 1..(n + 1) |-> f[6 + 2 * j] % 4096]
<1>4. WalkStep(f, w) = [pos |-> a, proto |-> b, id |-> c]
  BY <1>3 DEF WalkStep
<1>5. a = ETH_HLEN + VLAN_HLEN * (n + 1) /\ b = bpf_htons(f[7 + 2 * (n + 1)])
  BY <1>2, Zenon
<1>6. c = c1
  BY <1>1, <1>2, AppendId
<1>7. WalkAt(f, n + 1) = [pos |-> ETH_HLEN + VLAN_HLEN * (n + 1),
                          proto |-> bpf_htons(f[7 + 2 * (n + 1)]), id |-> c1]
  BY DEF WalkAt
<1> HIDE DEF a, b, c, c1
<1>8. WalkStep(f, w) = WalkAt(f, n + 1)
  BY <1>4, <1>5, <1>6, <1>7
<1> QED
  BY <1>8, Zenon DEF w

\* Behind the last tag, and in front of one that data_end cuts off, it stays.
LEMMA WalkStops ==
  ASSUME NEW f \in Frame, NEW d \in Nat, Tagged(f, d), ~ Tagged(f, d + 1)
  PROVE  WalkStep(f, WalkAt(f, d)) = WalkAt(f, d)
<1> DEFINE w == WalkAt(f, d)
<1>0. Len(f) \in Nat /\ data_end(f) = 2 * Len(f) /\ \A k \in 1..Len(f) : f[k] \in Word
  BY FrameWord, Zenon
<1>1. w.pos = ETH_HLEN + VLAN_HLEN * d /\ w.proto = bpf_htons(f[7 + 2 * d])
  BY DEF WalkAt
<1> HIDE DEF w
<1>2. ~ VlanFollows(f, w)
  <2> SUFFICES ASSUME VlanFollows(f, w) PROVE FALSE
    BY Zenon
  <2>1. proto_is_vlan(w.proto) /\ w.pos + VLAN_HLEN <= data_end(f)
    BY Zenon DEF VlanFollows
  <2>2. 2 * (7 + 2 * (d + 1)) <= data_end(f) /\ 7 + 2 * d \in 1..Len(f)
    BY <1>0, <1>1, <2>1 DEF ETH_HLEN, VLAN_HLEN
  <2>3. f[7 + 2 * d] \in Word /\ ETH_P_8021Q \in Word /\ ETH_P_8021AD \in Word
    BY <1>0, <2>2, WordTypes, Zenon
  <2>4. bpf_htons(f[7 + 2 * d]) \in {bpf_htons(ETH_P_8021Q), bpf_htons(ETH_P_8021AD)}
    BY <1>1, <2>1, Zenon DEF proto_is_vlan
  <2>5. f[7 + 2 * d] \in {ETH_P_8021Q, ETH_P_8021AD}
    BY <2>3, <2>4, HtonsTwice, ZenonT(60)
  <2>6. \A j \in 1..(d + 1) : j \in 1..d \/ 5 + 2 * j = 7 + 2 * d
    OBVIOUS
  <2>7. Tagged(f, d + 1)
    BY <2>2, <2>5, <2>6, Zenon DEF Tagged
  <2> QED
    BY <2>7, Zenon
<1>3. WalkStep(f, w) = w
  BY <1>2 DEF WalkStep
<1> QED
  BY <1>3, Zenon DEF w

\* The lower of two numbers.
Lower(d, n) == IF d < n THEN d ELSE n

\* parse_ethhdr_vlan ends behind all tags, or behind VLAN_MAX_DEPTH of them.
LEMMA WalkCounts ==
  ASSUME NEW f \in Frame, Len(f) >= 7
  PROVE  parse_ethhdr_vlan(f, 0) = WalkAt(f, Lower(Depth(f), VLAN_MAX_DEPTH))
<1> DEFINE d == Depth(f)
           V == VLAN_MAX_DEPTH
           start == [pos |-> 0 + ETH_HLEN, proto |-> h_proto(f), id |-> <<>>]
<1>1. d \in Nat /\ Tagged(f, d) /\ ~ Tagged(f, d + 1) /\ V \in Nat
  BY DepthIs, BoundsAssumption, Zenon
<1>2. start = WalkAt(f, 0)
  <2>1. 0 + ETH_HLEN = ETH_HLEN + VLAN_HLEN * 0 /\ W(12) = 7 + 2 * 0
    BY DEF ETH_HLEN, VLAN_HLEN, W
  <2> QED
    BY <2>1, NoId DEF WalkAt, h_proto
<1>3. PICK g : IsWalk(f, start, g, V) /\ VlanWalk(f, start) = g[V]
  <2> HIDE DEF start
  <2> QED
    BY VlanWalkIs, Zenon
<1> HIDE DEF start, d, V
<1> DEFINE S == {n \in 0..V : g[n] = WalkAt(f, Lower(d, n))}
<1>4. \A k \in 0..V : g[k] = IF k = 0 THEN start ELSE WalkStep(f, g[k - 1])
  BY <1>3, Zenon DEF IsWalk
<1>5. 0 \in S
  <2>1. 0 \in 0..V /\ Lower(d, 0) = 0
    BY <1>1 DEF Lower
  <2> QED
    BY <1>2, <1>4, <2>1, Zenon
<1>6. ASSUME NEW n \in 0..(V - 1), n \in S
      PROVE  n + 1 \in S
  <2>1. n + 1 \in 0..V /\ n + 1 # 0 /\ (n + 1) - 1 = n /\ n \in Nat
    BY <1>1
  <2>2. g[n + 1] = WalkStep(f, WalkAt(f, Lower(d, n)))
    BY <1>4, <1>6, <2>1, Zenon
  <2>3. CASE n < d
    <3>1. Lower(d, n) = n /\ Lower(d, n + 1) = n + 1 /\ n + 1 \in 0..d
      BY <1>1, <2>1, <2>3 DEF Lower
    <3>2. Tagged(f, n + 1)
      BY <1>1, <3>1, TaggedDown, Zenon
    <3>3. g[n + 1] = WalkAt(f, n + 1)
      BY <2>1, <2>2, <3>1, <3>2, WalkGoesOn, Zenon
    <3> QED
      BY <2>1, <3>1, <3>3, Zenon
  <2>4. CASE ~ (n < d)
    <3>1. Lower(d, n) = d /\ Lower(d, n + 1) = d
      BY <1>1, <2>1, <2>4 DEF Lower
    <3>2. g[n + 1] = WalkAt(f, d)
      BY <1>1, <2>2, <3>1, WalkStops, Zenon
    <3> QED
      BY <2>1, <3>1, <3>2, Zenon
  <2> QED
    BY <2>3, <2>4, Zenon
<1> HIDE DEF S
<1>7. \A n \in 0..V : n \in S
  BY ZenonT(60), <1>1, <1>5, <1>6, UpTo
<1>8. V \in 0..V
  BY <1>1
<1>9. g[V] = WalkAt(f, Lower(d, V))
  BY <1>7, <1>8, Zenon DEF S
<1> QED
  BY <1>3, <1>9, Zenon DEF parse_ethhdr_vlan, d, V, start

-----------------------------------------------------------------------------
\* A function from 1..n to words is a frame.
LEMMA FunIsFrame ==
  ASSUME NEW n \in Nat, NEW g \in [1..n -> Word]
  PROVE  g \in Frame /\ Len(g) = n
<1>1. g \in Seq(Word)
  BY SeqDef, Zenon
<1>2. DOMAIN g = 1..n
  BY Zenon
<1> QED
  BY <1>1, <1>2, LenProperties DEF Frame

\* Frames with the same words are the same.
LEMMA SameFrame ==
  ASSUME NEW f \in Frame, NEW g \in Frame, Len(f) = Len(g),
         \A k \in 1..Len(f) : f[k] = g[k]
  PROVE  f = g
<1>1. f \in Seq(Word) /\ g \in Seq(Word)
  BY Zenon DEF Frame
<1> QED
  BY <1>1, SeqEqual, Zenon

\* SwapWords gives a frame of the same length, and where each word comes from.
LEMMA SwapWordsFacts ==
  ASSUME NEW f \in Frame, NEW i \in Nat, NEW j \in Nat, NEW n \in Nat,
         i >= 1, j >= 1, i + n - 1 <= Len(f), j + n - 1 <= Len(f)
  PROVE  /\ SwapWords(f, i, j, n) \in Frame
         /\ Len(SwapWords(f, i, j, n)) = Len(f)
         /\ \A k \in 1..Len(f) :
              SwapWords(f, i, j, n)[k] = IF k \in i..(i + n - 1) THEN f[k - i + j]
                                         ELSE IF k \in j..(j + n - 1) THEN f[k - j + i]
                                         ELSE f[k]
<1> DEFINE g == SwapWords(f, i, j, n)
<1>1. Len(f) \in Nat /\ \A k \in 1..Len(f) : f[k] \in Word
  BY FrameWord, Zenon
<1>2. g \in [1..Len(f) -> Word]
  <2>1. \A k \in 1..Len(f) : k \in i..(i + n - 1) => k - i + j \in 1..Len(f)
    BY <1>1
  <2>2. \A k \in 1..Len(f) : k \in j..(j + n - 1) => k - j + i \in 1..Len(f)
    BY <1>1
  <2> QED
    BY <1>1, <2>1, <2>2, Zenon DEF SwapWords
<1>3. g \in Frame /\ Len(g) = Len(f)
  BY <1>1, <1>2, FunIsFrame, Zenon
<1>4. \A k \in 1..Len(f) : g[k] = IF k \in i..(i + n - 1) THEN f[k - i + j]
                                  ELSE IF k \in j..(j + n - 1) THEN f[k - j + i]
                                  ELSE f[k]
  BY Zenon DEF SwapWords
<1> QED
  BY <1>3, <1>4, Zenon

\* swap_src_dst_mac exchanges the first three words with the next three.
LEMMA SwapMacsWords ==
  ASSUME NEW f \in Frame, Len(f) >= 6
  PROVE  /\ SwapMacs(f) \in Frame /\ Len(SwapMacs(f)) = Len(f)
         /\ \A k \in 1..Len(f) :
              /\ k \in 1..3 => SwapMacs(f)[k] = f[k + 3]
              /\ k \in 4..6 => SwapMacs(f)[k] = f[k - 3]
              /\ k >= 7 => SwapMacs(f)[k] = f[k]
<1> DEFINE g == SwapMacs(f)
<1>0. Len(f) \in Nat
  BY FrameWord, Zenon
<1>1. W(0) = 1 /\ W(6) = 4
  BY DEF W
<1>2. g = SwapWords(f, 1, 4, 3)
  BY <1>1, Zenon DEF SwapMacs
<1>3. 1 >= 1 /\ 4 >= 1 /\ 1 + 3 - 1 <= Len(f) /\ 4 + 3 - 1 <= Len(f)
  BY <1>0
<1>4. /\ g \in Frame /\ Len(g) = Len(f)
      /\ \A k \in 1..Len(f) : g[k] = IF k \in 1..(1 + 3 - 1) THEN f[k - 1 + 4]
                                     ELSE IF k \in 4..(4 + 3 - 1) THEN f[k - 4 + 1]
                                     ELSE f[k]
  <2> HIDE DEF g
  <2> QED
    BY <1>2, <1>3, SwapWordsFacts
<1> HIDE DEF g
<1>5. ASSUME NEW k \in 1..Len(f)
      PROVE  /\ k \in 1..3 => g[k] = f[k + 3]
             /\ k \in 4..6 => g[k] = f[k - 3]
             /\ k >= 7 => g[k] = f[k]
  <2>1. /\ 1 + 3 - 1 = 3 /\ 4 + 3 - 1 = 6 /\ k - 1 + 4 = k + 3 /\ k - 4 + 1 = k - 3
        /\ k \in 4..6 => k \notin 1..3
        /\ k >= 7 => k \notin 1..3 /\ k \notin 4..6
    BY <1>0
  <2>2. g[k] = IF k \in 1..(1 + 3 - 1) THEN f[k - 1 + 4]
               ELSE IF k \in 4..(4 + 3 - 1) THEN f[k - 4 + 1] ELSE f[k]
    BY <1>4, Zenon
  <2>3. g[k] = IF k \in 1..3 THEN f[k + 3] ELSE IF k \in 4..6 THEN f[k - 3] ELSE f[k]
    BY <2>1, <2>2
  <2> QED
    BY <2>1, <2>3, Zenon
<1> QED
  BY <1>4, <1>5, Zenon DEF g

\* A part of a frame, word by word.
LEMMA PartWords ==
  ASSUME NEW f \in Frame, NEW m \in Nat \ {0}, NEW n \in Nat, n <= Len(f), m <= n + 1
  PROVE  /\ SubSeq(f, m, n) \in Seq(Word) /\ Len(SubSeq(f, m, n)) = n - m + 1
         /\ \A i \in 1..(n - m + 1) : SubSeq(f, m, n)[i] = f[m + i - 1]
<1>1. Len(f) \in Nat /\ \A k \in 1..Len(f) : f[k] \in Word
  BY FrameWord, Zenon
<1>2. m \in Int /\ n \in Int /\ \A i \in m..n : i \in 1..Len(f)
  BY <1>1
<1>3. \A i \in m..n : f[i] \in Word
  BY <1>1, <1>2, Zenon
<1>4. (IF m <= n THEN n - m + 1 ELSE 0) = n - m + 1
  OBVIOUS
<1>5. /\ SubSeq(f, m, n) \in Seq(Word)
      /\ Len(SubSeq(f, m, n)) = IF m <= n THEN n - m + 1 ELSE 0
      /\ \A i \in 1..(n - m + 1) : SubSeq(f, m, n)[i] = f[m + i - 1]
  BY <1>2, <1>3, SubSeqProperties
<1> QED
  BY <1>4, <1>5

\* A tag is two words.
LEMMA TwoWords ==
  ASSUME NEW x \in Word, NEW y \in Word
  PROVE  /\ <<x, y>> \in Seq(Word) /\ Len(<<x, y>>) = 2
         /\ <<x, y>>[1] = x /\ <<x, y>>[2] = y
OBVIOUS

\* The control information of a pushed tag.
Tci(v) == v % 65536

\* vlan_tag_push keeps both addresses, puts the tag behind them and moves the rest.
LEMMA TagWords ==
  ASSUME NEW f \in Frame, Len(f) >= 6, NEW v \in Int
  PROVE  /\ Tag(f, v) \in Frame /\ Len(Tag(f, v)) = Len(f) + 2
         /\ Tag(f, v)[7] = ETH_P_8021Q /\ Tag(f, v)[8] = Tci(v)
         /\ \A k \in 1..6 : Tag(f, v)[k] = f[k]
         /\ \A k \in 9..(Len(f) + 2) : Tag(f, v)[k] = f[k - 2]
<1> DEFINE a == SubSeq(f, 1, 6)
           b == <<ETH_P_8021Q, Tci(v)>>
           c == SubSeq(f, 7, Len(f))
           ab == a \o b
           t == ab \o c
<1>0. Len(f) \in Nat
  BY FrameWord, Zenon
<1>1. /\ a \in Seq(Word) /\ Len(a) = 6 - 1 + 1
      /\ \A i \in 1..(6 - 1 + 1) : a[i] = f[1 + i - 1]
  <2>1. 1 \in Nat \ {0} /\ 6 \in Nat /\ 6 <= Len(f) /\ 1 <= 6 + 1
    BY <1>0
  <2> QED
    BY <2>1, PartWords, Zenon
<1>2. /\ c \in Seq(Word) /\ Len(c) = Len(f) - 7 + 1
      /\ \A i \in 1..(Len(f) - 7 + 1) : c[i] = f[7 + i - 1]
  <2>1. 7 \in Nat \ {0} /\ Len(f) <= Len(f) /\ 7 <= Len(f) + 1
    BY <1>0
  <2> QED
    BY <1>0, <2>1, PartWords, Zenon
<1>3. b \in Seq(Word) /\ Len(b) = 2 /\ b[1] = ETH_P_8021Q /\ b[2] = Tci(v)
  <2>1. Tci(v) \in Int /\ 0 <= Tci(v) /\ Tci(v) <= U16_MAX
    BY DEF Tci, U16_MAX
  <2>2. Tci(v) \in Word /\ ETH_P_8021Q \in Word
    BY <2>1, WordBounds, WordTypes, Zenon
  <2> QED
    BY <2>2, TwoWords, Zenon
<1>4. Tag(f, v) = t
  BY DEF Tag, Tci
<1> HIDE DEF a, b, c, t, ab
<1>5. /\ ab \in Seq(Word) /\ Len(ab) = Len(a) + Len(b)
      /\ \A i \in 1..(Len(a) + Len(b)) : ab[i] = IF i <= Len(a) THEN a[i] ELSE b[i - Len(a)]
  <2>1. a \in Seq(Word) /\ b \in Seq(Word)
    BY <1>1, <1>3, Zenon
  <2> QED
    BY <2>1, ConcatProperties, Zenon DEF ab
<1>6. /\ t \in Seq(Word) /\ Len(t) = Len(ab) + Len(c)
      /\ \A i \in 1..(Len(ab) + Len(c)) : t[i] = IF i <= Len(ab) THEN ab[i] ELSE c[i - Len(ab)]
  <2>1. ab \in Seq(Word) /\ c \in Seq(Word)
    BY <1>2, <1>5, Zenon
  <2> QED
    BY <2>1, ConcatProperties, Zenon DEF t
<1>7. Len(a) = 6 /\ Len(b) = 2 /\ Len(ab) = 8 /\ Len(c) = Len(f) - 6 /\ Len(t) = Len(f) + 2
  BY <1>0, <1>1, <1>2, <1>3, <1>5, <1>6
<1>8. \A k \in 1..6 : t[k] = f[k]
  <2> TAKE k \in 1..6
  <2>1. /\ k <= Len(a) /\ k <= Len(ab) /\ 1 + k - 1 = k /\ k \in 1..(6 - 1 + 1)
        /\ k \in 1..(Len(a) + Len(b)) /\ k \in 1..(Len(ab) + Len(c))
    BY <1>0, <1>7
  <2>2. t[k] = ab[k] /\ ab[k] = a[k] /\ a[k] = f[1 + k - 1]
    BY <1>1, <1>5, <1>6, <2>1, Zenon
  <2> QED
    BY <2>1, <2>2, Zenon
<1>9. t[7] = ETH_P_8021Q /\ t[8] = Tci(v)
  <2>1. /\ ~ (7 <= Len(a)) /\ 7 <= Len(ab) /\ 7 - Len(a) = 1
        /\ 7 \in 1..(Len(a) + Len(b)) /\ 7 \in 1..(Len(ab) + Len(c))
        /\ ~ (8 <= Len(a)) /\ 8 <= Len(ab) /\ 8 - Len(a) = 2
        /\ 8 \in 1..(Len(a) + Len(b)) /\ 8 \in 1..(Len(ab) + Len(c))
    BY <1>0, <1>7
  <2>2. t[7] = ab[7] /\ ab[7] = b[7 - Len(a)] /\ t[8] = ab[8] /\ ab[8] = b[8 - Len(a)]
    BY <1>5, <1>6, <2>1, Zenon
  <2>3. t[7] = b[1] /\ t[8] = b[2]
    BY SMTT(40), <2>1, <2>2
  <2> QED
    BY <1>3, <2>3, Zenon
<1>10. \A k \in 9..(Len(f) + 2) : t[k] = f[k - 2]
  <2> TAKE k \in 9..(Len(f) + 2)
  <2>1. /\ ~ (k <= Len(ab)) /\ k \in 1..(Len(ab) + Len(c))
        /\ k - Len(ab) \in 1..(Len(f) - 7 + 1) /\ 7 + (k - Len(ab)) - 1 = k - 2
    BY <1>0, <1>7
  <2>2. t[k] = c[k - Len(ab)] /\ c[k - Len(ab)] = f[7 + (k - Len(ab)) - 1]
    BY <1>2, <1>6, <2>1, Zenon
  <2> QED
    BY <2>1, <2>2, Zenon
<1> QED
  BY <1>4, <1>6, <1>7, <1>8, <1>9, <1>10, Zenon DEF Frame

\* vlan_tag_pop keeps both addresses and closes the gap.
LEMMA UntagWords ==
  ASSUME NEW f \in Frame, Len(f) >= 8
  PROVE  /\ Untag(f) \in Frame /\ Len(Untag(f)) = Len(f) - 2
         /\ \A k \in 1..6 : Untag(f)[k] = f[k]
         /\ \A k \in 7..(Len(f) - 2) : Untag(f)[k] = f[k + 2]
<1> DEFINE a == SubSeq(f, 1, 6)
           c == SubSeq(f, 9, Len(f))
           t == a \o c
<1>0. Len(f) \in Nat
  BY FrameWord, Zenon
<1>1. /\ a \in Seq(Word) /\ Len(a) = 6 - 1 + 1
      /\ \A i \in 1..(6 - 1 + 1) : a[i] = f[1 + i - 1]
  <2>1. 1 \in Nat \ {0} /\ 6 \in Nat /\ 6 <= Len(f) /\ 1 <= 6 + 1
    BY <1>0
  <2> QED
    BY <2>1, PartWords, Zenon
<1>2. /\ c \in Seq(Word) /\ Len(c) = Len(f) - 9 + 1
      /\ \A i \in 1..(Len(f) - 9 + 1) : c[i] = f[9 + i - 1]
  <2>1. 9 \in Nat \ {0} /\ Len(f) <= Len(f) /\ 9 <= Len(f) + 1
    BY <1>0
  <2> QED
    BY <1>0, <2>1, PartWords, Zenon
<1>4. Untag(f) = t
  BY Zenon DEF Untag
<1> HIDE DEF a, c, t
<1>6. /\ t \in Seq(Word) /\ Len(t) = Len(a) + Len(c)
      /\ \A i \in 1..(Len(a) + Len(c)) : t[i] = IF i <= Len(a) THEN a[i] ELSE c[i - Len(a)]
  BY <1>1, <1>2, ConcatProperties, ZenonT(60) DEF t
<1>7. Len(a) = 6 /\ Len(c) = Len(f) - 8 /\ Len(t) = Len(f) - 2
  BY <1>0, <1>1, <1>2, <1>6
<1>8. \A k \in 1..6 : t[k] = f[k]
  <2> TAKE k \in 1..6
  <2>1. /\ k <= Len(a) /\ 1 + k - 1 = k /\ k \in 1..(6 - 1 + 1)
        /\ k \in 1..(Len(a) + Len(c))
    BY <1>0, <1>7
  <2>2. t[k] = a[k] /\ a[k] = f[1 + k - 1]
    BY <1>1, <1>6, <2>1, Zenon
  <2> QED
    BY <2>1, <2>2, Zenon
<1>9. \A k \in 7..(Len(f) - 2) : t[k] = f[k + 2]
  <2> TAKE k \in 7..(Len(f) - 2)
  <2>1. /\ ~ (k <= Len(a)) /\ k \in 1..(Len(a) + Len(c))
        /\ k - Len(a) \in 1..(Len(f) - 9 + 1) /\ 9 + (k - Len(a)) - 1 = k + 2
    BY <1>0, <1>7
  <2>2. t[k] = c[k - Len(a)] /\ c[k - Len(a)] = f[9 + (k - Len(a)) - 1]
    BY <1>2, <1>6, <2>1, Zenon
  <2> QED
    BY <2>1, <2>2, Zenon
<1> QED
  BY <1>4, <1>6, <1>7, <1>8, <1>9, Zenon DEF Frame

-----------------------------------------------------------------------------
\* The layers behind the network header.
Transport == {"icmp", "icmp6", "udp", "tcp"}

\* The tags parse_ethhdr skips.
Skipped(f) == Lower(Depth(f), VLAN_MAX_DEPTH)

\* parse_ethhdr has left the cursor behind those, and returned the type they hide.
AtNetwork ==
    /\ Len(frame) >= 7
    /\ pos = ETH_HLEN + VLAN_HLEN * Skipped(frame)
    /\ ret = bpf_htons(frame[7 + 2 * Skipped(frame)])

\* The network header of f is at p, behind all tags, and is not cut off.
Addressed(f, p) ==
    /\ Len(f) >= 7
    /\ p = ETH_HLEN + VLAN_HLEN * Depth(f)
    /\ \/ f[7 + 2 * Depth(f)] = ETH_P_IP /\ p + IP_HLEN <= data_end(f)
       \/ f[7 + 2 * Depth(f)] = ETH_P_IPV6 /\ p + IPV6_HLEN <= data_end(f)

\* What the cursor, the last return value and l3 mean at each layer.  At a transport
\* layer l3 is behind all tags, although parse_ethhdr may skip fewer: had it stopped
\* at a tag, neither parse_iphdr nor parse_ip6hdr would have been called.
CursorInv ==
    /\ layer = "eth" => pos = 0
    /\ layer = "l3" => AtNetwork
    /\ layer \in Transport => Addressed(frame, l3)

\* The inductive invariant for the cursor.
HelperInv == TypeOK /\ CursorInBounds /\ CursorInv

\* The return values as a range of integers.
LEMMA ResultBounds ==
  \A r : r \in Result <=> r \in Int /\ -1 <= r /\ r <= U16_MAX
<1>1. U16_MAX \in Int
  BY DEF U16_MAX
<1> QED
  BY <1>1 DEF Result

\* A return value is an int, and -1, zero and every word is one.
LEMMA ResultFacts ==
  /\ -1 \in Result /\ 0 \in Result
  /\ \A r \in Result : r \in Int
  /\ \A w \in Word : w \in Result
<1>1. -1 \in Result /\ 0 \in Result
  BY ResultBounds DEF U16_MAX
<1>2. ASSUME NEW w \in Word PROVE w \in Result
  <2>1. w \in Int /\ 0 <= w /\ w <= U16_MAX
    BY WordBounds, Zenon
  <2>2. -1 <= w
    BY <2>1
  <2> QED
    BY <2>1, <2>2, ResultBounds, Zenon
<1> QED
  BY <1>1, <1>2, ResultBounds, Zenon

\* What a parser may return: a cursor within the packet and -1 or a word.
Fits(r) == r.pos \in Nat /\ r.pos <= data_end(frame) /\ r.ret \in Result

\* A result with the cursor within the packet.
LEMMA ParsedFits ==
  ASSUME NEW p \in Nat, NEW r \in Result, p <= data_end(frame)
  PROVE  /\ Fits(Parsed(p, r))
         /\ Parsed(p, r).pos = p /\ Parsed(p, r).ret = r
BY DEF Fits, Parsed

\* A word that ends before data_end can be read.
LEMMA WordAt ==
  ASSUME NEW f \in Frame, NEW b \in Nat, b + 2 <= data_end(f)
  PROVE  /\ W(b) \in 1..Len(f) /\ f[W(b)] \in Word /\ f[W(b)] \in Nat
         /\ Hi(f[W(b)]) \in Nat /\ Lo(f[W(b)]) \in Nat
         /\ Hi(f[W(b)]) \in Word /\ Lo(f[W(b)]) \in Word
<1>1. /\ Len(f) \in Nat /\ data_end(f) = 2 * Len(f)
      /\ \A k \in 1..Len(f) : f[k] \in Word
  BY FrameWord, Zenon
<1>2. W(b) \in 1..Len(f)
  BY <1>1 DEF W
<1> DEFINE x == f[W(b)]
<1>3. x \in Word
  BY <1>1, <1>2, Zenon
<1> HIDE DEF x
<1>4. x \in Int /\ 0 <= x /\ x <= U16_MAX
  BY <1>3, WordBounds, Zenon
<1>5. x \in Nat /\ x \div 256 \in Nat /\ x % 256 \in Nat
  BY <1>4
<1>6. x \div 256 \in Word /\ x % 256 \in Word
  <2>1. /\ x \div 256 \in Int /\ 0 <= x \div 256 /\ x \div 256 <= U16_MAX
        /\ x % 256 \in Int /\ 0 <= x % 256 /\ x % 256 <= U16_MAX
    BY <1>4 DEF U16_MAX
  <2> QED
    BY <2>1, WordBounds, Zenon
<1> QED
  BY <1>2, <1>3, <1>5, <1>6, Zenon DEF x, Hi, Lo

\* A parser of a header of fixed size stays within the packet.
LEMMA FixedFits ==
  ASSUME frame \in Frame, NEW p \in Nat, NEW size \in Nat, NEW type,
         p <= data_end(frame), p + size <= data_end(frame) => type \in Word
  PROVE  /\ Fits(ParseFixed(p, size, type))
         /\ ParseFixed(p, size, type).ret # -1 => p + size <= data_end(frame)
<1>0. data_end(frame) \in Nat
  BY FrameWord
<1>1. CASE p + size > data_end(frame)
  <2>1. ParseFixed(p, size, type) = Parsed(p, -1)
    BY <1>1, Zenon DEF ParseFixed
  <2> QED
    BY <2>1, ResultFacts, ParsedFits, ZenonT(60)
<1>2. CASE ~ (p + size > data_end(frame))
  <2>1. ParseFixed(p, size, type) = Parsed(p + size, type)
    BY <1>2, Zenon DEF ParseFixed
  <2>2. p + size <= data_end(frame) /\ p + size \in Nat
    BY <1>0, <1>2
  <2> QED
    BY <2>1, <2>2, ResultFacts, ParsedFits, ZenonT(60)
<1> QED
  BY <1>1, <1>2, Zenon

\* Where the program goes on after each layer.
LEMMA FollowingFacts ==
  ASSUME NEW l \in Layers, NEW r \in Int
  PROVE  /\ Following(l, r) \in Layers
         /\ Following(l, r) # "eth"
         /\ r = -1 => Following(l, r) = "end"
         /\ l = "eth" /\ r # -1 => Following(l, r) = "l3"
         /\ l = "l3" => Following(l, r) \in Transport \cup {"end"}
         /\ l \notin {"eth", "l3"} => Following(l, r) = "end"
BY DEF Following, Layers, Transport, IPPROTO_ICMP, IPPROTO_ICMPV6, IPPROTO_UDP, IPPROTO_TCP

\* What a call of a parser does to the cursor, whichever it is.
LEMMA CallKeepsTypes ==
  ASSUME TypeOK, NEW l \in Layers, NEW result, Fits(result), Call(l, result)
  PROVE  TypeOK' /\ CursorInBounds' /\ frame' = frame
<1>1. /\ pos' = result.pos /\ ret' = result.ret /\ layer' = Following(l, result.ret)
      /\ l3' = (IF l = "l3" THEN pos ELSE l3) /\ frame' = frame
      /\ UNCHANGED <<orig, pushed, popped, turned, room>>
  BY Zenon DEF Call
<1>2. result.pos \in Nat /\ result.pos <= data_end(frame) /\ result.ret \in Result
  BY Zenon DEF Fits
<1>3. layer' \in Layers
  BY <1>1, <1>2, ResultFacts, FollowingFacts, Zenon
<1>4. TypeOK'
  BY <1>1, <1>2, <1>3, Zenon DEF TypeOK
<1>5. CursorInBounds'
  BY <1>1, <1>2, Zenon DEF CursorInBounds, data_end
<1> QED
  BY <1>1, <1>4, <1>5, Zenon

\* A parser of a transport header ends the walk.
LEMMA TransportCall ==
  ASSUME HelperInv, NEW l \in Transport, NEW result, Fits(result), Call(l, result)
  PROVE  HelperInv'
<1>1. l \in Layers /\ l \notin {"eth", "l3"}
  BY DEF Layers, Transport
<1>2. TypeOK' /\ CursorInBounds'
  BY <1>1, CallKeepsTypes, Zenon DEF HelperInv
<1>3. layer' = "end"
  <2>1. layer' = Following(l, result.ret) /\ result.ret \in Int
    BY ResultFacts, Zenon DEF Call, Fits
  <2> QED
    BY <1>1, <2>1, FollowingFacts, Zenon
<1>4. CursorInv'
  BY <1>3 DEF CursorInv, Transport
<1> QED
  BY <1>2, <1>4, Zenon DEF HelperInv

\* The cursor parse_ethhdr leaves is within the packet, and what it is in front of
\* is a tag or behind all tags.
LEMMA SkippedFacts ==
  ASSUME NEW f \in Frame, Len(f) >= 7
  PROVE  /\ Skipped(f) \in Nat /\ Tagged(f, Skipped(f))
         /\ 7 + 2 * Skipped(f) \in 1..Len(f) /\ f[7 + 2 * Skipped(f)] \in Word
         /\ ETH_HLEN + VLAN_HLEN * Skipped(f) <= data_end(f)
         /\ \/ f[7 + 2 * Skipped(f)] \in {ETH_P_8021Q, ETH_P_8021AD}
            \/ Skipped(f) = Depth(f)
<1> DEFINE d == Depth(f)
           k == Skipped(f)
<1>0. /\ Len(f) \in Nat /\ data_end(f) = 2 * Len(f)
      /\ \A i \in 1..Len(f) : f[i] \in Word
  BY FrameWord, Zenon
<1>1. d \in Nat /\ Tagged(f, d)
  BY DepthIs, Zenon
<1>2. k = IF d < VLAN_MAX_DEPTH THEN d ELSE VLAN_MAX_DEPTH
  BY Zenon DEF Skipped, Lower
<1> HIDE DEF d, k
<1>3. k \in Nat /\ k \in 0..d /\ (k = d \/ k + 1 \in 0..d) /\ k + 1 \in Nat
  BY <1>1, <1>2, BoundsAssumption
<1>4. Tagged(f, k)
  BY <1>1, <1>3, TaggedDown, Zenon
<1>5. 2 * (7 + 2 * k) <= data_end(f)
  BY <1>4, Zenon DEF Tagged
<1>6. 7 + 2 * k \in 1..Len(f) /\ ETH_HLEN + VLAN_HLEN * k <= data_end(f)
  BY <1>0, <1>3, <1>5 DEF ETH_HLEN, VLAN_HLEN
<1>7. k = d \/ f[7 + 2 * k] \in {ETH_P_8021Q, ETH_P_8021AD}
  <2>1. k + 1 \in 1..(k + 1) /\ 5 + 2 * (k + 1) = 7 + 2 * k
    BY <1>3
  <2>2. k = d \/ Tagged(f, k + 1)
    BY <1>1, <1>3, TaggedDown, Zenon
  <2> QED
    BY <2>1, <2>2, Zenon DEF Tagged
<1> QED
  BY <1>0, <1>3, <1>4, <1>6, <1>7, Zenon DEF d, k

\* A parser of a network header, called for the type the tags hide, leaves l3 at the
\* header behind all tags.
LEMMA NetworkCall ==
  ASSUME HelperInv, NEW type \in {ETH_P_IP, ETH_P_IPV6}, NEW result, Fits(result),
         ret = bpf_htons(type), Call("l3", result),
         result.ret # -1 =>
           \/ type = ETH_P_IP /\ pos + IP_HLEN <= data_end(frame)
           \/ type = ETH_P_IPV6 /\ pos + IPV6_HLEN <= data_end(frame)
  PROVE  HelperInv'
<1>1. "l3" \in Layers
  BY DEF Layers
<1>2. TypeOK' /\ CursorInBounds' /\ frame' = frame
  BY <1>1, CallKeepsTypes, Zenon DEF HelperInv
<1>3. layer = "l3" /\ layer' = Following("l3", result.ret) /\ result.ret \in Int /\ l3' = pos
  BY ResultFacts, Zenon DEF Call, Fits
<1>4. layer' \in Transport \cup {"end"} /\ (result.ret = -1 => layer' = "end")
  BY <1>1, <1>3, FollowingFacts, Zenon
<1>5. frame \in Frame /\ AtNetwork
  BY <1>3, Zenon DEF HelperInv, TypeOK, CursorInv
<1> DEFINE k == Skipped(frame)
<1>6. Len(frame) >= 7 /\ pos = ETH_HLEN + VLAN_HLEN * k /\ ret = bpf_htons(frame[7 + 2 * k])
  BY <1>5, Zenon DEF AtNetwork
<1>7. /\ frame[7 + 2 * k] \in Word
      /\ frame[7 + 2 * k] \in {ETH_P_8021Q, ETH_P_8021AD} \/ k = Depth(frame)
  BY <1>5, <1>6, SkippedFacts, Zenon
<1> HIDE DEF k
<1>8. frame[7 + 2 * k] = type
  <2>1. type \in Word
    BY WordTypes, Zenon
  <2>2. bpf_htons(frame[7 + 2 * k]) = bpf_htons(type)
    BY <1>6, Zenon
  <2> QED
    BY <1>7, <2>1, <2>2, HtonsTwice, Zenon
<1>9. k = Depth(frame)
  <2>1. type \notin {ETH_P_8021Q, ETH_P_8021AD}
    BY DEF ETH_P_IP, ETH_P_IPV6, ETH_P_8021Q, ETH_P_8021AD
  <2> QED
    BY <1>7, <1>8, <2>1, Zenon
<1>10. layer' \in Transport => Addressed(frame, pos)
  <2>1. "end" \notin Transport
    BY DEF Transport
  <2> QED
    BY <1>4, <1>6, <1>8, <1>9, <2>1, Zenon DEF Addressed
<1>11. CursorInv'
  <2>1. "eth" \notin Transport \cup {"end"} /\ "l3" \notin Transport \cup {"end"}
    BY DEF Transport
  <2>2. layer' # "eth" /\ layer' # "l3"
    BY <1>4, <2>1, Zenon
  <2>3. layer' \in Transport => Addressed(frame', l3')
    BY <1>2, <1>3, <1>10, Zenon
  <2> QED
    BY <2>2, <2>3, Zenon DEF CursorInv
<1> QED
  BY <1>2, <1>11, Zenon DEF HelperInv

\* What the parsers need to know of the state they are called in.
LEMMA CursorFacts ==
  ASSUME HelperInv
  PROVE  frame \in Frame /\ pos \in Nat /\ pos <= data_end(frame) /\ data_end(frame) \in Nat
<1>1. frame \in Frame /\ pos \in Nat /\ pos <= data_end(frame)
  BY Zenon DEF HelperInv, TypeOK, CursorInBounds
<1> QED
  BY <1>1, FrameWord

\* The headers of fixed size.
LEMMA FixedHelpers ==
  ASSUME HelperInv
  PROVE  /\ Fits(parse_icmp6hdr(pos)) /\ Fits(parse_icmphdr(pos))
         /\ Fits(parse_icmphdr_common(pos))
         /\ Fits(parse_ip6hdr(pos))
         /\ parse_ip6hdr(pos).ret # -1 => pos + IPV6_HLEN <= data_end(frame)
<1>0. frame \in Frame /\ pos \in Nat /\ pos <= data_end(frame) /\ data_end(frame) \in Nat
  BY CursorFacts
<1>1. /\ pos + ICMP_HLEN <= data_end(frame) => pos + 2 <= data_end(frame)
      /\ pos + ICMP_COMMON_HLEN <= data_end(frame) => pos + 2 <= data_end(frame)
      /\ pos + IPV6_HLEN <= data_end(frame) => (pos + 6) + 2 <= data_end(frame)
      /\ pos + 6 \in Nat
  BY <1>0 DEF ICMP_HLEN, ICMP_COMMON_HLEN, IPV6_HLEN
<1>2. ICMP_HLEN \in Nat /\ ICMP_COMMON_HLEN \in Nat /\ IPV6_HLEN \in Nat
  BY DEF ICMP_HLEN, ICMP_COMMON_HLEN, IPV6_HLEN
<1>3. pos + ICMP_HLEN <= data_end(frame) => Hi(frame[W(pos)]) \in Word
  BY <1>0, <1>1, WordAt, Zenon
<1>4. pos + ICMP_COMMON_HLEN <= data_end(frame) => Hi(frame[W(pos)]) \in Word
  BY <1>0, <1>1, WordAt, Zenon
<1>5. pos + IPV6_HLEN <= data_end(frame) => Hi(frame[W(pos + 6)]) \in Word
  BY <1>0, <1>1, WordAt, Zenon
<1>6. Fits(ParseFixed(pos, ICMP_HLEN, Hi(frame[W(pos)])))
  BY <1>0, <1>2, <1>3, FixedFits, Zenon
<1>7. Fits(ParseFixed(pos, ICMP_COMMON_HLEN, Hi(frame[W(pos)])))
  BY <1>0, <1>2, <1>4, FixedFits, Zenon
<1>8. /\ Fits(ParseFixed(pos, IPV6_HLEN, Hi(frame[W(pos + 6)])))
      /\ ParseFixed(pos, IPV6_HLEN, Hi(frame[W(pos + 6)])).ret # -1
           => pos + IPV6_HLEN <= data_end(frame)
  BY <1>0, <1>2, <1>5, FixedFits, Zenon
<1> QED
  BY <1>6, <1>7, <1>8, Zenon
  DEF parse_icmp6hdr, parse_icmphdr, parse_icmphdr_common, parse_ip6hdr

\* The headers that give their own length.
LEMMA VariableHelpers ==
  ASSUME HelperInv
  PROVE  /\ Fits(parse_udphdr(pos)) /\ Fits(parse_tcphdr(pos))
         /\ Fits(parse_iphdr(pos))
         /\ parse_iphdr(pos).ret # -1 => pos + IP_HLEN <= data_end(frame)
<1>0. frame \in Frame /\ pos \in Nat /\ pos <= data_end(frame) /\ data_end(frame) \in Nat
  BY CursorFacts
<1>m. -1 \in Result
  BY ResultFacts
<1>1. Fits(parse_udphdr(pos))
  <2> DEFINE len == frame[W(pos + 4)] - UDP_HLEN
             r == IF len < 0 THEN -1 ELSE len
  <2>1. CASE pos + UDP_HLEN > data_end(frame)
    <3>1. parse_udphdr(pos) = Parsed(pos, -1)
      BY <2>1, Zenon DEF parse_udphdr
    <3> QED
      BY <1>0, <1>m, <3>1, ParsedFits, Zenon
  <2>2. CASE ~ (pos + UDP_HLEN > data_end(frame))
    <3>1. parse_udphdr(pos) = Parsed(pos + UDP_HLEN, r)
      BY <2>2, Zenon DEF parse_udphdr
    <3>2. /\ pos + UDP_HLEN <= data_end(frame) /\ pos + UDP_HLEN \in Nat
          /\ (pos + 4) + 2 <= data_end(frame) /\ pos + 4 \in Nat
      BY <1>0, <2>2 DEF UDP_HLEN
    <3>3. frame[W(pos + 4)] \in Word
      BY <1>0, <3>2, WordAt, Zenon
    <3> DEFINE w == frame[W(pos + 4)]
    <3>w. w \in Int /\ 0 <= w /\ w <= U16_MAX
      BY <3>3, WordBounds, Zenon
    <3>4. r \in Result
      <4> HIDE DEF w
      <4>1. /\ w - UDP_HLEN \in Int /\ w - UDP_HLEN <= U16_MAX
            /\ ~ (w - UDP_HLEN < 0) => -1 <= w - UDP_HLEN
        BY <3>w DEF UDP_HLEN, U16_MAX
      <4>2. ~ (w - UDP_HLEN < 0) => w - UDP_HLEN \in Result
        BY <4>1, ResultBounds, Zenon
      <4> QED
        BY <1>m, <4>2, Zenon DEF w
    <3> HIDE DEF r
    <3> QED
      BY <3>1, <3>2, <3>4, ParsedFits, Zenon
  <2> QED
    BY <2>1, <2>2, Zenon
<1>2. Fits(parse_tcphdr(pos))
  <2> DEFINE len == 4 * (Hi(frame[W(pos + 12)]) \div 16)
             Bad == \/ pos + TCP_HLEN > data_end(frame) \/ len < TCP_HLEN
                    \/ pos + len > data_end(frame)
  <2>0. parse_tcphdr(pos) = IF Bad THEN Parsed(pos, -1) ELSE Parsed(pos + len, len)
    BY Zenon DEF parse_tcphdr
  <2>1. CASE Bad
    BY <1>0, <1>m, <2>0, <2>1, ParsedFits, Zenon
  <2>2. CASE ~ Bad
    <3>1. /\ ~ (pos + TCP_HLEN > data_end(frame))
          /\ ~ (pos + len > data_end(frame))
      BY <2>2, Zenon
    <3>2. (pos + 12) + 2 <= data_end(frame) /\ pos + 12 \in Nat
      BY <1>0, <3>1 DEF TCP_HLEN
    <3>3. Hi(frame[W(pos + 12)]) \in Word
      BY <1>0, <3>2, WordAt, Zenon
    <3> DEFINE h == Hi(frame[W(pos + 12)])
    <3>h. h \in Int /\ 0 <= h /\ h <= U16_MAX
      BY <3>3, WordBounds, Zenon
    <3>4. len \in Int /\ len >= 0 /\ len \in Result
      <4> HIDE DEF h
      <4>1. /\ 4 * (h \div 16) \in Int /\ 4 * (h \div 16) >= 0
            /\ -1 <= 4 * (h \div 16) /\ 4 * (h \div 16) <= U16_MAX
        BY <3>h DEF U16_MAX
      <4> QED
        BY <4>1, ResultBounds, Zenon DEF h
    <3> HIDE DEF len
    <3>5. pos + len \in Nat /\ pos + len <= data_end(frame)
      BY <1>0, <3>1, <3>4
    <3> QED
      BY <2>0, <2>2, <3>4, <3>5, ParsedFits, Zenon
  <2> QED
    BY <2>1, <2>2, Zenon
<1>3. /\ Fits(parse_iphdr(pos))
      /\ parse_iphdr(pos).ret # -1 => pos + IP_HLEN <= data_end(frame)
  <2> DEFINE size == 4 * (Hi(frame[W(pos)]) % 16)
             proto == Lo(frame[W(pos + 8)])
             Bad == \/ pos + IP_HLEN > data_end(frame) \/ size < IP_HLEN
                    \/ pos + size > data_end(frame)
  <2>0. parse_iphdr(pos) = IF Bad THEN Parsed(pos, -1) ELSE Parsed(pos + size, proto)
    BY Zenon DEF parse_iphdr
  <2>1. CASE Bad
    BY <1>0, <1>m, <2>0, <2>1, ParsedFits, ZenonT(60)
  <2>2. CASE ~ Bad
    <3>1. /\ ~ (pos + IP_HLEN > data_end(frame))
          /\ ~ (pos + size > data_end(frame))
      BY <2>2, Zenon
    <3>2. /\ pos + 2 <= data_end(frame) /\ pos + 8 \in Nat
          /\ (pos + 8) + 2 <= data_end(frame) /\ pos + IP_HLEN <= data_end(frame)
      BY <1>0, <3>1 DEF IP_HLEN
    <3>3. Hi(frame[W(pos)]) \in Nat /\ proto \in Result
      BY <1>0, <3>2, WordAt, ResultFacts, Zenon
    <3>4. size \in Int /\ size >= 0
      BY <3>3
    <3> HIDE DEF size, proto
    <3>5. pos + size \in Nat /\ pos + size <= data_end(frame)
      BY <1>0, <3>1, <3>4
    <3> QED
      BY <2>0, <2>2, <3>2, <3>3, <3>5, ParsedFits, Zenon
  <2> QED
    BY <2>1, <2>2, Zenon
<1> QED
  BY <1>1, <1>2, <1>3, Zenon

\* parse_ethhdr keeps the invariant.
LEMMA ParseEthKeeps ==
  ASSUME HelperInv, ParseEth
  PROVE  HelperInv'
<1>0. frame \in Frame /\ pos \in Nat /\ pos <= data_end(frame) /\ data_end(frame) \in Nat
  BY CursorFacts
<1>m. -1 \in Int /\ -1 \in Result /\ 0 + ETH_HLEN = ETH_HLEN
  BY ResultFacts DEF ETH_HLEN
<1> DEFINE r == parse_ethhdr(pos)
           k == Skipped(frame)
<1>1. layer = "eth" /\ Call("eth", r)
  BY Zenon DEF ParseEth, Call
<1>2. pos = 0
  BY <1>1, Zenon DEF HelperInv, CursorInv
<1>3. "eth" \in Layers
  BY DEF Layers
<1>4. pos' = r.pos /\ ret' = r.ret /\ layer' = Following("eth", r.ret)
  BY <1>1, Zenon DEF Call
<1>5. CASE ETH_HLEN > data_end(frame)
  <2>1. r = Parsed(pos, -1)
    BY <1>2, <1>5, <1>m, Zenon DEF parse_ethhdr
  <2> HIDE DEF r
  <2>2. Fits(r) /\ r.ret = -1
    BY <1>0, <1>m, <2>1, ParsedFits, Zenon
  <2>3. TypeOK' /\ CursorInBounds'
    BY <1>1, <1>3, <2>2, CallKeepsTypes, Zenon DEF HelperInv
  <2>4. layer' = "end"
    BY <1>3, <1>4, <1>m, <2>2, FollowingFacts, Zenon
  <2>5. CursorInv'
    BY <2>4 DEF CursorInv, Transport
  <2> QED
    BY <2>3, <2>5, Zenon DEF HelperInv
<1>6. CASE ~ (ETH_HLEN > data_end(frame))
  <2>1. Len(frame) >= 7
    <3>1. Len(frame) \in Nat /\ data_end(frame) = 2 * Len(frame)
      BY <1>0, FrameWord, Zenon
    <3> QED
      BY <1>6, <3>1 DEF ETH_HLEN
  <2>2. parse_ethhdr_vlan(frame, 0) = WalkAt(frame, k)
    BY <1>0, <2>1, WalkCounts, Zenon DEF Skipped
  <2>3. /\ k \in Nat /\ frame[7 + 2 * k] \in Word
        /\ ETH_HLEN + VLAN_HLEN * k <= data_end(frame)
    BY <1>0, <2>1, SkippedFacts, Zenon
  <2>4. r = Parsed(WalkAt(frame, k).pos, WalkAt(frame, k).proto)
    BY <1>2, <1>6, <1>m, <2>2, Zenon DEF parse_ethhdr
  <2>5. /\ WalkAt(frame, k).pos = ETH_HLEN + VLAN_HLEN * k
        /\ WalkAt(frame, k).proto = bpf_htons(frame[7 + 2 * k])
    BY DEF WalkAt
  <2> HIDE DEF r, k
  <2>6. ETH_HLEN + VLAN_HLEN * k \in Nat
    BY <2>3 DEF ETH_HLEN, VLAN_HLEN
  <2>7. /\ bpf_htons(frame[7 + 2 * k]) \in Result /\ bpf_htons(frame[7 + 2 * k]) # -1
        /\ bpf_htons(frame[7 + 2 * k]) \in Int
    <3> DEFINE x == bpf_htons(frame[7 + 2 * k])
    <3>1. x \in Word
      BY <2>3, HtonsTwice, Zenon
    <3> HIDE DEF x
    <3>2. x \in Int /\ 0 <= x
      BY <3>1, WordBounds, Zenon
    <3>3. x # -1
      BY <3>2
    <3> QED
      BY <3>1, <3>2, <3>3, ResultFacts, Zenon DEF x
  <2>8. /\ Fits(r) /\ r.pos = ETH_HLEN + VLAN_HLEN * k
        /\ r.ret = bpf_htons(frame[7 + 2 * k])
    <3>1. r = Parsed(ETH_HLEN + VLAN_HLEN * k, bpf_htons(frame[7 + 2 * k]))
      BY <2>4, <2>5, Zenon
    <3> QED
      BY <2>3, <2>6, <2>7, <3>1, ParsedFits, Zenon
  <2>9. TypeOK' /\ CursorInBounds' /\ frame' = frame
    BY <1>1, <1>3, <2>8, CallKeepsTypes, Zenon DEF HelperInv
  <2>10. layer' = "l3"
    <3>1. r.ret \in Int /\ r.ret # -1
      BY <2>7, <2>8, Zenon
    <3> QED
      BY <1>3, <1>4, <3>1, FollowingFacts, Zenon
  <2>11. AtNetwork'
    BY <1>4, <2>1, <2>8, <2>9, Zenon DEF AtNetwork, k
  <2>12. CursorInv'
    BY <2>10, <2>11 DEF CursorInv, Transport
  <2> QED
    BY <2>9, <2>12, Zenon DEF HelperInv
<1> QED
  BY <1>5, <1>6, Zenon

-----------------------------------------------------------------------------
\* Depth depends on the words from the first type to the last.
LEMMA SameDepth ==
  ASSUME NEW f \in Frame, NEW g \in Frame, Len(g) = Len(f), Len(f) >= 7,
         \A k \in 7..(7 + 2 * Depth(f)) : g[k] = f[k]
  PROVE  Depth(g) = Depth(f)
<1> DEFINE d == Depth(f)
<1>1. d \in Nat /\ Tagged(f, d) /\ ~ Tagged(f, d + 1)
  BY DepthIs, Zenon
<1>2. \A k \in 7..(7 + 2 * d) : g[k] = f[k]
  BY Zenon
<1>3. data_end(g) = data_end(f)
  BY Zenon DEF data_end
<1> HIDE DEF d
<1>4. \A j \in 1..(d + 1) : 5 + 2 * j \in 7..(7 + 2 * d)
  BY <1>1
<1>5. \A j \in 1..d : j \in 1..(d + 1)
  BY <1>1
<1>6. Tagged(g, d)
  BY <1>1, <1>2, <1>3, <1>4, <1>5, Zenon DEF Tagged
<1>7. ~ Tagged(g, d + 1)
  BY <1>1, <1>2, <1>3, <1>4, Zenon DEF Tagged
<1>8. Depth(g) = d
  BY <1>1, <1>6, <1>7, DepthUnique, Zenon
<1> QED
  BY <1>8, Zenon DEF d

\* The words of an address of the network header, and where the first one is.
AddrLen(f) == IF f[7 + 2 * Depth(f)] = ETH_P_IP THEN 2 ELSE 8
AddrAt(f) == 7 + 2 * Depth(f) + IF f[7 + 2 * Depth(f)] = ETH_P_IP THEN 7 ELSE 5

\* Both addresses are behind the type and within the frame, where the helpers look
\* for them.
LEMMA AddrFacts ==
  ASSUME NEW f \in Frame, NEW p, Addressed(f, p)
  PROVE  /\ AddrLen(f) \in Nat /\ AddrAt(f) \in Nat /\ Depth(f) \in Nat
         /\ AddrLen(f) >= 2 /\ AddrAt(f) >= 12 + 2 * Depth(f)
         /\ AddrAt(f) + 2 * AddrLen(f) - 1 <= Len(f) /\ W(p - 2) = 7 + 2 * Depth(f)
         /\ f[7 + 2 * Depth(f)] = ETH_P_IP =>
              W(p + 12) = AddrAt(f) /\ W(p + 16) = AddrAt(f) + AddrLen(f) /\ AddrLen(f) = 2
         /\ f[7 + 2 * Depth(f)] = ETH_P_IPV6 =>
              W(p + 8) = AddrAt(f) /\ W(p + 24) = AddrAt(f) + AddrLen(f) /\ AddrLen(f) = 8
<1> DEFINE d == Depth(f)
           t == f[7 + 2 * Depth(f)]
           n == AddrLen(f)
           a == AddrAt(f)
<1>0. Len(f) \in Nat /\ data_end(f) = 2 * Len(f)
  BY FrameWord, Zenon
<1>1. /\ Len(f) >= 7 /\ p = ETH_HLEN + VLAN_HLEN * d
      /\ \/ t = ETH_P_IP /\ p + IP_HLEN <= data_end(f)
         \/ t = ETH_P_IPV6 /\ p + IPV6_HLEN <= data_end(f)
  BY Zenon DEF Addressed
<1>2. d \in Nat
  BY <1>1, DepthIs, Zenon
<1>3. n = IF t = ETH_P_IP THEN 2 ELSE 8
  BY Zenon DEF AddrLen
<1>4. a = 7 + 2 * d + IF t = ETH_P_IP THEN 7 ELSE 5
  BY Zenon DEF AddrAt
<1>5. ETH_P_IP # ETH_P_IPV6
  BY DEF ETH_P_IP, ETH_P_IPV6
<1> HIDE DEF d, t, n, a
<1>6. p = 14 + 4 * d
  BY <1>1 DEF ETH_HLEN, VLAN_HLEN
<1>7. W(p - 2) = 7 + 2 * d
  BY <1>2, <1>6 DEF W
<1>8. CASE t = ETH_P_IP
  <2>1. n = 2 /\ a = 14 + 2 * d
    BY <1>2, <1>3, <1>4, <1>8
  <2>2. p + IP_HLEN <= data_end(f)
    BY <1>1, <1>5, <1>8, Zenon
  <2>3. W(p + 12) = a /\ W(p + 16) = a + n
    BY <1>2, <1>6, <2>1 DEF W
  <2>4. a + 2 * n - 1 <= Len(f) /\ n \in Nat /\ a \in Nat /\ n >= 2 /\ a >= 12 + 2 * d
    BY <1>0, <1>2, <1>6, <2>1, <2>2 DEF IP_HLEN
  <2> QED
    BY <1>2, <1>5, <1>7, <1>8, <2>1, <2>3, <2>4, Zenon DEF d, t, n, a
<1>9. CASE t # ETH_P_IP
  <2>1. n = 8 /\ a = 12 + 2 * d
    BY <1>2, <1>3, <1>4, <1>9
  <2>2. p + IPV6_HLEN <= data_end(f)
    BY <1>1, <1>9, Zenon
  <2>3. W(p + 8) = a /\ W(p + 24) = a + n
    BY <1>2, <1>6, <2>1 DEF W
  <2>4. a + 2 * n - 1 <= Len(f) /\ n \in Nat /\ a \in Nat /\ n >= 2 /\ a >= 12 + 2 * d
    BY SMTT(40), <1>0, <1>2, <1>6, <2>1, <2>2 DEF IPV6_HLEN
  <2> QED
    BY <1>2, <1>7, <1>9, <2>1, <2>3, <2>4, Zenon DEF d, t, n, a
<1> QED
  BY <1>8, <1>9, Zenon

\* Swapping the addresses of the network header, word by word.
LEMMA SwapAddrsWords ==
  ASSUME NEW f \in Frame, NEW p, Addressed(f, p)
  PROVE  /\ SwapAddrs(f) = SwapWords(f, AddrAt(f), AddrAt(f) + AddrLen(f), AddrLen(f))
         /\ SwapAddrs(f) \in Frame /\ Len(SwapAddrs(f)) = Len(f)
         /\ \A k \in 1..Len(f) :
              SwapAddrs(f)[k] =
                IF k \in AddrAt(f)..(AddrAt(f) + AddrLen(f) - 1) THEN f[k + AddrLen(f)]
                ELSE IF k \in (AddrAt(f) + AddrLen(f))..(AddrAt(f) + 2 * AddrLen(f) - 1)
                THEN f[k - AddrLen(f)] ELSE f[k]
<1> DEFINE n == AddrLen(f)
           a == AddrAt(f)
           s == SwapAddrs(f)
           w == SwapWords(f, a, a + n, n)
<1>1. n \in Nat /\ a \in Nat /\ a >= 12 + 2 * Depth(f) /\ Depth(f) \in Nat
      /\ a + 2 * n - 1 <= Len(f) /\ Len(f) \in Nat
  BY AddrFacts, FrameWord, Zenon
<1>2. s = [k \in 1..Len(f) |-> IF k \in a..(a + n - 1) THEN f[k + n]
                               ELSE IF k \in (a + n)..(a + 2 * n - 1) THEN f[k - n]
                               ELSE f[k]]
  BY Zenon DEF SwapAddrs, AddrAt, AddrLen
<1>3. w = [k \in 1..Len(f) |-> IF k \in a..(a + n - 1) THEN f[k - a + (a + n)]
                               ELSE IF k \in (a + n)..(a + n + n - 1) THEN f[k - (a + n) + a]
                               ELSE f[k]]
  BY Zenon DEF SwapWords
<1> HIDE DEF n, a, s, w
<1>4. a + n + n - 1 = a + 2 * n - 1
  BY <1>1
<1>5. \A k \in 1..Len(f) : k - a + (a + n) = k + n /\ k - (a + n) + a = k - n
  BY <1>1
<1>6. s = w
  BY <1>2, <1>3, <1>4, <1>5, Zenon
<1>7. a >= 1 /\ a + n >= 1 /\ a + n \in Nat /\ a + n - 1 <= Len(f) /\ (a + n) + n - 1 <= Len(f)
  BY <1>1
<1>8. w \in Frame /\ Len(w) = Len(f)
  <2> DEFINE b == a + n
  <2>1. /\ w = SwapWords(f, a, b, n) /\ b \in Nat /\ a \in Nat /\ n \in Nat
        /\ a >= 1 /\ b >= 1 /\ a + n - 1 <= Len(f) /\ b + n - 1 <= Len(f)
    BY <1>1, <1>7, Zenon DEF w
  <2> HIDE DEF b
  <2> QED
    BY <2>1, SwapWordsFacts
<1>9. \A k \in 1..Len(f) : s[k] = IF k \in a..(a + n - 1) THEN f[k + n]
                               ELSE IF k \in (a + n)..(a + 2 * n - 1) THEN f[k - n]
                               ELSE f[k]
  BY <1>2, Zenon
<1> QED
  BY <1>6, <1>8, <1>9, Zenon DEF n, a, s, w

\* swap_src_dst_mac, which does not start over, keeps the invariant: the tags are as
\* they were.
LEMMA SwapMacKeeps ==
  ASSUME HelperInv, swap_src_dst_mac
  PROVE  HelperInv'
<1> DEFINE f == frame
           g == SwapMacs(frame)
           k == Skipped(frame)
<1>1. /\ layer = "l3" /\ frame' = g
      /\ turned' = (turned \ {"mac"}) \cup ({"mac"} \ turned)
      /\ UNCHANGED <<orig, pushed, popped, room, pos, l3, layer, ret>>
  BY Zenon DEF swap_src_dst_mac, Turn
<1>2. f \in Frame /\ AtNetwork
  BY <1>1, Zenon DEF HelperInv, TypeOK, CursorInv
<1>3. Len(f) >= 7 /\ pos = ETH_HLEN + VLAN_HLEN * k /\ ret = bpf_htons(f[7 + 2 * k])
  BY <1>2, Zenon DEF AtNetwork
<1>4. Len(f) \in Nat /\ Len(f) >= 6
  BY <1>2, <1>3, FrameWord
<1>5. /\ g \in Frame /\ Len(g) = Len(f)
      /\ \A i \in 1..Len(f) : i >= 7 => g[i] = f[i]
  BY <1>2, <1>4, SwapMacsWords, Zenon
<1>6. /\ Depth(f) \in Nat /\ 7 + 2 * Depth(f) <= Len(f)
      /\ k \in Nat /\ 7 + 2 * k \in 1..Len(f)
  <2>1. /\ Depth(f) \in Nat /\ Tagged(f, Depth(f)) /\ data_end(f) = 2 * Len(f)
        /\ k \in Nat /\ 7 + 2 * k \in 1..Len(f)
    BY <1>2, <1>3, DepthIs, SkippedFacts, FrameWord, Zenon
  <2>2. 2 * (7 + 2 * Depth(f)) <= data_end(f)
    BY <2>1, Zenon DEF Tagged
  <2>3. 7 + 2 * Depth(f) <= Len(f)
    BY SMTT(40), <1>4, <2>1, <2>2
  <2> QED
    BY <2>1, <2>3, Zenon
<1> HIDE DEF g, k
<1>7. Depth(g) = Depth(f)
  <2>1. \A i \in 7..(7 + 2 * Depth(f)) : i \in 1..Len(f) /\ i >= 7
    BY <1>4, <1>6
  <2>2. \A i \in 7..(7 + 2 * Depth(f)) : g[i] = f[i]
    BY <1>5, <2>1, Zenon
  <2> QED
    BY <1>2, <1>3, <1>5, <2>2, SameDepth, Zenon
<1>8. Skipped(g) = k /\ g[7 + 2 * k] = f[7 + 2 * k]
  <2>1. 7 + 2 * k >= 7
    BY <1>6
  <2> QED
    BY <1>5, <1>6, <1>7, <2>1, Zenon DEF k, Skipped
<1>9. AtNetwork'
  BY <1>1, <1>3, <1>5, <1>8, Zenon DEF AtNetwork
<1>10. TypeOK'
  <2>1. turned' \subseteq {"mac", "ip"}
    BY <1>1, Zenon DEF HelperInv, TypeOK
  <2> QED
    BY <1>1, <1>5, <2>1, Zenon DEF HelperInv, TypeOK
<1>11. CursorInBounds'
  BY <1>1, <1>5, Zenon DEF HelperInv, CursorInBounds, data_end
<1>12. CursorInv'
  <2>1. layer' = "l3"
    BY <1>1, Zenon
  <2> QED
    BY <1>9, <2>1 DEF CursorInv, Transport
<1> QED
  BY <1>10, <1>11, <1>12, Zenon DEF HelperInv

\* A rewrite starts the walk over.
LEMMA StartOver ==
  ASSUME NEW f \in Frame, Rewritten(f, ret'), TypeOK'
  PROVE  HelperInv'
<1>1. frame' = f /\ pos' = 0 /\ layer' = "eth"
  BY Zenon DEF Rewritten
<1>2. CursorInBounds'
  <2>1. 0 <= data_end(f)
    BY FrameWord
  <2> QED
    BY <1>1, <2>1, Zenon DEF CursorInBounds, data_end
<1>3. CursorInv'
  BY <1>1 DEF CursorInv, Transport
<1> QED
  BY <1>2, <1>3, Zenon DEF HelperInv

\* swap_src_dst_ipv4 and swap_src_dst_ipv6, called with the l3 that was parsed, swap
\* the addresses of the header behind all tags.
LEMMA SwapIpSwapsAddrs ==
  ASSUME HelperInv, swap_src_dst_ipv4 \/ swap_src_dst_ipv6
  PROVE  /\ frame' = SwapAddrs(frame) /\ Rewritten(SwapAddrs(frame), 0)
         /\ Addressed(frame, l3) /\ frame \in Frame
         /\ turned' = (turned \ {"ip"}) \cup ({"ip"} \ turned)
         /\ UNCHANGED <<orig, pushed, popped, room, l3>>
<1> DEFINE f == frame
           t == frame[7 + 2 * Depth(frame)]
<1>1. layer \in Transport
  BY Zenon DEF swap_src_dst_ipv4, swap_src_dst_ipv6, SwapIp, Transport
<1>2. f \in Frame /\ Addressed(f, l3)
  BY <1>1, Zenon DEF HelperInv, TypeOK, CursorInv
<1>3. /\ W(l3 - 2) = 7 + 2 * Depth(f)
      /\ t = ETH_P_IP =>
           W(l3 + 12) = AddrAt(f) /\ W(l3 + 16) = AddrAt(f) + AddrLen(f) /\ AddrLen(f) = 2
      /\ t = ETH_P_IPV6 =>
           W(l3 + 8) = AddrAt(f) /\ W(l3 + 24) = AddrAt(f) + AddrLen(f) /\ AddrLen(f) = 8
  BY <1>2, AddrFacts, Zenon
<1>4. SwapAddrs(f) = SwapWords(f, AddrAt(f), AddrAt(f) + AddrLen(f), AddrLen(f))
  BY <1>2, SwapAddrsWords, Zenon
<1>5. t = ETH_P_IP => SwapIpv4(f, l3) = SwapAddrs(f)
  BY <1>3, <1>4, Zenon DEF SwapIpv4
<1>6. t = ETH_P_IPV6 => SwapIpv6(f, l3) = SwapAddrs(f)
  BY <1>3, <1>4, Zenon DEF SwapIpv6
<1>7. /\ swap_src_dst_ipv4 => t = ETH_P_IP
      /\ swap_src_dst_ipv6 => t = ETH_P_IPV6
  BY <1>3, Zenon DEF swap_src_dst_ipv4, swap_src_dst_ipv6, SwapIp
<1>8. Rewritten(SwapAddrs(f), 0)
  BY <1>5, <1>6, <1>7, Zenon DEF swap_src_dst_ipv4, swap_src_dst_ipv6, SwapIp
<1> QED
  BY <1>2, <1>8, Zenon DEF swap_src_dst_ipv4, swap_src_dst_ipv6, SwapIp, Turn, Rewritten

\* They keep the invariant.
LEMMA SwapIpKeeps ==
  ASSUME HelperInv, swap_src_dst_ipv4 \/ swap_src_dst_ipv6
  PROVE  HelperInv'
<1>1. /\ frame' = SwapAddrs(frame) /\ Rewritten(SwapAddrs(frame), 0)
      /\ Addressed(frame, l3) /\ frame \in Frame
      /\ turned' = (turned \ {"ip"}) \cup ({"ip"} \ turned)
      /\ UNCHANGED <<orig, pushed, popped, room, l3>>
  BY SwapIpSwapsAddrs
<1>2. SwapAddrs(frame) \in Frame
  BY <1>1, SwapAddrsWords, Zenon
<1>3. ret' = 0 /\ pos' = 0 /\ layer' = "eth"
  BY <1>1, Zenon DEF Rewritten
<1>4. 0 \in Nat /\ 0 \in Result /\ "eth" \in Layers
  BY ResultFacts DEF Layers
<1>5. turned' \subseteq {"mac", "ip"}
  BY <1>1, Zenon DEF HelperInv, TypeOK
<1>6. TypeOK'
  BY <1>1, <1>2, <1>3, <1>4, <1>5, Zenon DEF HelperInv, TypeOK
<1>7. Rewritten(SwapAddrs(frame), ret')
  BY <1>1, <1>3, Zenon
<1> QED
  BY <1>2, <1>6, <1>7, StartOver, Zenon

\* A rewrite that fails ends the walk.
LEMMA GivingUp ==
  ASSUME HelperInv, ret' = -1, layer' = "end",
         UNCHANGED <<orig, pushed, popped, turned, frame, room, pos, l3>>
  PROVE  HelperInv'
<1>1. -1 \in Result /\ "end" \in Layers
  BY ResultFacts DEF Layers
<1>2. TypeOK'
  BY <1>1, Zenon DEF HelperInv, TypeOK
<1>3. CursorInBounds'
  BY Zenon DEF HelperInv, CursorInBounds, data_end
<1>4. CursorInv'
  BY DEF CursorInv, Transport
<1> QED
  BY <1>2, <1>3, <1>4, Zenon DEF HelperInv

\* The pushed tags without the last one.
LEMMA ButLast ==
  ASSUME NEW s \in Seq(Vlids), s # <<>>
  PROVE  /\ SubSeq(s, 1, Len(s) - 1) \in Seq(Vlids)
         /\ Len(s) \in Nat /\ Len(SubSeq(s, 1, Len(s) - 1)) = Len(s) - 1
         /\ s[Len(s)] \in Vlids
         /\ s = Append(SubSeq(s, 1, Len(s) - 1), s[Len(s)])
<1> DEFINE n == Len(s)
           t == SubSeq(s, 1, n - 1)
           u == Append(t, s[n])
<1>1. n \in Nat /\ n >= 1 /\ \A i \in 1..n : s[i] \in Vlids
  BY EmptySeq, LenProperties
<1> HIDE DEF n
<1>2. /\ 1 \in Int /\ n - 1 \in Int /\ (\A i \in 1..(n - 1) : i \in 1..n) /\ n \in 1..n
      /\ (IF 1 <= n - 1 THEN (n - 1) - 1 + 1 ELSE 0) = n - 1
      /\ (n - 1) - 1 + 1 = n - 1 /\ \A i \in 1..(n - 1) : 1 + i - 1 = i
  BY <1>1
<1>3. \A i \in 1..(n - 1) : s[i] \in Vlids
  BY <1>1, <1>2, Zenon
<1>4. /\ t \in Seq(Vlids) /\ Len(t) = (IF 1 <= n - 1 THEN (n - 1) - 1 + 1 ELSE 0)
      /\ \A i \in 1..((n - 1) - 1 + 1) : t[i] = s[1 + i - 1]
  BY <1>2, <1>3, SubSeqProperties
<1>5. Len(t) = n - 1 /\ \A i \in 1..(n - 1) : t[i] = s[i]
  BY <1>2, <1>4, Zenon
<1> HIDE DEF t
<1>6. /\ u \in Seq(Vlids) /\ Len(u) = Len(t) + 1
      /\ (\A i \in 1..Len(t) : u[i] = t[i]) /\ u[Len(t) + 1] = s[n]
  <2>1. t \in Seq(Vlids) /\ s[n] \in Vlids
    BY <1>1, <1>2, <1>4, Zenon
  <2> DEFINE e == s[n]
  <2> HIDE DEF e
  <2>2. t \in Seq(Vlids) /\ e \in Vlids /\ u = Append(t, e)
    BY <2>1, Zenon DEF e
  <2> HIDE DEF u
  <2>3. /\ u \in Seq(Vlids) /\ Len(u) = Len(t) + 1
        /\ (\A i \in 1..Len(t) : u[i] = t[i]) /\ u[Len(t) + 1] = e
    BY <2>2, AppendProperties
  <2> QED
    BY <2>3, Zenon DEF e
<1> HIDE DEF u
<1>7. (n - 1) + 1 = n /\ \A i \in 1..n : i \in 1..(n - 1) \/ i = n
  BY <1>1
<1>8. Len(u) = Len(s) /\ \A i \in 1..Len(s) : s[i] = u[i]
  BY <1>5, <1>6, <1>7, Zenon DEF n
<1>9. s = u
  BY <1>6, <1>8, SeqEqual, Zenon
<1> QED
  BY <1>1, <1>2, <1>4, <1>5, <1>9, Zenon DEF n, t, u

\* What vlan_tag_pop does when it succeeds.
LEMMA PopDoes ==
  ASSUME HelperInv, vlan_tag_pop, ret' # -1
  PROVE  /\ frame \in Frame /\ Len(frame) \in Nat /\ Len(frame) >= 9
         /\ Rewritten(Untag(frame), ret') /\ ret' = frame[W(ETH_HLEN)]
         /\ room' = room + VLAN_HLEN /\ popped' = (popped \/ pushed = <<>>)
         /\ pushed' = IF pushed = <<>> THEN <<>> ELSE SubSeq(pushed, 1, Len(pushed) - 1)
         /\ UNCHANGED <<orig, turned, l3>>
<1>1. frame \in Frame
  BY Zenon DEF HelperInv, TypeOK
<1>2. Len(frame) \in Nat /\ data_end(frame) = 2 * Len(frame)
  BY <1>1, FrameWord, Zenon
<1>3. ETH_HLEN + VLAN_HLEN <= data_end(frame)
  BY Zenon DEF vlan_tag_pop
<1>4. Len(frame) >= 9
  BY <1>2, <1>3 DEF ETH_HLEN, VLAN_HLEN
<1> QED
  BY <1>1, <1>2, <1>4, Zenon DEF vlan_tag_pop, Rewritten

\* It returns -1 only if it did nothing: no tag's control information is -1.
LEMMA PopRefused ==
  ASSUME HelperInv, vlan_tag_pop, ret' = -1
  PROVE  layer' = "end" /\ UNCHANGED <<orig, pushed, popped, turned, frame, room, pos, l3>>
<1>1. frame \in Frame
  BY Zenon DEF HelperInv, TypeOK
<1>2. Len(frame) \in Nat /\ data_end(frame) = 2 * Len(frame)
  BY <1>1, FrameWord, Zenon
<1>3. ~ (ETH_HLEN + VLAN_HLEN <= data_end(frame) /\ ret' = frame[W(ETH_HLEN)])
  <2> SUFFICES ASSUME ETH_HLEN + VLAN_HLEN <= data_end(frame), ret' = frame[W(ETH_HLEN)]
               PROVE  FALSE
    BY Zenon
  <2>1. ETH_HLEN + 2 <= data_end(frame) /\ ETH_HLEN \in Nat
    BY <1>2 DEF ETH_HLEN, VLAN_HLEN
  <2>2. frame[W(ETH_HLEN)] \in Nat
    BY <1>1, <2>1, WordAt, Zenon
  <2>3. -1 \notin Nat
    OBVIOUS
  <2> QED
    BY <2>2, <2>3, Zenon
<1> QED
  BY <1>3, Zenon DEF vlan_tag_pop, Rewritten

\* vlan_tag_pop keeps the invariant.
LEMMA PopKeeps ==
  ASSUME HelperInv, vlan_tag_pop
  PROVE  HelperInv'
<1>1. CASE ret' = -1
  <2>4. layer' = "end" /\ UNCHANGED <<orig, pushed, popped, turned, frame, room, pos, l3>>
    BY <1>1, PopRefused, Zenon
  <2> QED
    BY <1>1, <2>4, GivingUp, Zenon
<1>2. CASE ret' # -1
  <2>1. /\ frame \in Frame /\ Len(frame) \in Nat /\ Len(frame) >= 9
        /\ Rewritten(Untag(frame), ret') /\ ret' = frame[W(ETH_HLEN)]
        /\ room' = room + VLAN_HLEN /\ popped' = (popped \/ pushed = <<>>)
        /\ pushed' = IF pushed = <<>> THEN <<>> ELSE SubSeq(pushed, 1, Len(pushed) - 1)
        /\ UNCHANGED <<orig, turned, l3>>
    BY <1>2, PopDoes
  <2>2. Untag(frame) \in Frame
    <3>1. Len(frame) >= 8
      BY <2>1
    <3> QED
      BY <2>1, <3>1, UntagWords, Zenon
  <2>3. ret' \in Result
    <3>1. ETH_HLEN + 2 <= data_end(frame) /\ ETH_HLEN \in Nat
      BY <2>1, FrameWord DEF ETH_HLEN
    <3>2. frame[W(ETH_HLEN)] \in Word
      BY <2>1, <3>1, WordAt, Zenon
    <3> QED
      BY <2>1, <3>2, ResultFacts, Zenon
  <2>4. pushed' \in Seq(Vlids)
    <3>1. pushed \in Seq(Vlids)
      BY Zenon DEF HelperInv, TypeOK
    <3> QED
      BY <2>1, <3>1, ButLast, Zenon
  <2>5. room' \in Nat
    <3>1. room \in Nat
      BY Zenon DEF HelperInv, TypeOK
    <3> QED
      BY <2>1, <3>1 DEF VLAN_HLEN
  <2>6. popped' \in BOOLEAN
    BY <2>1, Zenon DEF HelperInv, TypeOK
  <2>7. frame' = Untag(frame) /\ pos' = 0 /\ layer' = "eth"
    BY <2>1, Zenon DEF Rewritten
  <2>8. 0 \in Nat /\ "eth" \in Layers
    BY DEF Layers
  <2>9. TypeOK'
    BY <2>1, <2>2, <2>3, <2>4, <2>5, <2>6, <2>7, <2>8, ZenonT(60) DEF HelperInv, TypeOK
  <2> QED
    BY <2>1, <2>2, <2>9, StartOver, Zenon
<1> QED
  BY <1>1, <1>2, Zenon

\* What vlan_tag_push does: all of it or nothing.
LEMMA PushDoes ==
  ASSUME HelperInv, NEW vlid \in Vlids, vlan_tag_push(vlid)
  PROVE  /\ frame \in Frame /\ Len(frame) \in Nat /\ Len(frame) >= 7 /\ vlid \in Int
         /\ UNCHANGED <<orig, popped, turned, l3>>
         /\ \/ /\ Rewritten(Tag(frame, vlid), ret') /\ ret' = 0
               /\ room' = room - VLAN_HLEN /\ room >= VLAN_HLEN
               /\ pushed' = Append(pushed, vlid)
            \/ ret' = -1 /\ layer' = "end" /\ UNCHANGED <<pushed, frame, room, pos>>
<1>1. frame \in Frame /\ layer = "l3"
  BY Zenon DEF HelperInv, TypeOK, vlan_tag_push
<1>2. Len(frame) \in Nat /\ Len(frame) >= 7
  BY <1>1, FrameWord, Zenon DEF HelperInv, CursorInv, AtNetwork
<1>3. vlid \in Int
  BY VlidsAssumption, Zenon
<1> QED
  BY <1>1, <1>2, <1>3, Zenon DEF vlan_tag_push, Rewritten

\* vlan_tag_push keeps the invariant.
LEMMA PushKeeps ==
  ASSUME HelperInv, NEW vlid \in Vlids, vlan_tag_push(vlid)
  PROVE  HelperInv'
<1>1. /\ frame \in Frame /\ Len(frame) \in Nat /\ Len(frame) >= 7 /\ vlid \in Int
      /\ UNCHANGED <<orig, popped, turned, l3>>
      /\ \/ /\ Rewritten(Tag(frame, vlid), ret') /\ ret' = 0
            /\ room' = room - VLAN_HLEN /\ room >= VLAN_HLEN
            /\ pushed' = Append(pushed, vlid)
         \/ ret' = -1 /\ layer' = "end" /\ UNCHANGED <<pushed, frame, room, pos>>
  BY PushDoes
<1>2. CASE ret' = -1 /\ layer' = "end" /\ UNCHANGED <<pushed, frame, room, pos>>
  <2>1. UNCHANGED <<orig, pushed, popped, turned, frame, room, pos, l3>>
    BY <1>1, <1>2, Zenon
  <2> QED
    BY <1>2, <2>1, GivingUp, Zenon
<1>3. CASE /\ Rewritten(Tag(frame, vlid), ret') /\ ret' = 0
           /\ room' = room - VLAN_HLEN /\ room >= VLAN_HLEN
           /\ pushed' = Append(pushed, vlid)
  <2>1. Tag(frame, vlid) \in Frame
    <3>1. Len(frame) >= 6
      BY <1>1
    <3> QED
      BY <1>1, <3>1, TagWords, Zenon
  <2>2. pushed' \in Seq(Vlids)
    <3>1. pushed \in Seq(Vlids)
      BY Zenon DEF HelperInv, TypeOK
    <3> QED
      BY <1>3, <3>1
  <2>3. room' \in Nat
    <3>1. room \in Nat
      BY Zenon DEF HelperInv, TypeOK
    <3> QED
      BY SMTT(40), <1>3, <3>1 DEF VLAN_HLEN
  <2>4. frame' = Tag(frame, vlid) /\ pos' = 0 /\ layer' = "eth"
    BY <1>3, Zenon DEF Rewritten
  <2>5. 0 \in Nat /\ 0 \in Result /\ "eth" \in Layers
    BY ResultFacts DEF Layers
  <2>6. TypeOK'
    BY <1>1, <1>3, <2>1, <2>2, <2>3, <2>4, <2>5, ZenonT(60) DEF HelperInv, TypeOK
  <2> QED
    BY <1>3, <2>1, <2>6, StartOver, Zenon
<1> QED
  BY <1>1, <1>2, <1>3, Zenon

\* The invariant holds of a packet as received.
LEMMA HelperInit == Init => HelperInv
<1> SUFFICES ASSUME Init PROVE HelperInv
  BY Zenon
<1>1. /\ orig \in Frame /\ frame = orig /\ pushed = <<>> /\ popped = FALSE /\ turned = {}
      /\ room = Headroom /\ pos = 0 /\ l3 = 0 /\ layer = "eth" /\ ret = 0
  BY InputsAssumption, Zenon DEF Init
<1>2. TypeOK
  <2>1. 0 \in Nat /\ 0 \in Result /\ "eth" \in Layers /\ Headroom \in Nat /\ <<>> \in Seq(Vlids)
    BY BoundsAssumption, ResultFacts DEF Layers
  <2> QED
    BY <1>1, <2>1, Zenon DEF TypeOK
<1>3. CursorInBounds
  BY SMTT(40), <1>1, FrameWord DEF CursorInBounds
<1>4. CursorInv
  BY <1>1 DEF CursorInv, Transport
<1> QED
  BY <1>2, <1>3, <1>4, Zenon DEF HelperInv

\* Every call of a helper keeps it.
LEMMA HelperNext == HelperInv /\ [Next]_vars => HelperInv'
<1> SUFFICES ASSUME HelperInv, [Next]_vars PROVE HelperInv'
  BY Zenon
<1>0. "icmp" \in Transport /\ "icmp6" \in Transport /\ "udp" \in Transport /\ "tcp" \in Transport
  BY Zenon DEF Transport
<1>1. CASE ParseEth
  BY <1>1, ParseEthKeeps, Zenon
<1>2. CASE ParseIp
  <2>1. ret = bpf_htons(ETH_P_IP) /\ Call("l3", parse_iphdr(pos))
    BY <1>2, Zenon DEF ParseIp
  <2>2. /\ Fits(parse_iphdr(pos))
        /\ parse_iphdr(pos).ret # -1 => pos + IP_HLEN <= data_end(frame)
    BY VariableHelpers, Zenon
  <2> QED
    BY <2>1, <2>2, NetworkCall, Zenon
<1>3. CASE ParseIp6
  <2>1. ret = bpf_htons(ETH_P_IPV6) /\ Call("l3", parse_ip6hdr(pos))
    BY <1>3, Zenon DEF ParseIp6
  <2>2. /\ Fits(parse_ip6hdr(pos))
        /\ parse_ip6hdr(pos).ret # -1 => pos + IPV6_HLEN <= data_end(frame)
    BY FixedHelpers, Zenon
  <2> QED
    BY <2>1, <2>2, NetworkCall, Zenon
<1>4. CASE ParseIcmp6
  BY <1>0, <1>4, FixedHelpers, TransportCall, Zenon DEF ParseIcmp6
<1>5. CASE ParseIcmp
  BY <1>0, <1>5, FixedHelpers, TransportCall, Zenon DEF ParseIcmp
<1>6. CASE ParseIcmpCommon
  <2>1. layer \in Transport /\ Call(layer, parse_icmphdr_common(pos))
    BY <1>6, Zenon DEF ParseIcmpCommon, Transport
  <2> QED
    BY <2>1, FixedHelpers, TransportCall, Zenon
<1>7. CASE ParseUdp
  BY <1>0, <1>7, VariableHelpers, TransportCall, Zenon DEF ParseUdp
<1>8. CASE ParseTcp
  BY <1>0, <1>8, VariableHelpers, TransportCall, Zenon DEF ParseTcp
<1>9. CASE swap_src_dst_mac
  BY <1>9, SwapMacKeeps, Zenon
<1>10. CASE swap_src_dst_ipv4 \/ swap_src_dst_ipv6
  BY <1>10, SwapIpKeeps, Zenon
<1>11. CASE vlan_tag_pop
  BY <1>11, PopKeeps, Zenon
<1>12. CASE \E vlid \in Vlids : vlan_tag_push(vlid)
  BY <1>12, PushKeeps, Zenon
<1>13. CASE UNCHANGED vars
  <2>1. UNCHANGED <<orig, pushed, popped, turned, frame, room, pos, l3, layer, ret>>
    BY <1>13, Zenon DEF vars
  <2> QED
    BY <2>1, Zenon DEF HelperInv, TypeOK, CursorInBounds, CursorInv, AtNetwork
<1> QED
  BY <1>1, <1>2, <1>3, <1>4, <1>5, <1>6, <1>7, <1>8, <1>9, <1>10, <1>11, <1>12, <1>13, ZenonT(60)
  DEF Next

\* The invariant holds after any chain of calls.
LEMMA HelperInvHolds == Spec => []HelperInv
BY HelperInit, HelperNext, PTL DEF Spec

\* Whatever helpers a program chains, on any packet, its variables keep their types;
\* in particular every rewritten packet is made of 16-bit words.
THEOREM HelpersTypeOK == Spec => []TypeOK
<1>1. HelperInv => TypeOK
  BY Zenon DEF HelperInv
<1> QED
  BY <1>1, HelperInvHolds, PTL

\* However the helpers of parsing_helpers.h and rewrite_helpers.h are chained, for
\* any packet, headroom and VLAN_MAX_DEPTH, nh->pos never passes data_end.
THEOREM CursorStaysInBounds == Spec => []CursorInBounds
<1>1. HelperInv => CursorInBounds
  BY ZenonT(60) DEF HelperInv
<1> QED
  BY <1>1, HelperInvHolds, PTL

\* Behind parse_ethhdr the cursor, the type and the ids are those of the tags.
LEMMA InvSkips == HelperInv => SkipsTags
<1> SUFFICES ASSUME HelperInv, layer = "l3" PROVE SkipsTags
  BY Zenon DEF SkipsTags
<1> DEFINE d == Depth(frame)
           k == IF d < VLAN_MAX_DEPTH THEN d ELSE VLAN_MAX_DEPTH
<1>1. frame \in Frame /\ AtNetwork
  BY Zenon DEF HelperInv, TypeOK, CursorInv
<1>2. k = Skipped(frame)
  BY Zenon DEF Skipped, Lower
<1>3. /\ Len(frame) >= 7 /\ pos = ETH_HLEN + VLAN_HLEN * k
      /\ ret = bpf_htons(frame[7 + 2 * k])
  BY <1>1, <1>2, Zenon DEF AtNetwork
<1>4. frame[7 + 2 * k] \in Word
  BY <1>1, <1>2, <1>3, SkippedFacts, Zenon
<1>5. bpf_htons(ret) = frame[7 + 2 * k]
  BY <1>3, <1>4, HtonsTwice, Zenon
<1>6. parse_ethhdr_vlan(frame, 0) = WalkAt(frame, k)
  BY <1>1, <1>2, <1>3, WalkCounts, ZenonT(60) DEF Skipped
<1> HIDE DEF k
<1>7. parse_ethhdr_vlan(frame, 0).id = [j \in 1..k |-> frame[6 + 2 * j] % 4096]
  <2>1. WalkAt(frame, k).id = [j \in 1..k |-> frame[6 + 2 * j] % 4096]
    BY SMTT(40), WalkAtFields
  <2> QED
    BY <1>6, <2>1, Zenon
<1> QED
  BY <1>3, <1>5, <1>7, ZenonT(60) DEF SkipsTags, k

\* For any packet and any VLAN_MAX_DEPTH, parse_ethhdr skips the tags up to that
\* depth, stops at one that is cut off, and returns the type that follows.
THEOREM TagsAreSkipped == Spec => []SkipsTags
BY InvSkips, HelperInvHolds, PTL

-----------------------------------------------------------------------------
\* Where the word k comes from after the two MAC addresses have been exchanged,
\* and after two runs of n words at a and a + n have been exchanged.
MacFrom(k) == IF k \in 1..3 THEN k + 3 ELSE IF k \in 4..6 THEN k - 3 ELSE k
AddrFrom(a, n, k) ==
    IF k \in a..(a + n - 1) THEN k + n
    ELSE IF k \in (a + n)..(a + 2 * n - 1) THEN k - n ELSE k

\* Exchanging the MAC addresses twice, and what it leaves alone.
LEMMA MacFromFacts ==
  ASSUME NEW l \in Nat, l >= 6, NEW k \in 1..l
  PROVE  /\ MacFrom(k) \in 1..l /\ MacFrom(MacFrom(k)) = k
         /\ k >= 7 => MacFrom(k) = k
         /\ k \in 1..6 => MacFrom(k) \in 1..6
BY DEF MacFrom

\* Exchanging two runs stays within the frame and leaves alone what is in front.
LEMMA AddrFromFacts ==
  ASSUME NEW l \in Nat, NEW a \in Nat, NEW n \in Nat, a >= 12, a + 2 * n - 1 <= l,
         NEW k \in 1..l
  PROVE  /\ AddrFrom(a, n, k) \in 1..l
         /\ k < a => AddrFrom(a, n, k) = k
         /\ k >= a => AddrFrom(a, n, k) >= a
BY DEF AddrFrom

\* Exchanging two runs twice.
LEMMA AddrFromTwice ==
  ASSUME NEW l \in Nat, NEW a \in Nat, NEW n \in Nat, a >= 12, a + 2 * n - 1 <= l,
         NEW k \in 1..l
  PROVE  AddrFrom(a, n, AddrFrom(a, n, k)) = k
BY DEF AddrFrom

\* Exchanging two runs that are two words further.
LEMMA AddrFromTagged ==
  ASSUME NEW a \in Nat, NEW n \in Nat, NEW k \in Nat
  PROVE  AddrFrom(a + 2, n, k) = AddrFrom(a, n, k - 2) + 2
BY DEF AddrFrom

\* The two exchanges are about different words.
LEMMA MacAddrFrom ==
  ASSUME NEW l \in Nat, NEW a \in Nat, NEW n \in Nat, a >= 12, a + 2 * n - 1 <= l,
         NEW k \in 1..l
  PROVE  MacFrom(AddrFrom(a, n, k)) = AddrFrom(a, n, MacFrom(k))
<1> DEFINE b == AddrFrom(a, n, k)
<1>1. CASE k \in 1..6
  <2>1. k < a /\ MacFrom(k) \in 1..6
    BY <1>1 DEF MacFrom
  <2>2. AddrFrom(a, n, k) = k /\ AddrFrom(a, n, MacFrom(k)) = MacFrom(k)
    BY <2>1 DEF AddrFrom
  <2> QED
    BY <2>2, Zenon
<1>2. CASE k >= 7
  <2>1. MacFrom(k) = k
    BY <1>2 DEF MacFrom
  <2>2. b \in 7..l
    BY <1>2 DEF AddrFrom
  <2> HIDE DEF b
  <2>3. MacFrom(b) = b
    BY <2>2 DEF MacFrom
  <2> QED
    BY <2>1, <2>3, Zenon DEF b
<1>3. k \in 1..6 \/ k >= 7
  OBVIOUS
<1> QED
  BY <1>1, <1>2, <1>3, Zenon

\* SwapMacs in terms of MacFrom.
LEMMA MacsFrom ==
  ASSUME NEW f \in Frame, Len(f) >= 7
  PROVE  /\ SwapMacs(f) \in Frame /\ Len(SwapMacs(f)) = Len(f)
         /\ \A k \in 1..Len(f) : SwapMacs(f)[k] = f[MacFrom(k)]
<1>0. Len(f) \in Nat /\ Len(f) >= 6
  BY FrameWord
<1>1. /\ SwapMacs(f) \in Frame /\ Len(SwapMacs(f)) = Len(f)
      /\ \A k \in 1..Len(f) :
              /\ k \in 1..3 => SwapMacs(f)[k] = f[k + 3]
              /\ k \in 4..6 => SwapMacs(f)[k] = f[k - 3]
              /\ k >= 7 => SwapMacs(f)[k] = f[k]
  BY <1>0, SwapMacsWords, Zenon
<1>2. \A k \in 1..Len(f) : /\ k \in 1..3 => MacFrom(k) = k + 3
                           /\ k \in 4..6 => MacFrom(k) = k - 3
                           /\ k >= 7 => MacFrom(k) = k
                           /\ k \in 1..3 \/ k \in 4..6 \/ k >= 7
  BY <1>0 DEF MacFrom
<1>3. \A k \in 1..Len(f) : SwapMacs(f)[k] = f[MacFrom(k)]
  BY <1>1, <1>2, Zenon
<1> QED
  BY <1>1, <1>3, Zenon

\* f has a network header behind its tags.
HasAddrs(f) == Addressed(f, ETH_HLEN + VLAN_HLEN * Depth(f))

\* SwapAddrs in terms of AddrFrom.
LEMMA AddrsFrom ==
  ASSUME NEW f \in Frame, HasAddrs(f)
  PROVE  /\ Len(f) \in Nat /\ Len(f) >= 7 /\ Depth(f) \in Nat
         /\ AddrAt(f) \in Nat /\ AddrLen(f) \in Nat
         /\ AddrAt(f) >= 12 + 2 * Depth(f) /\ AddrAt(f) >= 12
         /\ AddrAt(f) + 2 * AddrLen(f) - 1 <= Len(f)
         /\ SwapAddrs(f) \in Frame /\ Len(SwapAddrs(f)) = Len(f)
         /\ \A k \in 1..Len(f) : SwapAddrs(f)[k] = f[AddrFrom(AddrAt(f), AddrLen(f), k)]
<1> DEFINE a == AddrAt(f)
           n == AddrLen(f)
<1>1. Addressed(f, ETH_HLEN + VLAN_HLEN * Depth(f))
  BY Zenon DEF HasAddrs
<1>2. /\ n \in Nat /\ a \in Nat /\ Depth(f) \in Nat /\ a >= 12 + 2 * Depth(f)
      /\ a + 2 * n - 1 <= Len(f)
  BY <1>1, AddrFacts, Zenon
<1>3. /\ SwapAddrs(f) \in Frame /\ Len(SwapAddrs(f)) = Len(f)
      /\ \A k \in 1..Len(f) :
              SwapAddrs(f)[k] =
                IF k \in a..(a + n - 1) THEN f[k + n]
                ELSE IF k \in (a + n)..(a + 2 * n - 1)
                THEN f[k - n] ELSE f[k]
  BY <1>1, SwapAddrsWords, Zenon
<1>4. Len(f) \in Nat /\ Len(f) >= 7
  BY <1>1, FrameWord, Zenon DEF Addressed
<1> HIDE DEF a, n
<1>5. \A k \in 1..Len(f) : SwapAddrs(f)[k] = f[AddrFrom(a, n, k)]
  BY <1>3, Zenon DEF AddrFrom
<1>6. a >= 12
  BY <1>2
<1> QED
  BY <1>2, <1>3, <1>4, <1>5, <1>6, Zenon DEF a, n

\* Swapping the MAC addresses twice gives the frame back.
LEMMA MacsTwice ==
  ASSUME NEW f \in Frame, Len(f) >= 7
  PROVE  SwapMacs(SwapMacs(f)) = f
<1> DEFINE g == SwapMacs(f)
           h == SwapMacs(g)
<1>0. Len(f) \in Nat /\ Len(f) >= 6
  BY FrameWord
<1>1. g \in Frame /\ Len(g) = Len(f) /\ \A k \in 1..Len(f) : g[k] = f[MacFrom(k)]
  BY MacsFrom, Zenon
<1> HIDE DEF g
<1>2. h \in Frame /\ Len(h) = Len(f) /\ \A k \in 1..Len(f) : h[k] = g[MacFrom(k)]
  <2>1. Len(g) >= 7
    BY <1>1, Zenon
  <2> QED
    BY <1>1, <2>1, MacsFrom, Zenon
<1> HIDE DEF h
<1>3. \A k \in 1..Len(f) : MacFrom(k) \in 1..Len(f) /\ MacFrom(MacFrom(k)) = k
  BY <1>0, MacFromFacts, Zenon
<1>4. \A k \in 1..Len(h) : h[k] = f[k]
  BY <1>1, <1>2, <1>3, Zenon
<1>5. h = f
  BY <1>2, <1>4, SameFrame, Zenon
<1> QED
  BY <1>5, Zenon DEF g, h

\* The addresses are where they were if no word up to the type has changed.
LEMMA SameAddrs ==
  ASSUME NEW f \in Frame, NEW g \in Frame, Len(g) = Len(f), HasAddrs(f),
         \A k \in 7..(7 + 2 * Depth(f)) : g[k] = f[k]
  PROVE  /\ HasAddrs(g) /\ AddrAt(g) = AddrAt(f) /\ AddrLen(g) = AddrLen(f)
         /\ Depth(g) = Depth(f)
<1>1. Len(f) >= 7 /\ Depth(f) \in Nat
  BY AddrsFrom, Zenon
<1>2. Depth(g) = Depth(f)
  BY <1>1, SameDepth, Zenon
<1>3. 7 + 2 * Depth(f) \in 7..(7 + 2 * Depth(f))
  BY <1>1
<1>4. g[7 + 2 * Depth(g)] = f[7 + 2 * Depth(f)]
  <2>1. g[7 + 2 * Depth(f)] = f[7 + 2 * Depth(f)]
    BY <1>3, Zenon
  <2>2. 7 + 2 * Depth(g) = 7 + 2 * Depth(f)
    BY <1>2, Zenon
  <2> QED
    BY <2>1, <2>2, Zenon
<1>5. data_end(g) = data_end(f)
  BY Zenon DEF data_end
<1>6. AddrAt(g) = AddrAt(f) /\ AddrLen(g) = AddrLen(f)
  BY <1>2, <1>4, Zenon DEF AddrAt, AddrLen
<1>7. HasAddrs(g)
  BY <1>2, <1>4, <1>5, ZenonT(60) DEF HasAddrs, Addressed
<1> QED
  BY <1>2, <1>6, <1>7, Zenon

\* The types in front of the network header are within the frame.
LEMMA TypeInFrame ==
  ASSUME NEW f \in Frame, Len(f) >= 7
  PROVE  \A k \in 7..(7 + 2 * Depth(f)) : k \in 1..Len(f)
<1>1. /\ Depth(f) \in Nat /\ Tagged(f, Depth(f))
      /\ Len(f) \in Nat /\ data_end(f) = 2 * Len(f)
  BY DepthIs, FrameWord, Zenon
<1>2. 2 * (7 + 2 * Depth(f)) <= data_end(f)
  BY <1>1, Zenon DEF Tagged
<1> QED
  BY <1>1, <1>2

\* Swapping the MAC addresses does not move the network header.
LEMMA MacsKeepAddrs ==
  ASSUME NEW f \in Frame, HasAddrs(f)
  PROVE  /\ HasAddrs(SwapMacs(f)) /\ AddrAt(SwapMacs(f)) = AddrAt(f)
         /\ AddrLen(SwapMacs(f)) = AddrLen(f)
<1> DEFINE g == SwapMacs(f)
<1>1. Len(f) \in Nat /\ Len(f) >= 7
  BY AddrsFrom, Zenon
<1>2. g \in Frame /\ Len(g) = Len(f) /\ \A k \in 1..Len(f) : g[k] = f[MacFrom(k)]
  BY <1>1, MacsFrom, Zenon
<1> HIDE DEF g
<1>3. \A k \in 7..(7 + 2 * Depth(f)) : k \in 1..Len(f) /\ MacFrom(k) = k
  <2>1. \A k \in 7..(7 + 2 * Depth(f)) : k \in 1..Len(f)
    BY <1>1, TypeInFrame, Zenon
  <2>2. Depth(f) \in Nat /\ Len(f) >= 6
    BY SMTT(40), <1>1, DepthIs
  <2>3. \A k \in 7..(7 + 2 * Depth(f)) : k >= 7
    BY <2>2
  <2> QED
    BY <1>1, <2>1, <2>2, <2>3, MacFromFacts, Zenon
<1>4. \A k \in 7..(7 + 2 * Depth(f)) : g[k] = f[k]
  BY <1>2, <1>3, Zenon
<1>5. HasAddrs(g) /\ AddrAt(g) = AddrAt(f) /\ AddrLen(g) = AddrLen(f)
  BY <1>2, <1>4, SameAddrs, Zenon
<1> QED
  BY <1>5, Zenon DEF g

\* Swapping the network addresses twice gives the frame back.
LEMMA AddrsTwice ==
  ASSUME NEW f \in Frame, HasAddrs(f)
  PROVE  HasAddrs(SwapAddrs(f)) /\ SwapAddrs(SwapAddrs(f)) = f
<1> DEFINE g == SwapAddrs(f)
           h == SwapAddrs(g)
           a == AddrAt(f)
           n == AddrLen(f)
<1>1. /\ Len(f) \in Nat /\ Len(f) >= 7 /\ Depth(f) \in Nat /\ a \in Nat /\ n \in Nat
      /\ a >= 12 + 2 * Depth(f) /\ a >= 12 /\ a + 2 * n - 1 <= Len(f)
      /\ g \in Frame /\ Len(g) = Len(f)
      /\ \A k \in 1..Len(f) : g[k] = f[AddrFrom(a, n, k)]
  BY AddrsFrom, Zenon
<1> HIDE DEF g, a, n
<1>2. \A k \in 1..Len(f) :
        /\ AddrFrom(a, n, k) \in 1..Len(f) /\ AddrFrom(a, n, AddrFrom(a, n, k)) = k
        /\ k < a => AddrFrom(a, n, k) = k
  BY <1>1, AddrFromFacts, AddrFromTwice, Zenon
<1>3. \A k \in 7..(7 + 2 * Depth(f)) : k \in 1..Len(f)
  BY <1>1, TypeInFrame, Zenon
<1>4. \A k \in 7..(7 + 2 * Depth(f)) : k < a
  BY SMTT(40), <1>1
<1>5. \A k \in 7..(7 + 2 * Depth(f)) : g[k] = f[k]
  BY <1>1, <1>2, <1>3, <1>4, Zenon
<1>6. HasAddrs(g) /\ AddrAt(g) = a /\ AddrLen(g) = n
  BY <1>1, <1>5, SameAddrs, Zenon DEF a, n
<1>7. h \in Frame /\ Len(h) = Len(f) /\ \A k \in 1..Len(f) : h[k] = g[AddrFrom(a, n, k)]
  <2>1. /\ h \in Frame /\ Len(h) = Len(g)
        /\ \A k \in 1..Len(g) : h[k] = g[AddrFrom(AddrAt(g), AddrLen(g), k)]
    BY <1>1, <1>6, AddrsFrom, Zenon
  <2> QED
    BY <1>1, <1>6, <2>1, Zenon
<1> HIDE DEF h
<1>8. \A k \in 1..Len(h) : h[k] = f[k]
  BY <1>1, <1>2, <1>7, Zenon
<1>9. h = f
  BY <1>7, <1>8, SameFrame, ZenonT(60)
<1> QED
  BY <1>6, <1>9, Zenon DEF g, h

\* The two swaps may be done in either order.
LEMMA MacsAndAddrs ==
  ASSUME NEW f \in Frame, HasAddrs(f)
  PROVE  SwapMacs(SwapAddrs(f)) = SwapAddrs(SwapMacs(f))
<1> DEFINE m == SwapMacs(f)
           s == SwapAddrs(f)
           ms == SwapMacs(s)
           sm == SwapAddrs(m)
           a == AddrAt(f)
           n == AddrLen(f)
<1>1. /\ Len(f) \in Nat /\ Len(f) >= 7 /\ Len(f) >= 6 /\ a \in Nat /\ n \in Nat
      /\ a >= 12 /\ a + 2 * n - 1 <= Len(f)
      /\ s \in Frame /\ Len(s) = Len(f)
      /\ \A k \in 1..Len(f) : s[k] = f[AddrFrom(a, n, k)]
  <2>1. /\ Len(f) \in Nat /\ Len(f) >= 7 /\ a \in Nat /\ n \in Nat
        /\ a >= 12 /\ a + 2 * n - 1 <= Len(f)
        /\ s \in Frame /\ Len(s) = Len(f)
        /\ \A k \in 1..Len(f) : s[k] = f[AddrFrom(a, n, k)]
    BY AddrsFrom, Zenon
  <2>2. \A l \in Nat : l >= 7 => l >= 6
    OBVIOUS
  <2> QED
    BY <2>1, <2>2, Zenon
<1>2. /\ m \in Frame /\ Len(m) = Len(f)
      /\ \A k \in 1..Len(f) : m[k] = f[MacFrom(k)]
  BY <1>1, MacsFrom, Zenon
<1>3. HasAddrs(m) /\ AddrAt(m) = a /\ AddrLen(m) = n
  BY MacsKeepAddrs, Zenon
<1> HIDE DEF m, s, a, n
<1>4. /\ ms \in Frame /\ Len(ms) = Len(f)
      /\ \A k \in 1..Len(f) : ms[k] = s[MacFrom(k)]
  <2>1. Len(s) >= 7
    BY <1>1, Zenon
  <2>2. /\ ms \in Frame /\ Len(ms) = Len(s)
        /\ \A k \in 1..Len(s) : ms[k] = s[MacFrom(k)]
    BY <1>1, <2>1, MacsFrom, ZenonT(60)
  <2> QED
    BY <1>1, <2>2, Zenon
<1>5. /\ sm \in Frame /\ Len(sm) = Len(f)
      /\ \A k \in 1..Len(f) : sm[k] = m[AddrFrom(a, n, k)]
  <2>1. /\ sm \in Frame /\ Len(sm) = Len(m)
        /\ \A k \in 1..Len(m) : sm[k] = m[AddrFrom(AddrAt(m), AddrLen(m), k)]
    BY <1>2, <1>3, AddrsFrom, Zenon
  <2> QED
    BY <1>2, <1>3, <2>1, Zenon
<1> HIDE DEF ms, sm
<1>6. \A k \in 1..Len(f) :
        /\ AddrFrom(a, n, k) \in 1..Len(f) /\ MacFrom(k) \in 1..Len(f)
        /\ MacFrom(AddrFrom(a, n, k)) = AddrFrom(a, n, MacFrom(k))
  <2>1. \A k \in 1..Len(f) : AddrFrom(a, n, k) \in 1..Len(f)
    BY <1>1, AddrFromFacts, Zenon
  <2>2. \A k \in 1..Len(f) : MacFrom(k) \in 1..Len(f)
    BY <1>1, MacFromFacts, Zenon
  <2>3. \A k \in 1..Len(f) : MacFrom(AddrFrom(a, n, k)) = AddrFrom(a, n, MacFrom(k))
    BY <1>1, MacAddrFrom, Zenon
  <2> QED
    BY <2>1, <2>2, <2>3, Zenon
<1>7. \A k \in 1..Len(ms) : ms[k] = sm[k]
  <2> SUFFICES ASSUME NEW k \in 1..Len(f) PROVE ms[k] = sm[k]
    BY <1>4, Zenon
  <2> DEFINE i == MacFrom(k)
             j == AddrFrom(a, n, k)
  <2>1. i \in 1..Len(f) /\ j \in 1..Len(f) /\ MacFrom(j) = AddrFrom(a, n, i)
    BY <1>6, Zenon
  <2>2. ms[k] = s[i] /\ sm[k] = m[j]
    BY <1>4, <1>5, Zenon
  <2> HIDE DEF i, j
  <2>3. s[i] = f[AddrFrom(a, n, i)] /\ m[j] = f[MacFrom(j)]
    BY <1>1, <1>2, <2>1, Zenon
  <2> QED
    BY <2>1, <2>2, <2>3, Zenon
<1>8. ms = sm
  BY <1>4, <1>5, <1>7, SameFrame, ZenonT(60)
<1> QED
  BY <1>8, Zenon DEF ms, sm, m, s

-----------------------------------------------------------------------------
\* What a push does to a frame with a whole Ethernet header.
LEMMA TagFacts ==
  ASSUME NEW f \in Frame, Len(f) >= 7, NEW v \in Int
  PROVE  /\ Tag(f, v) \in Frame /\ Len(Tag(f, v)) = Len(f) + 2
         /\ Len(Tag(f, v)) \in Nat /\ Len(Tag(f, v)) >= 7
         /\ Tag(f, v)[7] = ETH_P_8021Q /\ Tag(f, v)[8] = Tci(v)
         /\ \A k \in 1..6 : Tag(f, v)[k] = f[k]
         /\ \A k \in 9..(Len(f) + 2) : Tag(f, v)[k] = f[k - 2]
<1>1. Len(f) \in Nat /\ Len(f) >= 6 /\ Len(f) + 2 \in Nat /\ Len(f) + 2 >= 7
  BY FrameWord
<1> QED
  BY <1>1, TagWords, Zenon

\* A pop undoes a push.
LEMMA UntagTag ==
  ASSUME NEW f \in Frame, Len(f) >= 7, NEW v \in Int
  PROVE  Untag(Tag(f, v)) = f
<1> DEFINE t == Tag(f, v)
           u == Untag(t)
<1>0. Len(f) \in Nat
  BY FrameWord, Zenon
<1>1. /\ t \in Frame /\ Len(t) = Len(f) + 2 /\ (\A k \in 1..6 : t[k] = f[k])
      /\ \A k \in 9..(Len(f) + 2) : t[k] = f[k - 2]
  BY TagFacts, Zenon
<1> HIDE DEF t
<1>2. /\ u \in Frame /\ Len(u) = Len(t) - 2 /\ (\A k \in 1..6 : u[k] = t[k])
      /\ \A k \in 7..(Len(t) - 2) : u[k] = t[k + 2]
  <2>1. Len(t) >= 8
    BY SMTT(40), <1>0, <1>1
  <2> QED
    BY <1>1, <2>1, UntagWords, Zenon
<1> HIDE DEF u
<1>3. Len(u) = Len(f) /\ Len(t) - 2 = Len(f)
  BY SMTT(40), <1>0, <1>1, <1>2
<1>4. \A k \in 1..Len(f) : \/ k \in 1..6
                           \/ /\ k \in 7..Len(f) /\ k + 2 \in 9..(Len(f) + 2)
                              /\ (k + 2) - 2 = k
  BY <1>0
<1>5. \A k \in 1..Len(u) : u[k] = f[k]
  <2> SUFFICES ASSUME NEW k \in 1..Len(f) PROVE u[k] = f[k]
    BY <1>3, Zenon
  <2>1. CASE k \in 1..6
    BY <1>1, <1>2, <2>1, Zenon
  <2>2. CASE k \in 7..Len(f) /\ k + 2 \in 9..(Len(f) + 2) /\ (k + 2) - 2 = k
    <3>1. u[k] = t[k + 2] /\ t[k + 2] = f[(k + 2) - 2]
      BY <1>1, <1>2, <1>3, <2>2, ZenonT(60)
    <3> QED
      BY <2>2, <3>1, Zenon
  <2> QED
    BY <1>4, <2>1, <2>2, Zenon
<1>6. u = f
  BY <1>2, <1>3, <1>5, SameFrame, ZenonT(60)
<1> QED
  BY <1>6, Zenon DEF t, u

\* The tags of a frame are those of the frame it was pushed on, and the new one.
LEMMA TaggedTag ==
  ASSUME NEW f \in Frame, Len(f) >= 7, NEW v \in Int, NEW d \in Nat
  PROVE  Tagged(Tag(f, v), d + 1) <=> Tagged(f, d)
<1> DEFINE t == Tag(f, v)
           Types == {ETH_P_8021Q, ETH_P_8021AD}
<1>0. Len(f) \in Nat /\ data_end(f) = 2 * Len(f)
  BY FrameWord, Zenon
<1>1. /\ t \in Frame /\ Len(t) = Len(f) + 2 /\ t[7] = ETH_P_8021Q
      /\ \A k \in 9..(Len(f) + 2) : t[k] = f[k - 2]
  BY TagFacts, Zenon
<1>2. data_end(t) = 2 * Len(t)
  BY <1>1, FrameWord, Zenon
<1> HIDE DEF t
<1>3. 2 * (7 + 2 * (d + 1)) <= data_end(t) <=> 2 * (7 + 2 * d) <= data_end(f)
  BY SMTT(40), <1>0, <1>1, <1>2
<1>4. ASSUME 2 * (7 + 2 * d) <= data_end(f)
      PROVE  (\A j \in 1..(d + 1) : t[5 + 2 * j] \in Types)
               <=> \A j \in 1..d : f[5 + 2 * j] \in Types
  <2>1. \A j \in 1..d : /\ j + 1 \in 1..(d + 1)
                        /\ 5 + 2 * (j + 1) \in 9..(Len(f) + 2)
                        /\ (5 + 2 * (j + 1)) - 2 = 5 + 2 * j
    BY SMTT(40), <1>0, <1>4
  <2>2. \A j \in 1..d : t[5 + 2 * (j + 1)] = f[5 + 2 * j]
    BY <1>1, <2>1, Zenon
  <2>3. \A j \in 1..(d + 1) : \/ 5 + 2 * j = 7
                              \/ j - 1 \in 1..d /\ (j - 1) + 1 = j
    OBVIOUS
  <2>4. ASSUME \A j \in 1..d : f[5 + 2 * j] \in Types, NEW j \in 1..(d + 1)
        PROVE  t[5 + 2 * j] \in Types
    <3>1. CASE 5 + 2 * j = 7
      BY <1>1, <3>1, Zenon
    <3>2. CASE j - 1 \in 1..d /\ (j - 1) + 1 = j
      <4>1. t[5 + 2 * ((j - 1) + 1)] \in Types
        BY <2>2, <2>4, <3>2, Zenon
      <4> QED
        BY <3>2, <4>1, Zenon
    <3> QED
      BY <2>3, <3>1, <3>2, ZenonT(60)
  <2> QED
    BY <2>1, <2>2, <2>4, Zenon
<1>5. Tagged(t, d + 1) <=> Tagged(f, d)
  BY <1>3, <1>4, Zenon DEF Tagged
<1> QED
  BY <1>5, Zenon DEF t

\* A push adds one tag.
LEMMA DepthTag ==
  ASSUME NEW f \in Frame, Len(f) >= 7, NEW v \in Int
  PROVE  Depth(Tag(f, v)) = Depth(f) + 1
<1>1. Depth(f) \in Nat /\ Tagged(f, Depth(f)) /\ ~ Tagged(f, Depth(f) + 1)
  BY DepthIs, Zenon
<1>2. Depth(f) + 1 \in Nat
  BY <1>1
<1>3. Tagged(Tag(f, v), Depth(f) + 1) /\ ~ Tagged(Tag(f, v), (Depth(f) + 1) + 1)
  BY <1>1, <1>2, TaggedTag, Zenon
<1>4. Tag(f, v) \in Frame
  BY TagFacts, Zenon
<1> QED
  BY <1>2, <1>3, <1>4, DepthUnique, Zenon

\* The MAC addresses may be swapped before or after a push.
LEMMA MacsTag ==
  ASSUME NEW f \in Frame, Len(f) >= 7, NEW v \in Int
  PROVE  SwapMacs(Tag(f, v)) = Tag(SwapMacs(f), v)
<1> DEFINE t == Tag(f, v)
           m == SwapMacs(f)
           mt == SwapMacs(t)
           tm == Tag(m, v)
<1>0. Len(f) \in Nat /\ Len(f) >= 6
  BY FrameWord
<1>1. /\ t \in Frame /\ Len(t) = Len(f) + 2 /\ Len(t) >= 7
      /\ t[7] = ETH_P_8021Q /\ t[8] = Tci(v) /\ (\A k \in 1..6 : t[k] = f[k])
      /\ \A k \in 9..(Len(f) + 2) : t[k] = f[k - 2]
  BY TagFacts, Zenon
<1>2. m \in Frame /\ Len(m) = Len(f) /\ \A k \in 1..Len(f) : m[k] = f[MacFrom(k)]
  BY MacsFrom, Zenon
<1> HIDE DEF t, m
<1>3. mt \in Frame /\ Len(mt) = Len(t) /\ \A k \in 1..Len(t) : mt[k] = t[MacFrom(k)]
  BY <1>1, MacsFrom, Zenon
<1>4. /\ tm \in Frame /\ Len(tm) = Len(m) + 2
      /\ tm[7] = ETH_P_8021Q /\ tm[8] = Tci(v) /\ (\A k \in 1..6 : tm[k] = m[k])
      /\ \A k \in 9..(Len(m) + 2) : tm[k] = m[k - 2]
  <2>1. Len(m) >= 7
    BY <1>2, Zenon
  <2> QED
    BY <1>2, <2>1, TagFacts, Zenon
<1> HIDE DEF mt, tm
<1>5. /\ \A k \in 1..6 : k \in 1..Len(f) /\ k \in 1..Len(t) /\ MacFrom(k) \in 1..6
      /\ 7 \in 1..Len(t) /\ 8 \in 1..Len(t) /\ MacFrom(7) = 7 /\ MacFrom(8) = 8
  BY SMTT(40), <1>0, <1>1 DEF MacFrom
<1>6. \A k \in 9..(Len(f) + 2) : /\ k \in 1..Len(t) /\ MacFrom(k) = k
                                 /\ k - 2 \in 1..Len(f) /\ MacFrom(k - 2) = k - 2
  BY SMTT(40), <1>0, <1>1 DEF MacFrom
<1>7. \A k \in 1..6 : mt[k] = tm[k]
  <2> SUFFICES ASSUME NEW k \in 1..6 PROVE mt[k] = tm[k]
    BY Zenon
  <2> DEFINE i == MacFrom(k)
  <2>1. i \in 1..6 /\ mt[k] = t[i] /\ m[k] = f[i]
    BY <1>2, <1>3, <1>5, Zenon
  <2> HIDE DEF i
  <2> QED
    BY <1>1, <1>4, <2>1, Zenon
<1>8. mt[7] = tm[7] /\ mt[8] = tm[8]
  <2>1. mt[7] = t[MacFrom(7)] /\ mt[8] = t[MacFrom(8)]
    BY <1>3, <1>5, Zenon
  <2>2. mt[7] = t[7] /\ mt[8] = t[8]
    BY <1>5, <2>1, Zenon
  <2> QED
    BY <1>1, <1>4, <2>2, Zenon
<1>9. \A k \in 9..(Len(f) + 2) : mt[k] = tm[k]
  BY <1>1, <1>2, <1>3, <1>4, <1>6, ZenonT(60)
<1>10. \A k \in 1..Len(mt) : k \in 1..6 \/ k = 7 \/ k = 8 \/ k \in 9..(Len(f) + 2)
  BY <1>0, <1>1, <1>3
<1>11. \A k \in 1..Len(mt) : mt[k] = tm[k]
  BY <1>7, <1>8, <1>9, <1>10, Zenon
<1>12. mt = tm
  BY <1>1, <1>2, <1>3, <1>4, <1>11, SameFrame, ZenonT(60)
<1> QED
  BY <1>12, Zenon DEF mt, tm, m, t

\* So may the network addresses: the header is found behind the new tag too.
LEMMA AddrsTag ==
  ASSUME NEW f \in Frame, Len(f) >= 7, NEW v \in Int, HasAddrs(Tag(f, v))
  PROVE  HasAddrs(f) /\ SwapAddrs(Tag(f, v)) = Tag(SwapAddrs(f), v)
<1> DEFINE t == Tag(f, v)
           s == SwapAddrs(f)
           st == SwapAddrs(t)
           ts == Tag(s, v)
           d == Depth(f)
           a == AddrAt(f)
           n == AddrLen(f)
<1>0. Len(f) \in Nat /\ data_end(f) = 2 * Len(f) /\ d \in Nat /\ 7 + 2 * d <= Len(f)
  <2>1. Len(f) \in Nat /\ data_end(f) = 2 * Len(f) /\ d \in Nat /\ Tagged(f, d)
    BY FrameWord, DepthIs, Zenon
  <2>2. 2 * (7 + 2 * d) <= data_end(f)
    BY <2>1, Zenon DEF Tagged
  <2> HIDE DEF d
  <2> QED
    BY SMTT(40), <2>1, <2>2
<1>1. /\ t \in Frame /\ Len(t) = Len(f) + 2 /\ Len(t) >= 7
      /\ t[7] = ETH_P_8021Q /\ t[8] = Tci(v) /\ (\A k \in 1..6 : t[k] = f[k])
      /\ \A k \in 9..(Len(f) + 2) : t[k] = f[k - 2]
  BY TagFacts, Zenon
<1>2. Depth(t) = d + 1 /\ data_end(t) = 2 * Len(t)
  BY <1>1, DepthTag, FrameWord, Zenon
<1>3. HasAddrs(t)
  BY Zenon
<1> HIDE DEF t, d
<1>4. t[7 + 2 * Depth(t)] = f[7 + 2 * d]
  <2>1. 7 + 2 * Depth(t) \in 9..(Len(f) + 2) /\ (7 + 2 * Depth(t)) - 2 = 7 + 2 * d
    BY SMTT(40), <1>0, <1>2
  <2>2. t[7 + 2 * Depth(t)] = f[(7 + 2 * Depth(t)) - 2]
    BY <1>1, <2>1, Zenon
  <2> QED
    BY <2>1, <2>2, ZenonT(60)
<1>5. HasAddrs(f)
  <2> DEFINE p == ETH_HLEN + VLAN_HLEN * d
             q == ETH_HLEN + VLAN_HLEN * Depth(t)
             x == f[7 + 2 * d]
  <2>1. \/ x = ETH_P_IP /\ q + IP_HLEN <= data_end(t)
        \/ x = ETH_P_IPV6 /\ q + IPV6_HLEN <= data_end(t)
    BY <1>3, <1>4, Zenon DEF HasAddrs, Addressed
  <2> HIDE DEF x
  <2>2. /\ q + IP_HLEN <= data_end(t) => p + IP_HLEN <= data_end(f)
        /\ q + IPV6_HLEN <= data_end(t) => p + IPV6_HLEN <= data_end(f)
    <3>1. /\ q = p + 4 /\ p \in Int
          /\ data_end(t) = data_end(f) + 4 /\ data_end(f) \in Int
      <4>1. q = p + 4 /\ p \in Int
        BY SMTT(40), <1>0, <1>2 DEF ETH_HLEN, VLAN_HLEN
      <4>2. data_end(t) = data_end(f) + 4 /\ data_end(f) \in Int
        BY SMTT(40), <1>0, <1>1, <1>2
      <4> QED
        BY <4>1, <4>2, ZenonT(60)
    <3>2. IP_HLEN \in Int /\ IPV6_HLEN \in Int
      BY DEF IP_HLEN, IPV6_HLEN
    <3> HIDE DEF p, q
    <3> QED
      BY SMTT(40), <3>1, <3>2
  <2>3. \/ x = ETH_P_IP /\ p + IP_HLEN <= data_end(f)
        \/ x = ETH_P_IPV6 /\ p + IPV6_HLEN <= data_end(f)
    BY <2>1, <2>2, Zenon
  <2> QED
    BY <2>3, Zenon DEF HasAddrs, Addressed, d, x
<1>6. AddrLen(t) = n /\ AddrAt(t) = a + 2
  <2> DEFINE c == IF f[7 + 2 * d] = ETH_P_IP THEN 7 ELSE 5
  <2>1. AddrLen(t) = n
    BY <1>4, Zenon DEF AddrLen, d
  <2>2. AddrAt(t) = 7 + 2 * Depth(t) + c /\ a = 7 + 2 * d + c
    BY <1>4, Zenon DEF AddrAt, d
  <2>3. c \in Int
    OBVIOUS
  <2> HIDE DEF c, a
  <2>4. AddrAt(t) = a + 2
    BY SMTT(40), <1>0, <1>2, <2>2, <2>3
  <2> QED
    BY <2>1, <2>4, Zenon
<1>7. /\ a \in Nat /\ n \in Nat /\ a >= 12 /\ a + 2 * n - 1 <= Len(f)
      /\ s \in Frame /\ Len(s) = Len(f)
      /\ \A k \in 1..Len(f) : s[k] = f[AddrFrom(a, n, k)]
  BY <1>5, AddrsFrom, Zenon
<1> HIDE DEF a, n, s
<1>8. /\ st \in Frame /\ Len(st) = Len(t)
      /\ \A k \in 1..Len(t) : st[k] = t[AddrFrom(a + 2, n, k)]
  <2>1. /\ st \in Frame /\ Len(st) = Len(t)
        /\ \A k \in 1..Len(t) : st[k] = t[AddrFrom(AddrAt(t), AddrLen(t), k)]
    BY <1>1, <1>3, AddrsFrom, ZenonT(60)
  <2> QED
    BY <1>6, <2>1, Zenon
<1>9. /\ ts \in Frame /\ Len(ts) = Len(s) + 2
      /\ ts[7] = ETH_P_8021Q /\ ts[8] = Tci(v) /\ (\A k \in 1..6 : ts[k] = s[k])
      /\ \A k \in 9..(Len(s) + 2) : ts[k] = s[k - 2]
  <2>1. Len(s) >= 7
    BY <1>7, ZenonT(60)
  <2> QED
    BY <1>7, <2>1, TagFacts, ZenonT(60)
<1> HIDE DEF st, ts
<1>10. \A k \in 1..8 : k \in 1..Len(t) /\ AddrFrom(a + 2, n, k) = k
  BY SMTT(40), <1>0, <1>1, <1>7 DEF AddrFrom
<1>11. \A k \in 1..8 : st[k] = t[k]
  BY <1>8, <1>10, Zenon
<1>12. \A k \in 1..6 : st[k] = ts[k]
  <2>1. \A k \in 1..6 : k \in 1..8 /\ k \in 1..Len(f) /\ AddrFrom(a, n, k) = k
    BY SMTT(40), <1>0, <1>7 DEF AddrFrom
  <2>2. \A k \in 1..6 : s[k] = f[k]
    BY <1>7, <2>1, Zenon
  <2> QED
    BY <1>1, <1>9, <1>11, <2>1, <2>2, ZenonT(60)
<1>13. st[7] = ts[7] /\ st[8] = ts[8]
  <2>1. 7 \in 1..8 /\ 8 \in 1..8
    OBVIOUS
  <2>2. st[7] = t[7] /\ st[8] = t[8]
    BY <1>11, <2>1, Zenon
  <2> QED
    BY <1>1, <1>9, <2>2, Zenon
<1>14. ASSUME NEW k \in 9..(Len(f) + 2)
       PROVE  st[k] = ts[k]
  <2> DEFINE i == AddrFrom(a, n, k - 2)
  <2>1. k \in 1..Len(t) /\ k \in Nat /\ k - 2 \in 1..Len(f)
    BY SMTT(40), <1>0, <1>1
  <2>2. AddrFrom(a + 2, n, k) = i + 2
    BY <1>7, <2>1, AddrFromTagged, Zenon
  <2>3. i \in 1..Len(f) /\ i >= 7
    <3>1. /\ i \in 1..Len(f)
          /\ k - 2 < a => i = k - 2
          /\ k - 2 >= a => i >= a
      BY <1>0, <1>7, <2>1, AddrFromFacts, ZenonT(60)
    <3> HIDE DEF i
    <3> QED
      BY SMTT(40), <1>0, <1>7, <2>1, <3>1
  <2>4. st[k] = t[i + 2] /\ ts[k] = s[k - 2] /\ s[k - 2] = f[i]
    BY <1>7, <1>8, <1>9, <2>1, <2>2, ZenonT(60)
  <2> HIDE DEF i
  <2>5. i + 2 \in 9..(Len(f) + 2) /\ (i + 2) - 2 = i
    BY SMTT(40), <1>0, <2>3
  <2>6. t[i + 2] = f[(i + 2) - 2]
    BY <1>1, <2>5, ZenonT(60)
  <2> QED
    BY <2>4, <2>5, <2>6, ZenonT(60)
<1>15. \A k \in 1..Len(st) : k \in 1..6 \/ k = 7 \/ k = 8 \/ k \in 9..(Len(f) + 2)
  BY SMTT(40), <1>0, <1>1, <1>8
<1>16. \A k \in 1..Len(st) : st[k] = ts[k]
  BY <1>12, <1>13, <1>14, <1>15, ZenonT(60)
<1>17. st = ts
  BY <1>1, <1>7, <1>8, <1>9, <1>16, SameFrame, ZenonT(60)
<1> QED
  BY <1>5, <1>17, Zenon DEF st, ts, s, t
-----------------------------------------------------------------------------
\* g is the history of pushing the first n tags of s on f.
IsTags(f, s, g, n) ==
    g = [k \in 0..n |-> IF k = 0 THEN f ELSE Tag(g[k - 1], s[k])]

\* The recursion that TagAll is defined by has a solution.
LEMMA TagsExist ==
  ASSUME NEW f, NEW s, NEW m \in Nat
  PROVE  \E g : IsTags(f, s, g, m)
<1> DEFINE S == {n \in 0..m : \E g : IsTags(f, s, g, n)}
<1>1. 0 \in S
  <2> DEFINE g0 == [k \in 0..0 |-> f]
  <2>1. \A k \in 0..0 : k = 0
    OBVIOUS
  <2>2. g0 = [k \in 0..0 |-> IF k = 0 THEN f ELSE Tag(g0[k - 1], s[k])]
    BY <2>1, Zenon
  <2>3. 0 \in 0..m
    OBVIOUS
  <2> QED
    BY <2>2, <2>3, Zenon DEF IsTags
<1>2. ASSUME NEW n \in 0..(m - 1), n \in S
      PROVE  n + 1 \in S
  <2>1. PICK g : IsTags(f, s, g, n)
    BY <1>2, Zenon
  <2> DEFINE h == [k \in 0..(n + 1) |-> IF k = n + 1 THEN Tag(g[n], s[n + 1]) ELSE g[k]]
  <2>2. \A k \in 0..n : g[k] = IF k = 0 THEN f ELSE Tag(g[k - 1], s[k])
    BY <2>1, Zenon DEF IsTags
  <2>3. ASSUME NEW k \in 0..(n + 1)
        PROVE  h[k] = IF k = 0 THEN f ELSE Tag(h[k - 1], s[k])
    <3>0. h[k] = IF k = n + 1 THEN Tag(g[n], s[n + 1]) ELSE g[k]
      BY Zenon
    <3>1. CASE k = n + 1
      <4>1. n \in 0..(n + 1) /\ n # n + 1 /\ k # 0 /\ k - 1 = n
        BY <3>1
      <4>2. h[n] = g[n]
        BY <4>1, Zenon
      <4> QED
        BY <3>0, <3>1, <4>1, <4>2, ZenonT(60)
    <3>2. CASE k = 0
      <4>1. 0 # n + 1 /\ 0 \in 0..n
        BY DEF Nat
      <4> QED
        BY <2>2, <3>0, <3>2, <4>1, ZenonT(60)
    <3>3. CASE k \in 1..n
      <4>1. k # n + 1 /\ k # 0 /\ k \in 0..n /\ k - 1 \in 0..(n + 1) /\ k - 1 # n + 1
        BY <3>3
      <4>2. h[k - 1] = g[k - 1]
        BY <4>1, Zenon
      <4> QED
        BY <2>2, <3>0, <4>1, <4>2, ZenonT(60)
    <3>4. k = n + 1 \/ k = 0 \/ k \in 1..n
      OBVIOUS
    <3> QED
      BY <3>1, <3>2, <3>3, <3>4, Zenon
  <2>4. h = [k \in 0..(n + 1) |-> IF k = 0 THEN f ELSE Tag(h[k - 1], s[k])]
    BY <2>3, Zenon
  <2>5. n + 1 \in 0..m
    OBVIOUS
  <2> HIDE DEF h
  <2> QED
    BY <2>4, <2>5, Zenon DEF IsTags
<1> HIDE DEF S
<1>3. \A n \in 0..m : n \in S
  BY SMTT(40), <1>1, <1>2, UpTo
<1>4. m \in 0..m
  OBVIOUS
<1> QED
  BY <1>3, <1>4, Zenon DEF S

\* TagAll is its last value.
LEMMA TagAllIs ==
  ASSUME NEW f, NEW s, Len(s) \in Nat
  PROVE  \E g : IsTags(f, s, g, Len(s)) /\ TagAll(f, s) = g[Len(s)]
<1> DEFINE Tags(g) == g = [k \in 0..Len(s) |-> IF k = 0 THEN f ELSE Tag(g[k - 1], s[k])]
           tag == CHOOSE g : Tags(g)
<1>1. TagAll(f, s) = tag[Len(s)]
  BY Zenon DEF TagAll
<1>2. \A g : IsTags(f, s, g, Len(s)) <=> Tags(g)
  BY Zenon DEF IsTags
<1> HIDE DEF Tags
<1>3. \E g : IsTags(f, s, g, Len(s))
  BY TagsExist, Zenon
<1>4. Tags(tag)
  BY <1>2, <1>3, Zenon
<1> QED
  BY <1>1, <1>2, <1>4, Zenon

\* No tags.
LEMMA TagAllEmpty ==
  ASSUME NEW f
  PROVE  TagAll(f, <<>>) = f
<1>1. Len(<<>>) = 0 /\ 0 \in Nat /\ 0 \in 0..0
  OBVIOUS
<1>2. PICK g : IsTags(f, <<>>, g, 0) /\ TagAll(f, <<>>) = g[0]
  BY <1>1, TagAllIs, Zenon
<1>3. g[0] = f
  BY <1>1, <1>2, Zenon DEF IsTags
<1> QED
  BY <1>2, <1>3, Zenon

\* One more tag.
LEMMA TagAllAppend ==
  ASSUME NEW f, NEW S, NEW s \in Seq(S), NEW v \in S
  PROVE  TagAll(f, Append(s, v)) = Tag(TagAll(f, s), v)
<1> DEFINE a == Append(s, v)
           n == Len(s)
<1>1. /\ n \in Nat /\ n + 1 \in Nat /\ Len(a) = n + 1 /\ a[n + 1] = v
      /\ \A k \in 1..n : a[k] = s[k]
  OBVIOUS
<1> HIDE DEF a, n
<1>2. PICK g : IsTags(f, s, g, n) /\ TagAll(f, s) = g[n]
  BY <1>1, TagAllIs, Zenon DEF n
<1>3. PICK h : IsTags(f, a, h, n + 1) /\ TagAll(f, a) = h[n + 1]
  BY <1>1, TagAllIs, Zenon
<1>4. \A k \in 0..n : g[k] = IF k = 0 THEN f ELSE Tag(g[k - 1], s[k])
  BY <1>2, Zenon DEF IsTags
<1>5. \A k \in 0..(n + 1) : h[k] = IF k = 0 THEN f ELSE Tag(h[k - 1], a[k])
  BY <1>3, Zenon DEF IsTags
<1> DEFINE T == {k \in 0..n : h[k] = g[k]}
<1>6. 0 \in T
  <2>1. 0 \in 0..n /\ 0 \in 0..(n + 1)
    BY <1>1
  <2> QED
    BY <1>4, <1>5, <2>1, ZenonT(60)
<1>7. ASSUME NEW k \in 0..(n - 1), k \in T
      PROVE  k + 1 \in T
  <2>1. /\ k + 1 \in 0..n /\ k + 1 \in 0..(n + 1) /\ k + 1 \in 1..n /\ k + 1 # 0
        /\ (k + 1) - 1 = k
    BY SMTT(40), <1>1
  <2>2. g[k + 1] = Tag(g[k], s[k + 1]) /\ h[k + 1] = Tag(h[k], a[k + 1])
    BY <1>4, <1>5, <2>1, ZenonT(60)
  <2>3. h[k] = g[k] /\ a[k + 1] = s[k + 1]
    BY <1>1, <1>7, <2>1, ZenonT(60)
  <2> QED
    BY <2>1, <2>2, <2>3, ZenonT(60)
<1> HIDE DEF T
<1>8. \A k \in 0..n : k \in T
  BY ZenonT(60), <1>1, <1>6, <1>7, UpTo
<1>9. n \in 0..n /\ n + 1 \in 0..(n + 1) /\ n + 1 # 0 /\ (n + 1) - 1 = n
  BY <1>1
<1>10. h[n] = g[n]
  BY <1>8, <1>9, Zenon DEF T
<1>11. h[n + 1] = Tag(h[n], v)
  BY <1>1, <1>5, <1>9, Zenon
<1> QED
  BY <1>2, <1>3, <1>10, <1>11, ZenonT(60) DEF a

\* Both swaps may be done before or after all the pushes of s.
SwapsPass(f, s) ==
    LET g == TagAll(f, s) IN
    /\ g \in Frame /\ Len(g) >= 7
    /\ SwapMacs(g) = TagAll(SwapMacs(f), s)
    /\ HasAddrs(g) => HasAddrs(f) /\ SwapAddrs(g) = TagAll(SwapAddrs(f), s)

\* They pass one more push.
LEMMA OneMore ==
  ASSUME NEW f \in Frame, NEW s \in Seq(Vlids), NEW v \in Vlids, SwapsPass(f, s)
  PROVE  SwapsPass(f, Append(s, v))
<1> DEFINE g == TagAll(f, s)
           h == TagAll(f, Append(s, v))
<1>1. /\ g \in Frame /\ Len(g) >= 7
      /\ SwapMacs(g) = TagAll(SwapMacs(f), s)
      /\ HasAddrs(g) => HasAddrs(f) /\ SwapAddrs(g) = TagAll(SwapAddrs(f), s)
  BY Zenon DEF SwapsPass
<1>2. v \in Int
  BY VlidsAssumption, Zenon
<1>3. h = Tag(g, v)
  BY TagAllAppend, ZenonT(60)
<1>4. /\ TagAll(SwapMacs(f), Append(s, v)) = Tag(TagAll(SwapMacs(f), s), v)
      /\ TagAll(SwapAddrs(f), Append(s, v)) = Tag(TagAll(SwapAddrs(f), s), v)
  BY TagAllAppend, ZenonT(60)
<1> HIDE DEF g, h
<1>5. h \in Frame /\ Len(h) >= 7
  BY <1>1, <1>2, <1>3, TagFacts, Zenon
<1>6. SwapMacs(h) = TagAll(SwapMacs(f), Append(s, v))
  <2>1. SwapMacs(Tag(g, v)) = Tag(SwapMacs(g), v)
    BY <1>1, <1>2, MacsTag, Zenon
  <2> QED
    BY <1>1, <1>3, <1>4, <2>1, ZenonT(60)
<1>7. ASSUME HasAddrs(h)
      PROVE  HasAddrs(f) /\ SwapAddrs(h) = TagAll(SwapAddrs(f), Append(s, v))
  <2>1. HasAddrs(g) /\ SwapAddrs(Tag(g, v)) = Tag(SwapAddrs(g), v)
    <3>1. HasAddrs(Tag(g, v))
      BY <1>3, <1>7, Zenon
    <3> QED
      BY <1>1, <1>2, <3>1, AddrsTag, Zenon
  <2>2. HasAddrs(f) /\ SwapAddrs(g) = TagAll(SwapAddrs(f), s)
    BY <1>1, <2>1, Zenon
  <2> QED
    BY <1>3, <1>4, <2>1, <2>2, Zenon
<1> QED
  BY <1>5, <1>6, <1>7, Zenon DEF SwapsPass, h

\* They pass any number of pushes, by induction on it.
LEMMA SwapsPassTags ==
  ASSUME NEW f \in Frame, Len(f) >= 7, NEW s \in Seq(Vlids)
  PROVE  SwapsPass(f, s)
<1> DEFINE m == Len(s)
           S == {n \in 0..m : \A u \in Seq(Vlids) : Len(u) = n => SwapsPass(f, u)}
<1>0. m \in Nat
  BY LenProperties, Zenon
<1> HIDE DEF m
<1>1. 0 \in S
  <2>1. 0 \in 0..m
    BY <1>0
  <2>2. ASSUME NEW u \in Seq(Vlids), Len(u) = 0
        PROVE  SwapsPass(f, u)
    <3>1. u = <<>>
      BY <2>2, EmptySeq
    <3>2. TagAll(f, u) = f /\ TagAll(SwapMacs(f), u) = SwapMacs(f)
          /\ TagAll(SwapAddrs(f), u) = SwapAddrs(f)
      BY <3>1, TagAllEmpty, Zenon
    <3> QED
      BY <3>2, Zenon DEF SwapsPass
  <2> QED
    BY <2>1, <2>2, Zenon
<1>2. ASSUME NEW n \in 0..(m - 1), n \in S
      PROVE  n + 1 \in S
  <2>1. n + 1 \in 0..m
    BY <1>0
  <2>2. ASSUME NEW u \in Seq(Vlids), Len(u) = n + 1
        PROVE  SwapsPass(f, u)
    <3> DEFINE t == SubSeq(u, 1, Len(u) - 1)
               v == u[Len(u)]
    <3>1. u # <<>>
      BY <2>2
    <3>2. t \in Seq(Vlids) /\ Len(t) = Len(u) - 1 /\ v \in Vlids /\ u = Append(t, v)
      BY <3>1, ButLast, Zenon
    <3> HIDE DEF t, v
    <3>3. Len(t) = n
      BY SMTT(40), <2>2, <3>2
    <3>4. SwapsPass(f, t)
      BY <1>2, <3>2, <3>3, Zenon
    <3>5. SwapsPass(f, Append(t, v))
      BY <3>2, <3>4, OneMore, ZenonT(60)
    <3> QED
      BY <3>2, <3>5, Zenon
  <2> QED
    BY <2>1, <2>2, Zenon
<1> HIDE DEF S
<1>3. \A n \in 0..m : n \in S
  BY SMTT(40), <1>0, <1>1, <1>2, UpTo
<1>4. m \in 0..m
  BY <1>0
<1> QED
  BY <1>3, <1>4, Zenon DEF S, m

\* Turned, as a function of the set of swaps done an odd number of times, and what
\* one more swap makes of that set.
TurnedBy(t, f) ==
    LET g == IF "mac" \in t THEN SwapMacs(f) ELSE f
    IN  IF "ip" \in t THEN SwapAddrs(g) ELSE g

Toggled(what, t) == (t \ {what}) \cup ({what} \ t)

\* Swapping the MAC addresses does not make a network header.
LEMMA MacsHadAddrs ==
  ASSUME NEW f \in Frame, Len(f) >= 7, HasAddrs(SwapMacs(f))
  PROVE  HasAddrs(f)
<1>1. SwapMacs(f) \in Frame /\ SwapMacs(SwapMacs(f)) = f
  BY MacsFrom, MacsTwice, Zenon
<1> QED
  BY <1>1, MacsKeepAddrs, Zenon

\* One more swap of the MAC addresses.
LEMMA TurnMac ==
  ASSUME NEW f \in Frame, Len(f) >= 7, NEW t, "ip" \in t => HasAddrs(f)
  PROVE  /\ TurnedBy(t, f) \in Frame /\ Len(TurnedBy(t, f)) = Len(f)
         /\ SwapMacs(TurnedBy(t, f)) = TurnedBy(Toggled("mac", t), f)
<1> DEFINE m == SwapMacs(f)
           u == Toggled("mac", t)
<1>1. m \in Frame /\ Len(m) = Len(f) /\ SwapMacs(m) = f
  BY MacsFrom, MacsTwice, Zenon
<1>2. ("mac" \in u <=> "mac" \notin t) /\ ("ip" \in u <=> "ip" \in t)
  BY DEF Toggled
<1> HIDE DEF m, u
<1>3. CASE "ip" \notin t
  <2>1. "mac" \in t => TurnedBy(t, f) = m /\ TurnedBy(u, f) = f
    BY <1>2, <1>3, Zenon DEF TurnedBy, m
  <2>2. "mac" \notin t => TurnedBy(t, f) = f /\ TurnedBy(u, f) = m
    BY <1>2, <1>3, Zenon DEF TurnedBy, m
  <2> QED
    BY <1>1, <2>1, <2>2, Zenon DEF m, u
<1>4. CASE "ip" \in t
  <2>0. HasAddrs(f) /\ HasAddrs(m)
    BY <1>4, MacsKeepAddrs, Zenon DEF m
  <2>1. /\ SwapAddrs(f) \in Frame /\ Len(SwapAddrs(f)) = Len(f)
        /\ SwapMacs(SwapAddrs(f)) = SwapAddrs(m)
    BY <2>0, AddrsFrom, MacsAndAddrs, Zenon DEF m
  <2>2. /\ SwapAddrs(m) \in Frame /\ Len(SwapAddrs(m)) = Len(f)
        /\ SwapMacs(SwapAddrs(m)) = SwapAddrs(f)
    BY <1>1, <2>0, AddrsFrom, MacsAndAddrs, ZenonT(60)
  <2>3. "mac" \in t => TurnedBy(t, f) = SwapAddrs(m) /\ TurnedBy(u, f) = SwapAddrs(f)
    BY <1>2, <1>4, Zenon DEF TurnedBy, m
  <2>4. "mac" \notin t => TurnedBy(t, f) = SwapAddrs(f) /\ TurnedBy(u, f) = SwapAddrs(m)
    BY <1>2, <1>4, Zenon DEF TurnedBy, m
  <2> QED
    BY <2>1, <2>2, <2>3, <2>4, ZenonT(60) DEF u
<1> QED
  BY <1>3, <1>4, Zenon

\* One more swap of the network addresses.
LEMMA TurnIp ==
  ASSUME NEW f \in Frame, Len(f) >= 7, NEW t, "ip" \in t => HasAddrs(f),
         HasAddrs(TurnedBy(t, f))
  PROVE  HasAddrs(f) /\ SwapAddrs(TurnedBy(t, f)) = TurnedBy(Toggled("ip", t), f)
<1> DEFINE m == SwapMacs(f)
           u == Toggled("ip", t)
<1>1. m \in Frame
  BY MacsFrom, Zenon
<1>2. ("mac" \in u <=> "mac" \in t) /\ ("ip" \in u <=> "ip" \notin t)
  BY DEF Toggled
<1> HIDE DEF m, u
<1>3. CASE "ip" \notin t
  <2>1. "mac" \in t => TurnedBy(t, f) = m /\ TurnedBy(u, f) = SwapAddrs(m)
    BY <1>2, <1>3, Zenon DEF TurnedBy, m
  <2>2. "mac" \notin t => TurnedBy(t, f) = f /\ TurnedBy(u, f) = SwapAddrs(f)
    BY <1>2, <1>3, Zenon DEF TurnedBy
  <2>3. HasAddrs(m) => HasAddrs(f)
    BY MacsHadAddrs, Zenon DEF m
  <2> QED
    BY <2>1, <2>2, <2>3, Zenon DEF u
<1>4. CASE "ip" \in t
  <2>0. HasAddrs(f) /\ HasAddrs(m)
    BY <1>4, MacsKeepAddrs, Zenon DEF m
  <2>1. SwapAddrs(SwapAddrs(f)) = f /\ SwapAddrs(SwapAddrs(m)) = m
    BY <1>1, <2>0, AddrsTwice, Zenon
  <2>2. "mac" \in t => TurnedBy(t, f) = SwapAddrs(m) /\ TurnedBy(u, f) = m
    BY <1>2, <1>4, Zenon DEF TurnedBy, m
  <2>3. "mac" \notin t => TurnedBy(t, f) = SwapAddrs(f) /\ TurnedBy(u, f) = f
    BY <1>2, <1>4, Zenon DEF TurnedBy
  <2> QED
    BY <2>0, <2>1, <2>2, <2>3, ZenonT(60) DEF u
<1> QED
  BY <1>3, <1>4, Zenon
-----------------------------------------------------------------------------
\* The inductive invariant for the rewrites: as long as no tag of the received frame
\* was popped, the frame is the received one, turned and tagged; it was long enough
\* for what was done to it, and has a network header if its addresses are turned.
UndoInv ==
    ~ popped =>
      /\ frame = TagAll(TurnedBy(turned, orig), pushed)
      /\ pushed # <<>> \/ turned # {} => Len(orig) >= 7
      /\ "ip" \in turned => HasAddrs(orig)

\* Nothing is turned or tagged at first.
LEMMA UndoInit == Init => UndoInv
<1> SUFFICES ASSUME Init PROVE UndoInv
  BY Zenon
<1>1. frame = orig /\ pushed = <<>> /\ turned = {}
  BY Zenon DEF Init
<1>2. "ip" \notin turned /\ "mac" \notin turned
  BY <1>1, Zenon
<1>3. TurnedBy(turned, orig) = orig
  BY <1>2, Zenon DEF TurnedBy
<1>4. TagAll(orig, <<>>) = orig
  BY TagAllEmpty, Zenon
<1> QED
  BY <1>1, <1>2, <1>3, <1>4, Zenon DEF UndoInv

\* A step that leaves the packet alone.
LEMMA Untouched ==
  ASSUME UndoInv, UNCHANGED <<orig, pushed, popped, turned, frame>>
  PROVE  UndoInv'
BY Zenon DEF UndoInv

\* The parsers leave the packet alone.
LEMMA CallUntouched ==
  ASSUME UndoInv, NEW l, NEW result, Call(l, result)
  PROVE  UndoInv'
<1>1. UNCHANGED <<orig, pushed, popped, turned, frame>>
  BY Zenon DEF Call
<1> QED
  BY <1>1, Untouched, Zenon

\* What a rewrite of a frame with a whole Ethernet header starts from.
LEMMA BeforeRewrite ==
  ASSUME HelperInv, UndoInv, ~ popped, Len(frame) >= 7
  PROVE  /\ orig \in Frame /\ Len(orig) >= 7 /\ pushed \in Seq(Vlids)
         /\ TurnedBy(turned, orig) \in Frame /\ Len(TurnedBy(turned, orig)) >= 7
         /\ frame = TagAll(TurnedBy(turned, orig), pushed)
         /\ SwapsPass(TurnedBy(turned, orig), pushed)
         /\ SwapMacs(TurnedBy(turned, orig)) = TurnedBy(Toggled("mac", turned), orig)
<1>1. orig \in Frame /\ pushed \in Seq(Vlids)
  BY Zenon DEF HelperInv, TypeOK
<1>2. /\ frame = TagAll(TurnedBy(turned, orig), pushed)
      /\ pushed # <<>> \/ turned # {} => Len(orig) >= 7
      /\ "ip" \in turned => HasAddrs(orig)
  BY Zenon DEF UndoInv
<1>3. Len(orig) >= 7
  <2> SUFFICES ASSUME pushed = <<>>, turned = {} PROVE Len(orig) >= 7
    BY <1>2, Zenon
  <2>1. "ip" \notin turned /\ "mac" \notin turned
    BY Zenon
  <2>2. TurnedBy(turned, orig) = orig
    BY <2>1, Zenon DEF TurnedBy
  <2>3. frame = orig
    BY <1>2, <2>2, TagAllEmpty, Zenon
  <2> QED
    BY <2>3, Zenon
<1>4. /\ TurnedBy(turned, orig) \in Frame /\ Len(TurnedBy(turned, orig)) = Len(orig)
      /\ SwapMacs(TurnedBy(turned, orig)) = TurnedBy(Toggled("mac", turned), orig)
  BY <1>1, <1>2, <1>3, TurnMac, ZenonT(60)
<1>5. Len(TurnedBy(turned, orig)) >= 7
  BY <1>3, <1>4, Zenon
<1>6. SwapsPass(TurnedBy(turned, orig), pushed)
  BY <1>1, <1>4, <1>5, SwapsPassTags, ZenonT(60)
<1> QED
  BY <1>1, <1>2, <1>3, <1>4, <1>5, <1>6, ZenonT(60)

\* vlan_tag_push adds the last tag.
LEMMA PushUndoable ==
  ASSUME HelperInv, UndoInv, NEW vlid \in Vlids, vlan_tag_push(vlid)
  PROVE  UndoInv'
<1> DEFINE T == TurnedBy(turned, orig)
<1>1. /\ Len(frame) >= 7 /\ UNCHANGED <<orig, popped, turned, l3>>
      /\ \/ Rewritten(Tag(frame, vlid), ret') /\ pushed' = Append(pushed, vlid)
         \/ UNCHANGED <<pushed, frame>>
  BY PushDoes, Zenon
<1>2. CASE UNCHANGED <<pushed, frame>>
  BY <1>1, <1>2, Untouched, Zenon
<1>3. CASE Rewritten(Tag(frame, vlid), ret') /\ pushed' = Append(pushed, vlid)
  <2> SUFFICES ASSUME ~ popped'
               PROVE  /\ frame' = TagAll(TurnedBy(turned', orig'), pushed')
                      /\ pushed' # <<>> \/ turned' # {} => Len(orig') >= 7
                      /\ "ip" \in turned' => HasAddrs(orig')
    BY Zenon DEF UndoInv
  <2>1. ~ popped /\ orig' = orig /\ turned' = turned /\ frame' = Tag(frame, vlid)
    BY <1>1, <1>3, Zenon DEF Rewritten
  <2>2. Len(orig) >= 7 /\ frame = TagAll(T, pushed) /\ pushed \in Seq(Vlids)
    BY <1>1, <2>1, BeforeRewrite, ZenonT(60)
  <2>3. "ip" \in turned => HasAddrs(orig)
    BY <2>1, Zenon DEF UndoInv
  <2> HIDE DEF T
  <2>4. TagAll(T, Append(pushed, vlid)) = Tag(TagAll(T, pushed), vlid)
    BY <2>2, TagAllAppend, ZenonT(60)
  <2>5. frame' = TagAll(T, pushed')
    BY <1>3, <2>1, <2>2, <2>4, Zenon
  <2> QED
    BY <2>1, <2>2, <2>3, <2>5, ZenonT(60) DEF T
<1> QED
  BY <1>1, <1>2, <1>3, Zenon

\* vlan_tag_pop takes the last tag off again, or one of the received frame.
LEMMA PopUndoes ==
  ASSUME HelperInv, UndoInv, vlan_tag_pop
  PROVE  UndoInv'
<1> DEFINE T == TurnedBy(turned, orig)
           u == SubSeq(pushed, 1, Len(pushed) - 1)
           v == pushed[Len(pushed)]
<1>1. CASE ret' # -1
  <2>1. /\ frame \in Frame /\ Len(frame) >= 7
        /\ Rewritten(Untag(frame), ret') /\ popped' = (popped \/ pushed = <<>>)
        /\ pushed' = IF pushed = <<>> THEN <<>> ELSE u
        /\ orig' = orig /\ turned' = turned
    <3>1. /\ frame \in Frame /\ Len(frame) \in Nat /\ Len(frame) >= 9
          /\ Rewritten(Untag(frame), ret') /\ popped' = (popped \/ pushed = <<>>)
          /\ pushed' = IF pushed = <<>> THEN <<>> ELSE u
          /\ UNCHANGED <<orig, turned, l3>>
      BY <1>1, PopDoes, Zenon
    <3>2. Len(frame) >= 7
      BY <3>1
    <3> QED
      BY <3>1, <3>2, Zenon
  <2> SUFFICES ASSUME ~ popped'
               PROVE  /\ frame' = TagAll(TurnedBy(turned', orig'), pushed')
                      /\ pushed' # <<>> \/ turned' # {} => Len(orig') >= 7
                      /\ "ip" \in turned' => HasAddrs(orig')
    BY Zenon DEF UndoInv
  <2>2. ~ popped /\ pushed # <<>> /\ frame' = Untag(frame) /\ pushed' = u
    BY <2>1, Zenon DEF Rewritten
  <2>3. /\ Len(orig) >= 7 /\ frame = TagAll(T, pushed) /\ pushed \in Seq(Vlids)
        /\ T \in Frame /\ Len(T) >= 7
    BY <2>1, <2>2, BeforeRewrite, ZenonT(60)
  <2>4. "ip" \in turned => HasAddrs(orig)
    BY <2>2, Zenon DEF UndoInv
  <2>5. u \in Seq(Vlids) /\ v \in Vlids /\ v \in Int /\ pushed = Append(u, v)
    BY <2>2, <2>3, ButLast, VlidsAssumption, ZenonT(60)
  <2> HIDE DEF T, u, v
  <2>6. TagAll(T, u) \in Frame /\ Len(TagAll(T, u)) >= 7
    BY <2>3, <2>5, SwapsPassTags, ZenonT(60) DEF SwapsPass
  <2>7. frame = Tag(TagAll(T, u), v)
    BY <2>3, <2>5, TagAllAppend, ZenonT(60)
  <2>8. Untag(Tag(TagAll(T, u), v)) = TagAll(T, u)
    BY <2>5, <2>6, UntagTag, Zenon
  <2>9. frame' = TagAll(T, pushed')
    BY <2>2, <2>7, <2>8, ZenonT(60)
  <2> QED
    BY <2>1, <2>3, <2>4, <2>9, ZenonT(60) DEF T
<1>2. CASE ret' = -1
  <2>1. UNCHANGED <<orig, pushed, popped, turned, frame>>
    BY <1>2, PopRefused, Zenon
  <2> QED
    BY <2>1, Untouched, Zenon
<1> QED
  BY <1>1, <1>2, Zenon

\* swap_src_dst_mac reaches through all pushed tags.
LEMMA MacUndoable ==
  ASSUME HelperInv, UndoInv, swap_src_dst_mac
  PROVE  UndoInv'
<1> DEFINE T == TurnedBy(turned, orig)
<1>1. /\ frame' = SwapMacs(frame) /\ turned' = Toggled("mac", turned)
      /\ orig' = orig /\ pushed' = pushed /\ popped' = popped /\ layer = "l3"
  BY Zenon DEF swap_src_dst_mac, Turn, Toggled
<1> SUFFICES ASSUME ~ popped'
             PROVE  /\ frame' = TagAll(TurnedBy(turned', orig'), pushed')
                    /\ pushed' # <<>> \/ turned' # {} => Len(orig') >= 7
                    /\ "ip" \in turned' => HasAddrs(orig')
  BY Zenon DEF UndoInv
<1>2. ~ popped /\ Len(frame) >= 7
  BY <1>1, Zenon DEF HelperInv, CursorInv, AtNetwork
<1>3. /\ Len(orig) >= 7 /\ frame = TagAll(T, pushed) /\ SwapsPass(T, pushed)
      /\ SwapMacs(T) = TurnedBy(Toggled("mac", turned), orig)
  BY <1>2, BeforeRewrite, Zenon
<1>4. "ip" \in turned' => HasAddrs(orig)
  <2>1. "ip" \in turned' => "ip" \in turned
    BY <1>1 DEF Toggled
  <2> QED
    BY <1>2, <2>1, Zenon DEF UndoInv
<1> HIDE DEF T
<1>5. SwapMacs(TagAll(T, pushed)) = TagAll(SwapMacs(T), pushed)
  BY <1>3, Zenon DEF SwapsPass
<1>6. frame' = TagAll(TurnedBy(turned', orig), pushed)
  BY <1>1, <1>3, <1>5, Zenon
<1> QED
  BY <1>1, <1>3, <1>4, <1>6, ZenonT(60)

\* So do swap_src_dst_ipv4 and swap_src_dst_ipv6.
LEMMA IpUndoable ==
  ASSUME HelperInv, UndoInv, swap_src_dst_ipv4 \/ swap_src_dst_ipv6
  PROVE  UndoInv'
<1> DEFINE T == TurnedBy(turned, orig)
<1>1. /\ frame' = SwapAddrs(frame) /\ turned' = Toggled("ip", turned)
      /\ orig' = orig /\ pushed' = pushed /\ popped' = popped /\ Addressed(frame, l3)
  BY SwapIpSwapsAddrs, Zenon DEF Toggled
<1> SUFFICES ASSUME ~ popped'
             PROVE  /\ frame' = TagAll(TurnedBy(turned', orig'), pushed')
                    /\ pushed' # <<>> \/ turned' # {} => Len(orig') >= 7
                    /\ "ip" \in turned' => HasAddrs(orig')
  BY Zenon DEF UndoInv
<1>2. ~ popped /\ Len(frame) >= 7 /\ HasAddrs(frame)
  BY <1>1, Zenon DEF Addressed, HasAddrs
<1>3. /\ orig \in Frame /\ Len(orig) >= 7 /\ frame = TagAll(T, pushed) /\ SwapsPass(T, pushed)
  BY <1>2, BeforeRewrite, Zenon
<1>4. "ip" \in turned => HasAddrs(orig)
  BY <1>2, Zenon DEF UndoInv
<1> HIDE DEF T
<1>5. HasAddrs(T) /\ SwapAddrs(TagAll(T, pushed)) = TagAll(SwapAddrs(T), pushed)
  BY <1>2, <1>3, ZenonT(60) DEF SwapsPass
<1>6. HasAddrs(orig) /\ SwapAddrs(T) = TurnedBy(Toggled("ip", turned), orig)
  BY <1>3, <1>4, <1>5, TurnIp, ZenonT(60) DEF T
<1>7. frame' = TagAll(TurnedBy(turned', orig), pushed)
  BY <1>1, <1>3, <1>5, <1>6, ZenonT(60)
<1> QED
  BY <1>1, <1>3, <1>6, <1>7, ZenonT(60)

\* Every call of a helper keeps the invariant.
LEMMA UndoNext == HelperInv /\ UndoInv /\ [Next]_vars => UndoInv'
<1> SUFFICES ASSUME HelperInv, UndoInv, [Next]_vars PROVE UndoInv'
  BY Zenon
<1>1. CASE ParseEth
  BY <1>1, CallUntouched, Zenon DEF ParseEth
<1>2. CASE ParseIp
  BY <1>2, CallUntouched, Zenon DEF ParseIp
<1>3. CASE ParseIp6
  BY <1>3, CallUntouched, Zenon DEF ParseIp6
<1>4. CASE ParseIcmp6
  BY <1>4, CallUntouched, ZenonT(60) DEF ParseIcmp6
<1>5. CASE ParseIcmp
  BY <1>5, CallUntouched, Zenon DEF ParseIcmp
<1>6. CASE ParseIcmpCommon
  BY <1>6, CallUntouched, Zenon DEF ParseIcmpCommon
<1>7. CASE ParseUdp
  BY <1>7, CallUntouched, Zenon DEF ParseUdp
<1>8. CASE ParseTcp
  BY <1>8, CallUntouched, Zenon DEF ParseTcp
<1>9. CASE swap_src_dst_mac
  BY <1>9, MacUndoable, Zenon
<1>10. CASE swap_src_dst_ipv4 \/ swap_src_dst_ipv6
  BY <1>10, IpUndoable, Zenon
<1>11. CASE vlan_tag_pop
  BY <1>11, PopUndoes, Zenon
<1>12. CASE \E vlid \in Vlids : vlan_tag_push(vlid)
  BY <1>12, PushUndoable, Zenon
<1>13. CASE UNCHANGED vars
  BY <1>13, Untouched, ZenonT(60) DEF vars
<1> QED
  BY ZenonT(60), <1>1, <1>2, <1>3, <1>4, <1>5, <1>6, <1>7, <1>8, <1>9, <1>10, <1>11, <1>12, <1>13,
     Zenon DEF Next

\* For any packet and any sequence of pushes, pops and address swaps, however many
\* and in any order, the packet is the received one with the tags not yet popped in
\* front and the addresses turned by parity, bit for bit, until a tag of the
\* received packet itself is popped.
THEOREM RewritesCanBeUndone == Spec => []RewritesUndo
<1>1. UndoInv => RewritesUndo
  BY Zenon DEF UndoInv, RewritesUndo, TurnedBy, Turned
<1> QED
  BY <1>1, HelperInvHolds, UndoInit, UndoNext, PTL DEF Spec
=============================================================================
