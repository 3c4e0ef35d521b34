--------------------------- MODULE XdpStatsProofs ---------------------------
(***************************************************************************)
(* For any number of CPUs, actions and packets: no update of the per-CPU   *)
(* records is lost and no counter runs backwards, though no update is      *)
(* atomic, and a copy taken in the middle of one is short of at most one   *)
(* packet.                                                                 *)
(***************************************************************************)
EXTENDS XdpStats, TLAPS

\* A record in the middle of an update.
MidUpdate(c, k) ==
    IF action[c] = k /\ at[c] \in {"load_bytes", "store_bytes"} THEN 1 ELSE 0

\* The records of a CPU against its ghosts, and its register against the record
\* it was loaded from: nobody else writes that record in between.
Exact(c) ==
    /\ \A k \in Keys : /\ rx_packets[<<c, k>>] = packets[<<c, k>>] + MidUpdate(c, k)
                       /\ rx_bytes[<<c, k>>] = bytes[<<c, k>>]
    /\ at[c] = "store_packets" => tmp[c] = rx_packets[<<c, action[c]>>]
    /\ at[c] = "store_bytes" => tmp[c] = rx_bytes[<<c, action[c]>>]

UpdateInv == TypeOK /\ \A c \in CPUs : Exact(c)

\* At first all records are zero.
LEMMA InitUpdateInv == Init => UpdateInv
  BY BoundsAssumption
  DEF Init, UpdateInv, TypeOK, Exact, MidUpdate, Records, Keys, Steps, XDP_ABORTED

\* Every step of every CPU and of the reader keeps the types.
LEMMA NextTypeOK == TypeOK /\ [Next]_vars => TypeOK'
<1> SUFFICES ASSUME TypeOK, [Next]_vars PROVE TypeOK'
  OBVIOUS
<1> USE ActionsAssumption, BoundsAssumption
        DEF TypeOK, cpu, ghosts, reader, Goto, Steps
<1>1. ASSUME NEW c \in CPUs, Reject(c) PROVE TypeOK'
  BY <1>1 DEF Reject
<1>2. ASSUME NEW c \in CPUs, NEW a \in Actions, NEW s \in Sizes, Lookup(c, a, s)
      PROVE  TypeOK'
  BY <1>2 DEF Lookup, Keys, Rejected
<1>3. ASSUME NEW c \in CPUs, LoadPackets(c) PROVE TypeOK'
  BY <1>3 DEF LoadPackets, Record, Records
<1>4. ASSUME NEW c \in CPUs, StorePackets(c) PROVE TypeOK'
  BY <1>4 DEF StorePackets, Record, Records
<1>5. ASSUME NEW c \in CPUs, LoadBytes(c) PROVE TypeOK'
  BY <1>5 DEF LoadBytes, Record, Records
<1>6. ASSUME NEW c \in CPUs, StoreBytes(c) PROVE TypeOK'
  BY <1>6 DEF StoreBytes, Record, Records
<1>7. ASSUME NEW r \in Records, ReadPackets(r) PROVE TypeOK'
  BY <1>7 DEF ReadPackets
<1>8. ASSUME NEW r \in Records, ReadBytes(r) PROVE TypeOK'
  BY <1>8 DEF ReadBytes
<1>9. CASE UNCHANGED vars
  BY <1>9 DEF vars
<1>10. QED
  BY <1>1, <1>2, <1>3, <1>4, <1>5, <1>6, <1>7, <1>8, <1>9 DEF Next

\* A step of one CPU keeps the records of every CPU exact: it writes only its
\* own, from a register that is still up to date.
LEMMA NextExact ==
  UpdateInv /\ [Next]_vars => \A d \in CPUs : Exact(d)'
<1> SUFFICES ASSUME TypeOK, \A c \in CPUs : Exact(c), [Next]_vars, NEW d \in CPUs
             PROVE  Exact(d)'
  BY DEF UpdateInv
<1> USE DEF TypeOK, cpu, ghosts, reader, Goto, Records, Exact, MidUpdate
<1>1. ASSUME NEW c \in CPUs, Reject(c) PROVE Exact(d)'
  BY <1>1 DEF Reject
<1>2. ASSUME NEW c \in CPUs, NEW a \in Actions, NEW s \in Sizes, Lookup(c, a, s)
      PROVE  Exact(d)'
  BY <1>2 DEF Lookup
<1>3. ASSUME NEW c \in CPUs, LoadPackets(c) PROVE Exact(d)'
  BY <1>3, Zenon DEF LoadPackets, Record
<1>4. ASSUME NEW c \in CPUs, StorePackets(c) PROVE Exact(d)'
  BY <1>4 DEF StorePackets, Record
<1>5. ASSUME NEW c \in CPUs, LoadBytes(c) PROVE Exact(d)'
  BY <1>5, Zenon DEF LoadBytes, Record
<1>6. ASSUME NEW c \in CPUs, StoreBytes(c) PROVE Exact(d)'
  <2>1. CASE d = c
    <3>1. ASSUME NEW k \in Keys
          PROVE  rx_packets'[<<c, k>>] = packets'[<<c, k>>] + MidUpdate(c, k)'
      <4>1. <<c, k>> \in Records /\ packets[<<c, k>>] \in Nat /\ MidUpdate(c, k)' = 0
        BY <1>6, <3>1 DEF StoreBytes
      <4>2. /\ rx_packets' = rx_packets /\ at[c] = "store_bytes"
            /\ packets' = [packets EXCEPT ![<<c, action[c]>>] = @ + 1]
        BY <1>6 DEF StoreBytes
      <4>3. CASE k = action[c]
        BY <3>1, <4>1, <4>2, <4>3
      <4>4. CASE k # action[c]
        BY <3>1, <4>1, <4>2, <4>4
      <4>5. QED
        BY <4>3, <4>4
    <3>2. ASSUME NEW k \in Keys PROVE rx_bytes'[<<c, k>>] = bytes'[<<c, k>>]
      BY <1>6, <3>2 DEF StoreBytes, Record
    <3>3. at'[c] = "idle"
      BY <1>6 DEF StoreBytes
    <3>4. QED
      BY <2>1, <3>1, <3>2, <3>3
  <2>2. CASE d # c
    BY <1>6, <2>2 DEF StoreBytes, Record
  <2>3. QED
    BY <2>1, <2>2
<1>7. ASSUME NEW r \in Records, ReadPackets(r) PROVE Exact(d)'
  BY <1>7 DEF ReadPackets
<1>8. ASSUME NEW r \in Records, ReadBytes(r) PROVE Exact(d)'
  BY <1>8 DEF ReadBytes
<1>9. CASE UNCHANGED vars
  BY <1>9 DEF vars
<1>10. QED
  BY <1>1, <1>2, <1>3, <1>4, <1>5, <1>6, <1>7, <1>8, <1>9, Zenon DEF Next

\* The registers agree with the records at all times.
LEMMA SpecUpdateInv == Spec => []UpdateInv
<1>1. UpdateInv /\ [Next]_vars => UpdateInv'
  BY NextTypeOK, NextExact DEF UpdateInv
<1>2. QED
  BY InitUpdateInv, <1>1, PTL DEF Spec

\* The records, registers and copies of the model keep their types; in
\* particular no call goes on with an action the map has no record for.
THEOREM StatsTypeOK == Spec => []TypeOK
<1>1. UpdateInv => TypeOK
  BY DEF UpdateInv
<1>2. QED
  BY SpecUpdateInv, <1>1, PTL

\* xdp_stats_kern.h:35-38: a per-CPU record needs no atomic operation.
THEOREM StatsNoLostUpdate == Spec => []NoLostUpdate
<1>1. UpdateInv => NoLostUpdate
  <2> SUFFICES ASSUME UpdateInv, NEW c \in CPUs, NEW k \in Keys, at[c] = "idle"
               PROVE  /\ rx_packets[<<c, k>>] = packets[<<c, k>>]
                      /\ rx_bytes[<<c, k>>] = bytes[<<c, k>>]
    BY DEF NoLostUpdate
  <2>1. Exact(c) /\ packets[<<c, k>>] \in Nat
    BY DEF UpdateInv, TypeOK, Records
  <2>2. MidUpdate(c, k) = 0
    BY DEF MidUpdate
  <2>3. QED
    BY <2>1, <2>2 DEF Exact
<1>2. QED
  BY SpecUpdateInv, <1>1, PTL

\* A store never takes a record below what it held: the register it comes from was
\* loaded from that record, and nobody else has written it since.
THEOREM StatsCountersGrow == Spec => CountersGrow
<1> DEFINE Grow == \A r \in Records : rx_packets'[r] >= rx_packets[r] /\ rx_bytes'[r] >= rx_bytes[r]
<1>1. ASSUME UpdateInv, [Next]_vars PROVE [Grow]_vars
  <2>0. /\ rx_packets \in [Records -> Nat] /\ rx_bytes \in [Records -> Nat]
        /\ size \in [CPUs -> Nat] /\ action \in [CPUs -> Keys]
    BY <1>1 DEF UpdateInv, TypeOK
  <2>1. CASE UNCHANGED <<rx_packets, rx_bytes>>
    BY <2>0, <2>1
  <2>2. ASSUME NEW c \in CPUs, StorePackets(c) PROVE Grow
    <3>1. <<c, action[c]>> \in Records /\ tmp[c] = rx_packets[<<c, action[c]>>]
      BY <1>1, <2>0, <2>2 DEF StorePackets, UpdateInv, Exact, Records
    <3> QED BY <2>0, <2>2, <3>1 DEF StorePackets, Record
  <2>3. ASSUME NEW c \in CPUs, StoreBytes(c) PROVE Grow
    <3>1. <<c, action[c]>> \in Records /\ tmp[c] = rx_bytes[<<c, action[c]>>]
      BY <1>1, <2>0, <2>3 DEF StoreBytes, UpdateInv, Exact, Records
    <3> QED BY <2>0, <2>3, <3>1 DEF StoreBytes, Record
  <2> QED
    BY <1>1, <2>1, <2>2, <2>3, Zenon
    DEF Next, vars, Reject, Lookup, LoadPackets, LoadBytes, ReadPackets, ReadBytes
<1>2. QED
  BY <1>1, SpecUpdateInv, PTL DEF Spec, CountersGrow

\* No packet has fewer than m bytes.
Least(m) == \A s \in Sizes : m <= s

\* Behind the records: the bytes returned are at least m a packet, a CPU in a call
\* handles a packet of the sizes there are, and the reader has copied at most the
\* one packet that is not returned yet.
SizeInv(m) ==
    /\ \A c \in CPUs : at[c] # "idle" => size[c] \in Sizes
    /\ \A r \in Records : bytes[r] >= m * packets[r]
    /\ \A r \in reading : copied <= packets[r] + 1

\* One more packet of at least m bytes.
LEMMA OneMore ==
  ASSUME NEW m \in Nat, NEW p \in Nat, NEW b \in Nat, NEW s \in Nat,
         b >= m * p, s >= m
  PROVE  b + s >= m * (p + 1)
<1>1. m * (p + 1) = m * p + m /\ m * p \in Nat
  OBVIOUS
<1> QED BY <1>1

\* Fewer packets have fewer bytes at least.
LEMMA Times ==
  ASSUME NEW m \in Nat, NEW p \in Nat, NEW k \in Nat, k <= p
  PROVE  m * k <= m * p
<1>1. PICK d \in Nat : p = k + d
  <2>1. p - k \in Nat /\ p = k + (p - k)
    OBVIOUS
  <2> QED BY <2>1
<1>2. m * p = m * k + m * d /\ m * d \in Nat /\ m * k \in Nat
  BY <1>1
<1> QED BY <1>2

\* No step takes the bytes of a record below m per packet.
LEMMA NextSizeInv ==
  ASSUME NEW m \in Sizes, Least(m), UpdateInv, SizeInv(m), [Next]_vars
  PROVE  SizeInv(m)'
<1> USE ActionsAssumption DEF cpu, ghosts, reader, Goto
<1>t. /\ bytes \in [Records -> Nat] /\ packets \in [Records -> Nat]
      /\ size \in [CPUs -> Nat] /\ at \in [CPUs -> Steps] /\ reading \subseteq Records
      /\ action \in [CPUs -> Keys] /\ copied \in Nat /\ m \in Nat
  BY DEF UpdateInv, TypeOK
<1>1. ASSUME NEW c \in CPUs, Reject(c) PROVE SizeInv(m)'
  BY <1>1 DEF Reject, SizeInv
<1>2. ASSUME NEW c \in CPUs, NEW a \in Actions, NEW s \in Sizes, Lookup(c, a, s)
      PROVE  SizeInv(m)'
  BY <1>t, <1>2 DEF Lookup, SizeInv
<1>3. ASSUME NEW c \in CPUs, LoadPackets(c) \/ StorePackets(c) \/ LoadBytes(c)
      PROVE  SizeInv(m)'
  BY <1>t, <1>3 DEF LoadPackets, StorePackets, LoadBytes, SizeInv
<1>4. ASSUME NEW c \in CPUs, StoreBytes(c) PROVE SizeInv(m)'
  <2> DEFINE q == <<c, action[c]>>
  <2>1. /\ packets' = [packets EXCEPT ![q] = @ + 1]
        /\ bytes' = [bytes EXCEPT ![q] = @ + size[c]]
        /\ at[c] = "store_bytes" /\ at' = [at EXCEPT ![c] = "idle"]
        /\ UNCHANGED <<size, reading, copied>>
    BY <1>4 DEF StoreBytes
  <2>2. q \in Records
    BY <1>t DEF Records
  <2> HIDE DEF q
  <2>3. size[c] \in Nat /\ size[c] >= m
    BY <1>t, <2>1 DEF SizeInv, Least
  <2>4. ASSUME NEW r \in Records PROVE bytes'[r] >= m * packets'[r]
    <3>1. CASE r = q
      <4>1. bytes'[r] = bytes[r] + size[c] /\ packets'[r] = packets[r] + 1
        BY <1>t, <2>1, <2>2, <3>1
      <4>2. bytes[r] >= m * packets[r] /\ bytes[r] \in Nat /\ packets[r] \in Nat
        BY <1>t DEF SizeInv
      <4>3. bytes[r] + size[c] >= m * (packets[r] + 1)
        BY <1>t, <2>3, <4>2, OneMore
      <4> QED BY <4>1, <4>3
    <3>2. CASE r # q
      <4>1. bytes'[r] = bytes[r] /\ packets'[r] = packets[r]
        BY <1>t, <2>1, <2>2, <3>2
      <4> QED BY <4>1 DEF SizeInv
    <3> QED BY <3>1, <3>2
  <2>5. ASSUME NEW r \in reading PROVE copied <= packets'[r] + 1
    <3>1. packets[r] \in Nat /\ copied <= packets[r] + 1
      BY <1>t DEF SizeInv
    <3>2. packets'[r] = packets[r] \/ packets'[r] = packets[r] + 1
      BY <1>t, <2>1, <2>2
    <3> QED BY <1>t, <3>1, <3>2
  <2>6. \A d \in CPUs : at'[d] # "idle" => size'[d] \in Sizes
    BY <1>t, <2>1 DEF SizeInv
  <2> QED BY <2>1, <2>4, <2>5, <2>6 DEF SizeInv
<1>5. ASSUME NEW r \in Records, ReadPackets(r) PROVE SizeInv(m)'
  <2>1. PICK c \in CPUs, k \in Keys : r = <<c, k>>
    BY DEF Records
  <2>2. rx_packets[r] = packets[r] + MidUpdate(c, k) /\ MidUpdate(c, k) \in {0, 1}
    BY <2>1, Zenon DEF UpdateInv, Exact, MidUpdate
  <2>3. rx_packets[r] <= packets[r] + 1
    BY <1>t, <2>2
  <2>4. reading' = {r} /\ copied' = rx_packets[r]
        /\ UNCHANGED <<packets, bytes, at, size>>
    BY <1>5 DEF ReadPackets
  <2> QED BY <2>3, <2>4 DEF SizeInv
<1>6. ASSUME NEW r \in Records, ReadBytes(r) PROVE SizeInv(m)'
  BY <1>6 DEF ReadBytes, SizeInv
<1>7. CASE UNCHANGED vars
  BY <1>7 DEF vars, SizeInv
<1> QED
  BY <1>1, <1>2, <1>3, <1>4, <1>5, <1>6, <1>7 DEF Next

\* For any number of CPUs and packets of any sizes, a copy taken in the middle of
\* an update is short of at most one packet.
THEOREM StatsSnapshotNearlyWhole == Spec => []SnapshotNearlyWhole
<1> DEFINE Inv == \A m \in Sizes : Least(m) => SizeInv(m)
<1>1. Init => Inv
  <2> SUFFICES ASSUME Init, NEW m \in Sizes PROVE SizeInv(m)
    OBVIOUS
  <2>1. m \in Nat /\ m * 0 = 0
    BY ActionsAssumption
  <2> QED BY <2>1 DEF Init, SizeInv
<1>2. UpdateInv /\ Inv /\ [Next]_vars => Inv'
  <2> SUFFICES ASSUME UpdateInv, Inv, [Next]_vars, NEW m \in Sizes, Least(m)
               PROVE  SizeInv(m)'
    BY DEF Least
  <2> QED BY NextSizeInv
<1>3. UpdateInv /\ Inv => SnapshotNearlyWhole
  <2> SUFFICES ASSUME UpdateInv, Inv, NEW r \in reading, NEW m \in Sizes, Least(m)
               PROVE  rx_bytes[r] + m >= m * copied
    BY DEF SnapshotNearlyWhole, Least
  <2>1. /\ m \in Nat /\ copied \in Nat /\ r \in Records
        /\ packets[r] \in Nat /\ bytes[r] \in Nat
    BY ActionsAssumption DEF UpdateInv, TypeOK
  <2>2. rx_bytes[r] = bytes[r]
    <3>1. PICK c \in CPUs, k \in Keys : r = <<c, k>>
      BY <2>1 DEF Records
    <3> QED BY <3>1, Zenon DEF UpdateInv, Exact
  <2>3. bytes[r] >= m * packets[r] /\ copied <= packets[r] + 1
    BY <2>1 DEF SizeInv
  <2>4. bytes[r] + m >= m * (packets[r] + 1)
    BY <2>1, <2>3, OneMore
  <2>5. m * copied <= m * (packets[r] + 1)
    BY <2>1, <2>3, Times
  <2>6. m * copied \in Nat /\ m * (packets[r] + 1) \in Nat
    BY <2>1
  <2> QED BY <2>1, <2>2, <2>4, <2>5, <2>6
<1> HIDE DEF Inv
<1> QED
  BY <1>1, <1>2, <1>3, SpecUpdateInv, PTL DEF Spec
=============================================================================
