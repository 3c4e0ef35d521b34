--------------------------- MODULE UdpEchoProofs ----------------------------
(***************************************************************************)
(* For any number of clients, any payloads and counts, any losses, and     *)
(* clocks set back at will: a client whose datagrams are not duplicated    *)
(* measures its own echoes, what it prints agrees with itself, and no      *)
(* datagram appears or disappears unaccounted for.                         *)
(***************************************************************************)
EXTENDS UdpEcho, FiniteSetTheorems, TLAPS

\* Where a client is in its loop.
Phase(c) ==
    /\ at[c] = "start" => i[c] = 0
    /\ at[c] \in {"send", "recv"} => i[c] < Count
    /\ at[c] \in {"report", "done"} => i[c] = Count

Echoed(c) == Min(Payload[c], BUF_SZ)

\* c has at most one datagram in flight, the probe it waits on or its answer: on
\* the network, or in the server.
OnNet(c) ==
    /\ \A d \in net : d.peer = c =>
         /\ at[c] = "recv" /\ d.seq = i[c]
         /\ d.len = IF d.kind = "probe" THEN Payload[c] ELSE Echoed(c)
    /\ \A d, e \in net : (d.peer = c /\ e.peer = c) => d = e
InServer(c) ==
    srv = "sendto" => \A d \in buf : d.peer = c =>
      /\ at[c] = "recv" /\ d.seq = i[c] /\ d.len = Echoed(c)
      /\ \A e \in net : e.peer # c

\* The samples of c are the answers to the probes it has sent, in order.
Log(c) ==
    /\ Len(samples[c]) = i[c]
    /\ \A k \in 1..Len(samples[c]) :
         samples[c][k] = [seq |-> k - 1, len |-> Echoed(c)]

Trip(c) == (dups[c] = 0 /\ fails[c] = 0) => (OnNet(c) /\ InServer(c) /\ Log(c))
TripInv == \A c \in Clients : Trip(c)

\* What a client has measured fits between its start and a time t, but for what the
\* clock was set back: n round trips of at least mn each, and the longest.
AllFit(n, mn, bk, st, t) == mn * n <= t + bk - st
LongestFits(mx, bk, st, t) == mx <= t + bk - st

\* The measures of a client at a, after n round trips: clock, sum of set-backs,
\* start, time of the last probe, minimum, maximum, total.
Fits(a, n, ck, bk, st, t, mn, mx, tot) ==
    /\ a = "start" => mx = 0
    /\ a \in {"send", "report"} => AllFit(n, mn, bk, st, ck)
    /\ a = "recv" => AllFit(n, mn, bk, st, t)
    /\ a = "recv" => st <= t + bk /\ t <= ck + bk
    /\ a \in {"send", "recv", "report"} => LongestFits(mx, bk, st, ck)
    /\ a = "done" => AllFit(n, mn, bk, 0, tot) /\ LongestFits(mx, bk, 0, tot)
    /\ -bk <= mn
    /\ n > 0 => mn <= mx
Measured(c) ==
    Fits(at[c], i[c], clock[c], back[c], start[c], t0[c], min[c], max[c], total[c])
MeasuredInv == \A c \in Clients : Measured(c)

EchoInv ==
    /\ EchoOK
    /\ \A c \in Clients : Phase(c)

\* The fields of a datagram.
LEMMA DgramFacts ==
  ASSUME NEW kind \in {"probe", "answer"}, NEW peer \in Clients, NEW seq \in 0..Count,
         NEW len \in Nat, NEW copy \in Nat
  PROVE  LET d == Dgram(kind, peer, seq, len, copy) IN
         /\ d \in Datagram
         /\ d.kind = kind /\ d.peer = peer /\ d.seq = seq /\ d.len = len
BY Zenon DEF Dgram, Datagram

\* Cutting a payload to the buffer twice is the same as once.
LEMMA MinFacts ==
  ASSUME NEW a \in Nat, NEW b \in Nat
  PROVE  Min(a, b) \in Nat /\ Min(Min(a, b), a) = Min(a, b)
BY DEF Min

\* The test at the head of the client's loop.
LEMMA EnterFacts ==
  ASSUME NEW k \in 0..Count
  PROVE  /\ Enter(k) \in {"send", "report"}
         /\ Enter(k) = "send" => k < Count
         /\ Enter(k) = "report" => k = Count
BY CountAssumption DEF Enter

\* Types and loop positions hold before the first probe.
LEMMA InitEchoInv == Init => EchoInv
<1> SUFFICES ASSUME Init PROVE EchoInv
  BY Zenon
<1>1. Cardinality({}) = 0 /\ 0 \in 0..Count
  BY FS_EmptySet, CountAssumption
<1>2. \A c \in Clients : MaxLost[c] \in Nat /\ MaxDups[c] \in Nat /\ MaxFails[c] \in Nat
  BY BoundsAssumption, Zenon
<1>3. EchoOK
  BY <1>1, <1>2, BoundsAssumption DEF Init, EchoOK
<1>4. \A c \in Clients : Phase(c)
  BY Zenon DEF Init, Phase
<1> QED BY <1>3, <1>4, Zenon DEF EchoInv

\* A datagram's fields have their types.
LEMMA FieldFacts ==
  ASSUME NEW d \in Datagram
  PROVE  /\ d.kind \in {"probe", "answer"} /\ d.peer \in Clients
         /\ d.seq \in 0..Count /\ d.len \in Nat /\ d.copy \in Nat
BY Zenon DEF Datagram

\* Every step of client, server and network keeps them.
LEMMA NextEchoInv == EchoInv /\ [Next]_vars => EchoInv'
<1> SUFFICES ASSUME EchoInv, [Next]_vars PROVE EchoInv'
  BY Zenon
<1> USE CountAssumption, PayloadAssumption
<1> USE DEF EchoInv, EchoOK, Phase, server, faults, time, measures
<1>b. /\ \A c \in Clients : MaxLost[c] \in Nat /\ MaxDups[c] \in Nat /\ MaxFails[c] \in Nat
      /\ MaxErrs \in Nat
  BY BoundsAssumption, Zenon
<1>1. ASSUME NEW c \in Clients, Start(c) PROVE EchoInv'
  BY <1>1, EnterFacts, Zenon DEF Start
<1>2. ASSUME NEW c \in Clients, Sendto(c) PROVE EchoInv'
  <2>1. i[c] \in 0..Count /\ Payload[c] \in Nat
    BY Zenon
  <2>2. Probe(c) \in Datagram
    BY <2>1, DgramFacts, Zenon DEF Probe
  <2> QED BY <1>2, <2>2, Zenon DEF Sendto
<1>3. ASSUME NEW c \in Clients, SendtoFails(c) PROVE EchoInv'
  <2>1. lost' \in [Clients -> Nat]
    BY <1>3 DEF SendtoFails
  <2>2. \A e \in Clients : lost'[e] <= MaxLost[e]
    <3>1. lost[c] < MaxLost[c] /\ lost' = [lost EXCEPT ![c] = @ + 1]
      BY <1>3, Zenon DEF SendtoFails
    <3>2. /\ lost \in [Clients -> Nat] /\ MaxLost[c] \in Nat
          /\ \A e \in Clients : lost[e] <= MaxLost[e]
      BY <1>b, Zenon
    <3> HIDE DEF EchoInv, EchoOK, Phase
    <3> QED BY <3>1, <3>2
  <2> QED BY <1>3, <2>1, <2>2, Zenon DEF SendtoFails
<1>m. ASSUME NEW c \in Clients, at[c] = "recv", Measure(c)
      PROVE  /\ i' \in [Clients -> 0..Count]
             /\ at' \in [Clients -> {"start", "send", "recv", "report", "done"}]
             /\ \A e \in Clients : Phase(e)'
  <2>1. i' = [i EXCEPT ![c] = @ + 1] /\ at' = [at EXCEPT ![c] = Enter(i[c] + 1)]
    BY <1>m, Zenon DEF Measure
  <2>2. i[c] + 1 \in 0..Count
    <3>1. i[c] \in 0..Count /\ i[c] < Count
      BY <1>m, Zenon
    <3> HIDE DEF EchoInv
    <3> QED BY <3>1
  <2>3. i' \in [Clients -> 0..Count]
    BY <2>1, <2>2, Zenon
  <2>4. at' \in [Clients -> {"start", "send", "recv", "report", "done"}]
    BY <2>1, <2>2, EnterFacts, Zenon
  <2>5. \A e \in Clients : Phase(e)'
    BY <2>1, <2>2, EnterFacts, Zenon
  <2> HIDE DEF Phase, EchoInv
  <2> QED BY <2>3, <2>4, <2>5, Zenon
<1>4. ASSUME NEW c \in Clients, Recv(c) PROVE EchoInv'
  <2>1. PICK d \in net :
          /\ at[c] = "recv"
          /\ net' = net \ {d}
          /\ samples' = [samples EXCEPT ![c] =
                           Append(@, [seq |-> d.seq, len |-> Min(d.len, Payload[c])])]
          /\ Measure(c)
          /\ UNCHANGED <<srv, buf, errs, lost, dups, fails>>
    BY <1>4, Zenon DEF Recv
  <2>2. [seq |-> d.seq, len |-> Min(d.len, Payload[c])] \in Sample
    <3>1. d.seq \in 0..Count /\ d.len \in Nat /\ Payload[c] \in Nat
      BY FieldFacts, Zenon
    <3> QED BY <3>1, MinFacts, Zenon DEF Sample
  <2>3. samples' \in [Clients -> Seq(Sample)]
    BY <2>1, <2>2
  <2>4. /\ i' \in [Clients -> 0..Count]
        /\ at' \in [Clients -> {"start", "send", "recv", "report", "done"}]
        /\ \A e \in Clients : Phase(e)'
    BY <1>m, <2>1, Zenon
  <2> HIDE DEF Phase
  <2> QED BY <2>1, <2>3, <2>4, Zenon
<1>f. ASSUME NEW c \in Clients, RecvFails(c) PROVE EchoInv'
  <2>1. /\ at[c] = "recv" /\ fails[c] < MaxFails[c] /\ Measure(c)
        /\ fails' = [fails EXCEPT ![c] = @ + 1]
        /\ UNCHANGED <<samples, net, srv, buf, errs, lost, dups>>
    BY <1>f, Zenon DEF RecvFails
  <2>2. /\ fails \in [Clients -> Nat] /\ MaxFails[c] \in Nat
        /\ \A e \in Clients : fails[e] <= MaxFails[e]
    BY <1>b, Zenon
  <2>3. fails' \in [Clients -> Nat] /\ \A e \in Clients : fails'[e] <= MaxFails[e]
    <3> HIDE DEF EchoInv, EchoOK, Phase
    <3> QED BY <2>1, <2>2
  <2>4. /\ i' \in [Clients -> 0..Count]
        /\ at' \in [Clients -> {"start", "send", "recv", "report", "done"}]
        /\ \A e \in Clients : Phase(e)'
    BY <1>m, <2>1, Zenon
  <2> HIDE DEF Phase
  <2> QED BY <2>1, <2>3, <2>4, Zenon
<1>5. ASSUME NEW c \in Clients, Report(c) PROVE EchoInv'
  BY <1>5, Zenon DEF Report
<1>6. ASSUME Recvfrom PROVE EchoInv'
  <2>1. PICK d \in net :
          /\ net' = net \ {d}
          /\ buf' = {Dgram("probe", d.peer, d.seq, Min(d.len, BUF_SZ), d.copy)}
          /\ srv' = "sendto"
          /\ UNCHANGED <<i, at, samples, lost, dups, fails, errs>>
    BY <1>6, Zenon DEF Recvfrom
  <2>2. Dgram("probe", d.peer, d.seq, Min(d.len, BUF_SZ), d.copy) \in Datagram
    <3>1. /\ d.peer \in Clients /\ d.seq \in 0..Count /\ d.len \in Nat
          /\ d.copy \in Nat /\ Min(d.len, BUF_SZ) \in Nat
      BY FieldFacts, MinFacts, Zenon
    <3> HIDE DEF EchoInv
    <3> QED BY <3>1, DgramFacts, ZenonT(40)
  <2>3. buf' \subseteq Datagram /\ Cardinality(buf') <= 1
    <3>1. Cardinality(buf') = 1
      <4> HIDE DEF EchoInv
      <4> QED BY <2>1, FS_Singleton, Zenon
    <3> QED BY <2>1, <2>2, <3>1
  <2> QED BY <2>1, <2>3, Zenon
<1>7. ASSUME RecvfromFails PROVE EchoInv'
  BY <1>7, <1>b DEF RecvfromFails
<1>8. ASSUME Reply PROVE EchoInv'
  <2>1. PICK d \in buf :
          /\ net' = net \cup {Dgram("answer", d.peer, d.seq, d.len, d.copy)}
          /\ srv' = "recvfrom"
          /\ UNCHANGED <<i, at, samples, buf, lost, dups, fails, errs>>
    BY <1>8, Zenon DEF Reply
  <2>2. Dgram("answer", d.peer, d.seq, d.len, d.copy) \in Datagram
    <3>1. d.peer \in Clients /\ d.seq \in 0..Count /\ d.len \in Nat /\ d.copy \in Nat
      BY FieldFacts, Zenon
    <3> HIDE DEF EchoInv
    <3> QED BY <3>1, DgramFacts, Zenon
  <2> QED BY <2>1, <2>2, Zenon
<1>9. ASSUME Lose PROVE EchoInv'
  <2>1. PICK d \in net :
          /\ lost[d.peer] < MaxLost[d.peer]
          /\ net' = net \ {d}
          /\ lost' = [lost EXCEPT ![d.peer] = @ + 1]
          /\ UNCHANGED <<i, at, samples, srv, buf, errs, dups, fails>>
    BY <1>9, Zenon DEF Lose
  <2>2. d.peer \in Clients
    BY FieldFacts, Zenon
  <2>3. lost \in [Clients -> Nat] /\ \A e \in Clients : lost[e] <= MaxLost[e]
    BY Zenon
  <2>4. lost' \in [Clients -> Nat] /\ \A e \in Clients : lost'[e] <= MaxLost[e]
    <3> HIDE DEF EchoInv
    <3>1. lost' \in [Clients -> Nat]
      BY <2>1, <2>2, <2>3
    <3>2. \A e \in Clients : lost'[e] <= MaxLost[e]
      BY <2>1, <2>2, <2>3, <1>b
    <3> QED BY <3>1, <3>2, Zenon
  <2> QED BY <2>1, <2>4, Zenon
<1>10. ASSUME Duplicate PROVE EchoInv'
  <2>1. PICK d \in net :
          /\ dups[d.peer] < MaxDups[d.peer]
          /\ dups' = [dups EXCEPT ![d.peer] = @ + 1]
          /\ net' = net \cup {Dgram(d.kind, d.peer, d.seq, d.len, dups[d.peer] + 1)}
          /\ UNCHANGED <<i, at, samples, srv, buf, errs, lost, fails>>
    BY <1>10, Zenon DEF Duplicate
  <2>2. /\ d.kind \in {"probe", "answer"} /\ d.peer \in Clients /\ d.seq \in 0..Count
        /\ d.len \in Nat
    BY FieldFacts, Zenon
  <2>3. dups[d.peer] + 1 \in Nat
    BY SMTT(40), <2>2
  <2>4. Dgram(d.kind, d.peer, d.seq, d.len, dups[d.peer] + 1) \in Datagram
    <3> HIDE DEF EchoInv
    <3> QED BY <2>2, <2>3, DgramFacts, ZenonT(60)
  <2>5. dups' \in [Clients -> Nat]
    BY <2>1, <2>2, <2>3, Zenon
  <2>6. \A e \in Clients : dups'[e] <= MaxDups[e]
    <3> SUFFICES ASSUME NEW e \in Clients PROVE dups'[e] <= MaxDups[e]
      BY Zenon
    <3>1. CASE e = d.peer
      BY SMTT(40), <2>1, <2>2, <1>b, <3>1
    <3>2. CASE e # d.peer
      BY <2>1, <2>2, <3>2, Zenon
    <3> QED BY <3>1, <3>2, Zenon
  <2> QED BY <2>1, <2>4, <2>5, <2>6, Zenon
<1>11. ASSUME NEW c \in Clients, Tick(c) \/ SetBack(c) PROVE EchoInv'
  <2>1. UNCHANGED <<i, at, samples, net, srv, buf, errs, lost, dups, fails>>
    <3> HIDE DEF EchoInv
    <3> QED BY <1>11, Zenon DEF Tick, SetBack
  <2> QED BY <2>1, Zenon
<1>12. CASE UNCHANGED vars
  BY <1>12, Zenon DEF vars
<1> QED
  BY <1>1, <1>2, <1>3, <1>4, <1>f, <1>5, <1>6, <1>7, <1>8, <1>9, <1>10, <1>11, <1>12,
     Zenon DEF Next

\* The clocks start with their types.
LEMMA InitClockOK == Init => ClockOK
<1>1. \A c \in Clients : MaxTicks[c] \in Nat /\ MaxBack[c] \in Nat
  BY SMTT(40), BoundsAssumption
<1> QED BY <1>1 DEF Init, ClockOK, FarMin

\* Ticks, and setting a clock back, keep them.
LEMMA NextClockOK == ClockOK /\ [Next]_vars => ClockOK'
<1> SUFFICES ASSUME ClockOK, [Next]_vars PROVE ClockOK'
  OBVIOUS
<1> USE DEF ClockOK, server, faults, time, measures
<1>b. \A c \in Clients : MaxTicks[c] \in Nat /\ MaxBack[c] \in Nat
  BY BoundsAssumption
<1>1. ASSUME NEW c \in Clients, Start(c) PROVE ClockOK'
  BY <1>1 DEF Start
<1>2. ASSUME NEW c \in Clients, Sendto(c) \/ SendtoFails(c) PROVE ClockOK'
  BY <1>2 DEF Sendto, SendtoFails, ReadClock
<1>3. ASSUME NEW c \in Clients, Recv(c) \/ RecvFails(c) PROVE ClockOK'
  <2>1. /\ min' = [min EXCEPT ![c] = IF clock[c] - t0[c] < @ THEN clock[c] - t0[c]
                                     ELSE @]
        /\ max' = [max EXCEPT ![c] = IF clock[c] - t0[c] > @ THEN clock[c] - t0[c]
                                     ELSE @]
        /\ UNCHANGED <<start, t0, total, clock, ticks, back>>
    BY ZenonT(60), <1>3 DEF Recv, RecvFails, Measure
  <2>2. clock[c] - t0[c] \in Int /\ max[c] \in Nat /\ min[c] \in Int
    OBVIOUS
  <2>3. min' \in [Clients -> Int]
    BY <2>1, <2>2
  <2>4. max' \in [Clients -> Nat]
    <3>1. clock[c] - t0[c] > max[c] => clock[c] - t0[c] \in Nat
      BY <2>2
    <3> QED BY <2>1, <2>2, <3>1
  <2> QED BY SMTT(40), <2>1, <2>3, <2>4
<1>4. ASSUME NEW c \in Clients, Report(c) PROVE ClockOK'
  BY <1>4 DEF Report
<1>5. ASSUME Recvfrom \/ RecvfromFails \/ Reply \/ Lose \/ Duplicate PROVE ClockOK'
  BY <1>5 DEF Recvfrom, RecvfromFails, Reply, Lose, Duplicate
<1>6. ASSUME NEW c \in Clients, Tick(c) PROVE ClockOK'
  <2>1. ticks' \in [Clients -> Nat] /\ \A e \in Clients : ticks'[e] <= MaxTicks[e]
    BY SMTT(40), <1>6, <1>b DEF Tick
  <2>2. clock' \in [Clients -> Int]
    BY <1>6 DEF Tick
  <2> QED BY <1>6, <2>1, <2>2 DEF Tick
<1>7. ASSUME NEW c \in Clients, SetBack(c) PROVE ClockOK'
  <2>1. back' \in [Clients -> Nat] /\ \A e \in Clients : back'[e] <= MaxBack[e]
    BY <1>7, <1>b DEF SetBack
  <2>2. clock' \in [Clients -> Int]
    BY <1>7 DEF SetBack
  <2> QED BY <1>7, <2>1, <2>2 DEF SetBack
<1>8. CASE UNCHANGED vars
  BY <1>8 DEF vars
<1> QED
  BY <1>1, <1>2, <1>3, <1>4, <1>5, <1>6, <1>7, <1>8 DEF Next

\* Every variable keeps its type; in particular no client sends more than count
\* probes, and the server holds one datagram at a time.
THEOREM EchoTypeOK == Spec => []TypeOK
<1>1. EchoInv /\ ClockOK => TypeOK
  BY DEF EchoInv, TypeOK
<1> QED
  BY <1>1, InitEchoInv, NextEchoInv, InitClockOK, NextClockOK, PTL DEF Spec

-----------------------------------------------------------------------------
(* The answers *)

\* Nothing is under way at first.
LEMMA InitTripInv == Init => TripInv
BY DEF Init, TripInv, Trip, OnNet, InServer, Log

\* What the samples say does not change if neither they nor the round do.
LEMMA SameLog ==
  ASSUME NEW c, Log(c), samples'[c] = samples[c], i'[c] = i[c]
  PROVE  Log(c)'
<1>1. Len(samples'[c]) = Len(samples[c])
  BY SMTT(40)
<1> QED
  BY <1>1, Zenon DEF Log, Echoed

\* Every step keeps at most one datagram of a client under way, unless duplicated.
LEMMA NextTripInv == EchoInv /\ TripInv /\ [Next]_vars => TripInv'
<1> SUFFICES ASSUME EchoInv, TripInv, [Next]_vars, NEW c \in Clients,
                    dups'[c] = 0, fails'[c] = 0
             PROVE  (OnNet(c) /\ InServer(c) /\ Log(c))'
  BY DEF TripInv, Trip
<1> DEFINE Safe == (OnNet(c) /\ InServer(c) /\ Log(c))'
<1>t. /\ i \in [Clients -> 0..Count] /\ samples \in [Clients -> Seq(Sample)]
      /\ at \in [Clients -> {"start", "send", "recv", "report", "done"}]
      /\ net \subseteq Datagram /\ buf \subseteq Datagram
      /\ dups \in [Clients -> Nat] /\ fails \in [Clients -> Nat] /\ Payload[c] \in Nat /\ BUF_SZ \in Nat
  BY SMTT(40), CountAssumption, PayloadAssumption DEF EchoInv, EchoOK
<1>k. dups[c] = 0 /\ fails[c] = 0 => OnNet(c) /\ InServer(c) /\ Log(c)
  BY DEF TripInv, Trip
<1> HIDE DEF Safe
<1> USE DEF server, faults, time, measures
<1>1. ASSUME NEW e \in Clients, Start(e) \/ Report(e) PROVE Safe
  BY <1>1, <1>t, <1>k DEF Start, Report, Safe, OnNet, InServer, Log
<1>2. ASSUME NEW e \in Clients, Sendto(e) PROVE Safe
  <2>1. /\ at[e] = "send" /\ at' = [at EXCEPT ![e] = "recv"]
        /\ net' = net \cup {Probe(e)}
        /\ UNCHANGED <<i, samples, srv, buf, dups, fails>>
    BY SMTT(40), <1>2 DEF Sendto
  <2>2. Probe(e).kind = "probe" /\ Probe(e).peer = e /\ Probe(e).seq = i[e]
        /\ Probe(e).len = Payload[e]
    BY DEF Probe, Dgram
  <2>3. CASE e = c
    <3>1. \A d \in net : d.peer # c
      BY <2>1, <2>3, <1>k DEF OnNet
    <3>2. OnNet(c)'
      BY <2>1, <2>2, <2>3, <3>1, <1>t DEF OnNet, Echoed
    <3>3. InServer(c)'
      BY <2>1, <2>3, <1>k DEF InServer
    <3>4. Log(c)'
      BY <2>1, <1>k DEF Log, Echoed
    <3> QED BY SMTT(40), <3>2, <3>3, <3>4 DEF Safe
  <2>4. CASE e # c
    <3>1. at'[c] = at[c]
      BY SMTT(40), <2>1, <2>4, <1>t
    <3>2. OnNet(c)'
      BY SMTT(40), <2>1, <2>2, <2>4, <3>1, <1>k DEF OnNet, Echoed
    <3>3. InServer(c)'
      BY SMTT(40), <2>1, <2>2, <2>4, <3>1, <1>k DEF InServer, Echoed
    <3>4. Log(c)'
      BY SMTT(40), <2>1, <1>k DEF Log, Echoed
    <3> QED BY <3>2, <3>3, <3>4 DEF Safe
  <2> QED BY SMTT(40), <2>3, <2>4
<1>3. ASSUME NEW e \in Clients, SendtoFails(e) PROVE Safe
  BY <1>3, <1>t, <1>k DEF SendtoFails, Safe, OnNet, InServer, Log
<1>4. ASSUME NEW e \in Clients, Recv(e) PROVE Safe
  <2>1. PICK d \in net :
          /\ at[e] = "recv" /\ d.kind = "answer" /\ d.peer = e
          /\ net' = net \ {d}
          /\ samples' = [samples EXCEPT ![e] =
                           Append(@, [seq |-> d.seq, len |-> Min(d.len, Payload[e])])]
          /\ i' = [i EXCEPT ![e] = @ + 1]
          /\ at' = [at EXCEPT ![e] = Enter(i[e] + 1)]
          /\ UNCHANGED <<srv, buf, dups, fails>>
    BY <1>4, Zenon DEF Recv, Measure
  <2>2. CASE e = c
    <3>1. \A f \in net' : f.peer # c
      BY <2>1, <2>2, <1>k DEF OnNet
    <3>2. srv = "sendto" => \A f \in buf : f.peer # c
      BY SMTT(40), <2>1, <2>2, <1>k DEF InServer
    <3>3. d.seq = i[c] /\ d.len = Echoed(c)
      BY <2>1, <2>2, <1>k DEF OnNet
    <3>4. Min(d.len, Payload[c]) = Echoed(c)
      <4>1. Payload[c] \in Nat /\ BUF_SZ \in Nat
        BY <1>t
      <4>2. Min(Min(Payload[c], BUF_SZ), Payload[c]) = Min(Payload[c], BUF_SZ)
        BY <4>1, MinFacts, Zenon
      <4> QED
        BY <3>3, <4>2, Zenon DEF Echoed
    <3>5. /\ samples'[c] = Append(samples[c], [seq |-> i[c], len |-> Echoed(c)])
          /\ i'[c] = i[c] + 1
      BY <2>1, <2>2, <3>3, <3>4, <1>t
    <3>6. Log(c) /\ samples[c] \in Seq(Sample) /\ i[c] \in Nat
      BY <2>1, <1>k, <1>t, CountAssumption
    <3>7. Log(c)'
      <4> DEFINE r == [seq |-> i[c], len |-> Echoed(c)]
      <4>1. Len(Append(samples[c], r)) = i[c] + 1
        BY <3>6 DEF Log
      <4>2. \A k \in 1..(i[c] + 1) : Append(samples[c], r)[k]
                                      = [seq |-> k - 1, len |-> Echoed(c)]
        BY <3>6 DEF Log
      <4>3. Echoed(c)' = Echoed(c)
        BY DEF Echoed
      <4> HIDE DEF r
      <4> QED BY <4>1, <4>2, <4>3, <3>5 DEF Log, r
    <3> QED BY SMTT(40), <2>1, <3>1, <3>2, <3>7 DEF Safe, OnNet, InServer
  <2>3. CASE e # c
    <3>1. at'[c] = at[c] /\ i'[c] = i[c] /\ samples'[c] = samples[c]
      BY <2>1, <2>3, <1>t
    <3>2. OnNet(c)'
      BY <2>1, <3>1, <1>k DEF OnNet, Echoed
    <3>3. InServer(c)'
      BY <2>1, <3>1, <1>k DEF InServer, Echoed
    <3>4. Log(c)'
      <4>1. Log(c)
        BY <2>1, <1>k
      <4> QED BY <3>1, <4>1, SameLog, ZenonT(40)
    <3> QED BY <3>2, <3>3, <3>4 DEF Safe
  <2> QED BY <2>2, <2>3
<1>f. ASSUME NEW e \in Clients, RecvFails(e) PROVE Safe
  <2>1. /\ fails' = [fails EXCEPT ![e] = @ + 1]
        /\ i' = [i EXCEPT ![e] = @ + 1] /\ at' = [at EXCEPT ![e] = Enter(i[e] + 1)]
        /\ UNCHANGED <<samples, net, srv, buf, dups>>
    BY <1>f, Zenon DEF RecvFails, Measure
  <2>2. e # c
    BY <2>1, <1>t
  <2>3. at'[c] = at[c] /\ i'[c] = i[c] /\ fails'[c] = fails[c]
    BY <2>1, <2>2, <1>t
  <2>4. OnNet(c) /\ InServer(c) /\ Log(c)
    BY <2>1, <2>3, <1>k
  <2>5. Log(c)'
    BY <2>1, <2>3, <2>4, SameLog, ZenonT(40)
  <2> QED BY <2>1, <2>3, <2>4, <2>5, Zenon DEF Safe, OnNet, InServer, Echoed
<1>5. ASSUME Recvfrom PROVE Safe
  <2>1. PICK d \in net :
          /\ d.kind = "probe"
          /\ net' = net \ {d}
          /\ buf' = {Dgram("probe", d.peer, d.seq, Min(d.len, BUF_SZ), d.copy)}
          /\ UNCHANGED <<i, at, samples, dups, fails>>
    BY <1>5 DEF Recvfrom
  <2>2. \A f \in buf' : f.peer = d.peer /\ f.seq = d.seq /\ f.len = Min(d.len, BUF_SZ)
    BY <2>1 DEF Dgram
  <2>3. OnNet(c)'
    BY <2>1, <1>k, Zenon DEF OnNet, Echoed
  <2>4. Log(c)'
    BY <2>1, <1>k, Zenon DEF Log, Echoed
  <2>5. InServer(c)'
    <3>1. d.peer = c => /\ at[c] = "recv" /\ d.seq = i[c] /\ d.len = Payload[c]
                        /\ \A f \in net' : f.peer # c
      BY <2>1, <1>k, Zenon DEF OnNet
    <3> QED BY <2>1, <2>2, <3>1, Zenon DEF InServer, Echoed
  <2> QED BY <2>3, <2>4, <2>5 DEF Safe
<1>6. ASSUME RecvfromFails PROVE Safe
  BY <1>6, <1>k DEF RecvfromFails, Safe, OnNet, InServer, Log, Echoed
<1>7. ASSUME Reply PROVE Safe
  <2>1. PICK d \in buf :
          /\ srv = "sendto" /\ srv' = "recvfrom"
          /\ net' = net \cup {Dgram("answer", d.peer, d.seq, d.len, d.copy)}
          /\ UNCHANGED <<i, at, samples, buf, dups, fails>>
    BY <1>7 DEF Reply
  <2> DEFINE a == Dgram("answer", d.peer, d.seq, d.len, d.copy)
  <2>2. a.kind = "answer" /\ a.peer = d.peer /\ a.seq = d.seq /\ a.len = d.len
    BY DEF Dgram
  <2>3. net' = net \cup {a}
    BY SMTT(40), <2>1
  <2> HIDE DEF a
  <2>4. OnNet(c)'
    <3>1. d.peer = c => /\ at[c] = "recv" /\ d.seq = i[c] /\ d.len = Echoed(c)
                        /\ \A f \in net : f.peer # c
      BY SMTT(40), <2>1, <1>k DEF InServer
    <3>2. OnNet(c) /\ UNCHANGED <<i, at>>
      BY <2>1, <1>k
    <3> QED BY SMTT(40), <2>2, <2>3, <3>1, <3>2 DEF OnNet, Echoed
  <2>5. InServer(c)' /\ Log(c)'
    BY <2>1, <1>k, Zenon DEF InServer, Log, Echoed
  <2> QED BY <2>4, <2>5 DEF Safe
<1>8. ASSUME Lose PROVE Safe
  BY <1>8, <1>k, Zenon DEF Lose, Safe, OnNet, InServer, Log, Echoed
<1>9. ASSUME Duplicate PROVE Safe
  <2>1. PICK d \in net :
          /\ dups' = [dups EXCEPT ![d.peer] = @ + 1]
          /\ net' = net \cup {Dgram(d.kind, d.peer, d.seq, d.len, dups[d.peer] + 1)}
          /\ UNCHANGED <<i, at, samples, srv, buf, fails>>
    BY <1>9, Zenon DEF Duplicate
  <2>2. d.peer \in Clients
    BY <1>t, FieldFacts
  <2>3. d.peer # c /\ dups[c] = 0 /\ fails[c] = 0
    BY <2>1, <2>2, <1>t
  <2>4. \A f \in net' : f.peer = c => f \in net
    BY SMTT(40), <2>1, <2>3 DEF Dgram
  <2>5. OnNet(c)'
    BY SMTT(40), <2>1, <2>3, <2>4, <1>k DEF OnNet, Echoed
  <2>6. InServer(c)'
    BY SMTT(40), <2>1, <2>3, <2>4, <1>k DEF InServer, Echoed
  <2>7. Log(c)'
    <3>1. Log(c)
      BY SMTT(40), <2>3, <1>k
    <3> QED BY <2>1, <3>1, SameLog
  <2> QED BY <2>5, <2>6, <2>7 DEF Safe
<1>10. ASSUME NEW e \in Clients, Tick(e) \/ SetBack(e) PROVE Safe
  BY SMTT(40), <1>10, <1>k DEF Tick, SetBack, Safe, OnNet, InServer, Log, Echoed
<1>11. CASE UNCHANGED vars
  BY <1>11, <1>k DEF vars, Safe, OnNet, InServer, Log, Echoed
<1> QED
  BY SMTT(40), <1>1, <1>2, <1>3, <1>4, <1>f, <1>5, <1>6, <1>7, <1>8, <1>9, <1>10, <1>11
     DEF Next, Safe

\* Whatever is lost, and whatever is duplicated for other clients: as long as none
\* of its own datagrams was duplicated and no recv of its own failed, the answers a client measures are the
\* answers to its probes, in order, with the bytes the server's buffer could hold.
THEOREM EchoSamplesAreEchoes == Spec => []SamplesAreEchoes
<1>1. TripInv => SamplesAreEchoes
  BY DEF TripInv, Trip, Log, Echoed, SamplesAreEchoes
<1> QED
  BY <1>1, InitEchoInv, NextEchoInv, InitTripInv, NextTripInv, PTL DEF Spec

-----------------------------------------------------------------------------
(* The measures *)

\* One more round trip r on top of k that took at least m each.
LEMMA OneMoreTrip ==
  ASSUME NEW m \in Int, NEW k \in Nat, NEW r \in Int, NEW w \in Int, NEW n \in Int,
         m * k <= w, n <= m, n <= r
  PROVE  n * (k + 1) <= w + r
<1>1. n * k <= m * k
  <2>1. (m - n) * k >= 0
    <3> DEFINE x == m - n
    <3>1. x \in Nat
      OBVIOUS
    <3> HIDE DEF x
    <3>2. x * k >= 0
      BY <3>1
    <3> QED BY <3>2 DEF x
  <2>2. (m - n) * k = m * k - n * k
    OBVIOUS
  <2> QED BY <2>1, <2>2
<1>2. n * (k + 1) = n * k + n
  BY SMTT(40)
<1> QED BY <1>1, <1>2

\* Before the first sample there is nothing to agree with.
LEMMA InitMeasuredInv == Init => MeasuredInv
BY DEF Init, MeasuredInv, Measured, Fits, FarMin

\* The steps of a client, and of its clock, on these numbers.
LEMMA FitsStart ==
  ASSUME NEW ck \in Int, NEW bk \in Nat, NEW st \in Int, NEW t \in Int,
         NEW mn \in Int, NEW mx \in Nat, NEW tot \in Int,
         NEW a, a = "send" \/ a = "report", Fits("start", 0, ck, bk, st, t, mn, mx, tot)
  PROVE  Fits(a, 0, ck, bk, ck, t, mn, mx, tot)
<1>1. mn * 0 = 0 /\ mx = 0 /\ -bk <= mn
  BY DEF Fits
<1> QED BY <1>1 DEF Fits, AllFit, LongestFits

\* Reading the clock before sendto keeps the measures in agreement.
LEMMA FitsSendto ==
  ASSUME NEW n \in Nat, NEW ck \in Int, NEW bk \in Nat, NEW st \in Int, NEW t \in Int,
         NEW mn \in Int, NEW mx \in Nat, NEW tot \in Int,
         Fits("send", n, ck, bk, st, t, mn, mx, tot)
  PROVE  Fits("recv", n, ck, bk, st, ck, mn, mx, tot)
<1>1. /\ AllFit(n, mn, bk, st, ck) /\ LongestFits(mx, bk, st, ck)
      /\ -bk <= mn /\ (n > 0 => mn <= mx)
  BY DEF Fits
<1>2. st <= ck + bk /\ ck <= ck + bk
  BY <1>1 DEF LongestFits
<1> QED BY <1>1, <1>2, Zenon DEF Fits

\* So does taking a sample after recv.
LEMMA FitsRecv ==
  ASSUME NEW n \in Nat, NEW ck \in Int, NEW bk \in Nat, NEW st \in Int, NEW t \in Int,
         NEW mn \in Int, NEW mx \in Nat, NEW tot \in Int,
         NEW a, a = "send" \/ a = "report", NEW n2, NEW mn2 \in Int, NEW mx2 \in Nat,
         n2 = n + 1,
         mn2 <= mn, mn2 <= ck - t, mn2 = mn \/ mn2 = ck - t,
         mx <= mx2, ck - t <= mx2, mx2 = mx \/ mx2 = ck - t,
         Fits("recv", n, ck, bk, st, t, mn, mx, tot)
  PROVE  Fits(a, n2, ck, bk, st, t, mn2, mx2, tot)
<1>1. /\ mn * n <= t + bk - st /\ mx <= ck + bk - st /\ -bk <= mn
      /\ st <= t + bk /\ t <= ck + bk
  BY DEF Fits, AllFit, LongestFits
<1>2. /\ mn2 <= mn /\ mn2 <= ck - t /\ -bk <= mn2 /\ mn2 <= mx2
      /\ mx2 <= ck + bk - st
  <2> HIDE DEF Fits
  <2> QED BY <1>1
<1>3. mn2 * (n + 1) <= (t + bk - st) + (ck - t)
  BY <1>1, <1>2, OneMoreTrip
<1>4. AllFit(n + 1, mn2, bk, st, ck) /\ LongestFits(mx2, bk, st, ck)
  <2> DEFINE p == mn2 * (n + 1)
  <2>1. p \in Int
    OBVIOUS
  <2>2. p <= (t + bk - st) + (ck - t)
    BY <1>3
  <2> HIDE DEF p
  <2>3. p <= ck + bk - st
    BY <2>1, <2>2
  <2> QED BY <1>2, <2>3 DEF p, AllFit, LongestFits
<1>5. Fits(a, n + 1, ck, bk, st, t, mn2, mx2, tot)
  BY <1>2, <1>4, Zenon DEF Fits
<1> QED BY <1>5, Zenon

\* How min and max are updated.
LEMMA NewMeasures ==
  /\ \A r, m \in Int : \A x : x = (IF r < m THEN r ELSE m) =>
       x <= m /\ x <= r /\ (x = m \/ x = r)
  /\ \A r, m \in Int : \A x : x = (IF r > m THEN r ELSE m) =>
       m <= x /\ r <= x /\ (x = m \/ x = r)
OBVIOUS

\* The total is the time since the client started.
LEMMA FitsReport ==
  ASSUME NEW n \in Nat, NEW ck \in Int, NEW bk \in Nat, NEW st \in Int, NEW t \in Int,
         NEW mn \in Int, NEW mx \in Nat, NEW tot \in Int,
         Fits("report", n, ck, bk, st, t, mn, mx, tot)
  PROVE  Fits("done", n, ck, bk, st, t, mn, mx, ck - st)
<1> DEFINE p == mn * n
<1>1. /\ p <= ck + bk - st /\ mx <= ck + bk - st
      /\ -bk <= mn /\ (n > 0 => mn <= mx) /\ p \in Int
  BY DEF Fits, AllFit, LongestFits
<1> HIDE DEF p
<1>2. p <= (ck - st) + bk - 0 /\ mx <= (ck - st) + bk - 0
  BY <1>1
<1>3. AllFit(n, mn, bk, 0, ck - st) /\ LongestFits(mx, bk, 0, ck - st)
  BY <1>2 DEF AllFit, LongestFits, p
<1> QED BY <1>1, <1>3, Zenon DEF Fits

\* The clock moves by one, and back has what it was set back.
LEMMA FitsClock ==
  ASSUME NEW n \in Nat, NEW ck \in Int, NEW bk \in Nat, NEW st \in Int, NEW t \in Int,
         NEW mn \in Int, NEW mx \in Nat, NEW tot \in Int,
         NEW a, NEW ck2 \in Int, NEW bk2 \in Nat, bk <= bk2, ck + bk <= ck2 + bk2,
         Fits(a, n, ck, bk, st, t, mn, mx, tot)
  PROVE  Fits(a, n, ck2, bk2, st, t, mn, mx, tot)
<1> DEFINE p == mn * n
<1>1. p \in Int
  OBVIOUS
<1>2. /\ a = "start" => mx = 0
      /\ a \in {"send", "report"} => p <= ck + bk - st
      /\ a = "recv" => p <= t + bk - st
      /\ a = "recv" => st <= t + bk /\ t <= ck + bk
      /\ a \in {"send", "recv", "report"} => mx <= ck + bk - st
      /\ a = "done" => p <= tot + bk - 0 /\ mx <= tot + bk - 0
      /\ -bk <= mn
      /\ n > 0 => mn <= mx
  BY Zenon DEF Fits, AllFit, LongestFits
<1> HIDE DEF p
<1>3. /\ a \in {"send", "report"} => p <= ck2 + bk2 - st
      /\ a = "recv" => p <= t + bk2 - st
      /\ a = "recv" => st <= t + bk2 /\ t <= ck2 + bk2
      /\ a \in {"send", "recv", "report"} => mx <= ck2 + bk2 - st
      /\ a = "done" => p <= tot + bk2 - 0 /\ mx <= tot + bk2 - 0
      /\ -bk2 <= mn
  BY <1>1, <1>2
<1> QED BY <1>2, <1>3, Zenon DEF Fits, AllFit, LongestFits, p

\* Every step keeps the measures in agreement with the clock.
LEMMA NextMeasuredInv ==
  EchoInv /\ ClockOK /\ MeasuredInv /\ [Next]_vars => MeasuredInv'
<1> SUFFICES ASSUME EchoInv, ClockOK, MeasuredInv, [Next]_vars, NEW c \in Clients
             PROVE  Measured(c)'
  BY SMTT(40) DEF MeasuredInv
<1>d. /\ DOMAIN i = Clients /\ DOMAIN at = Clients /\ DOMAIN clock = Clients
      /\ DOMAIN back = Clients /\ DOMAIN start = Clients /\ DOMAIN t0 = Clients
      /\ DOMAIN min = Clients /\ DOMAIN max = Clients /\ DOMAIN total = Clients
  BY SMTT(40) DEF EchoInv, EchoOK, ClockOK
<1>t. /\ i[c] \in Nat /\ clock[c] \in Int /\ back[c] \in Nat /\ start[c] \in Int
      /\ t0[c] \in Int /\ min[c] \in Int /\ max[c] \in Nat /\ total[c] \in Int
  BY CountAssumption DEF EchoInv, EchoOK, ClockOK
<1>p. at[c] = "start" => i[c] = 0
  BY SMTT(40) DEF EchoInv, Phase
<1>k. Fits(at[c], i[c], clock[c], back[c], start[c], t0[c], min[c], max[c], total[c])
  BY DEF MeasuredInv, Measured
<1> DEFINE Mine == <<i[c], at[c], clock[c], back[c], start[c], t0[c], min[c], max[c],
                     total[c]>>
<1>u. Mine' = Mine => Measured(c)'
  BY <1>k, Zenon DEF Measured
<1> HIDE DEF Mine
<1> USE DEF server, faults, time, measures
<1>o. ASSUME NEW e \in Clients, e # c,
             \/ Start(e) \/ Sendto(e) \/ SendtoFails(e) \/ Recv(e) \/ RecvFails(e)
             \/ Report(e) \/ Tick(e) \/ SetBack(e)
      PROVE  Measured(c)'
  <2>1. CASE Start(e) \/ Sendto(e) \/ SendtoFails(e)
    BY <1>o, <2>1, <1>d, <1>u, Zenon DEF Mine, Start, Sendto, SendtoFails, ReadClock
  <2>2. CASE Recv(e) \/ RecvFails(e) \/ Report(e)
    BY <1>o, <2>2, <1>d, <1>u, Zenon DEF Mine, Recv, RecvFails, Measure, Report
  <2>3. CASE Tick(e) \/ SetBack(e)
    BY <1>o, <2>3, <1>d, <1>u, Zenon DEF Mine, Tick, SetBack
  <2> QED BY <1>o, <2>1, <2>2, <2>3
<1>1. CASE Start(c)
  <2>1. /\ at[c] = "start" /\ start'[c] = clock[c] /\ at'[c] = Enter(0)
        /\ i'[c] = i[c] /\ clock'[c] = clock[c] /\ back'[c] = back[c] /\ t0'[c] = t0[c]
        /\ min'[c] = min[c] /\ max'[c] = max[c] /\ total'[c] = total[c]
    BY <1>1, <1>d, Zenon DEF Start
  <2>2. (Enter(0) = "send" \/ Enter(0) = "report") /\ i[c] = 0
    BY <2>1, <1>p, Zenon DEF Enter
  <2>k. Fits("start", 0, clock[c], back[c], start[c], t0[c], min[c], max[c], total[c])
    BY <2>1, <2>2, <1>k, Zenon
  <2>3. Fits(Enter(0), 0, clock[c], back[c], clock[c], t0[c], min[c], max[c], total[c])
    BY <2>2, <2>k, <1>t, FitsStart, Zenon
  <2> QED BY <2>1, <2>2, <2>3, Zenon DEF Measured
<1>2. CASE Sendto(c) \/ SendtoFails(c)
  <2>1. /\ at[c] = "send" /\ at'[c] = "recv" /\ t0'[c] = clock[c] /\ start'[c] = start[c]
        /\ i'[c] = i[c] /\ clock'[c] = clock[c] /\ back'[c] = back[c]
        /\ min'[c] = min[c] /\ max'[c] = max[c] /\ total'[c] = total[c]
    BY <1>2, <1>d, Zenon DEF Sendto, SendtoFails, ReadClock
  <2>k. Fits("send", i[c], clock[c], back[c], start[c], t0[c], min[c], max[c], total[c])
    BY <2>1, <1>k, Zenon
  <2>2. Fits("recv", i[c], clock[c], back[c], start[c], clock[c], min[c], max[c], total[c])
    BY <2>k, <1>t, FitsSendto, Zenon
  <2> QED BY <2>1, <2>2, Zenon DEF Measured
<1>3. CASE Recv(c) \/ RecvFails(c)
  <2>1. /\ at[c] = "recv" /\ i'[c] = i[c] + 1 /\ at'[c] = Enter(i[c] + 1)
        /\ min'[c] = (IF clock[c] - t0[c] < min[c] THEN clock[c] - t0[c] ELSE min[c])
        /\ max'[c] = (IF clock[c] - t0[c] > max[c] THEN clock[c] - t0[c] ELSE max[c])
        /\ start'[c] = start[c] /\ clock'[c] = clock[c] /\ back'[c] = back[c]
        /\ t0'[c] = t0[c] /\ total'[c] = total[c]
    BY <1>3, <1>d, Zenon DEF Recv, RecvFails, Measure
  <2>2. at'[c] = "send" \/ at'[c] = "report"
    BY <2>1, Zenon DEF Enter
  <2>3. min'[c] \in Int /\ max'[c] \in Nat
    BY NextClockOK DEF ClockOK
  <2>4. Fits(at'[c], i'[c], clock[c], back[c], start[c], t0[c], min'[c], max'[c], total[c])
    <3>1. Fits("recv", i[c], clock[c], back[c], start[c], t0[c], min[c], max[c], total[c])
      BY <2>1, <1>k, Zenon
    <3> DEFINE r == clock[c] - t0[c]
    <3>r. r \in Int /\ min[c] \in Int /\ max[c] \in Int
      BY <1>t
    <3>m. /\ min'[c] = (IF r < min[c] THEN r ELSE min[c])
          /\ max'[c] = (IF r > max[c] THEN r ELSE max[c])
      BY <2>1, Zenon
    <3> HIDE DEF r
    <3>2. /\ min'[c] <= min[c] /\ min'[c] <= r /\ (min'[c] = min[c] \/ min'[c] = r)
          /\ max[c] <= max'[c] /\ r <= max'[c] /\ (max'[c] = max[c] \/ max'[c] = r)
      BY <3>r, <3>m, NewMeasures, ZenonT(40)
    <3>3. i'[c] = i[c] + 1
      BY <2>1
    <3> QED BY <2>2, <2>3, <3>1, <3>2, <3>3, <1>t, FitsRecv, ZenonT(40) DEF r
  <2> QED BY <2>1, <2>4, Zenon DEF Measured
<1>4. CASE Report(c)
  <2>1. /\ at[c] = "report" /\ at'[c] = "done" /\ total'[c] = clock[c] - start[c]
        /\ i'[c] = i[c] /\ start'[c] = start[c] /\ back'[c] = back[c]
        /\ clock'[c] = clock[c] /\ t0'[c] = t0[c]
        /\ min'[c] = min[c] /\ max'[c] = max[c]
    BY <1>4, <1>d, Zenon DEF Report
  <2>k. Fits("report", i[c], clock[c], back[c], start[c], t0[c], min[c], max[c], total[c])
    BY <2>1, <1>k, Zenon
  <2>2. Fits("done", i[c], clock[c], back[c], start[c], t0[c], min[c], max[c],
             clock[c] - start[c])
    BY <2>k, <1>t, FitsReport, Zenon
  <2> QED BY <2>1, <2>2, Zenon DEF Measured
<1>5. CASE Tick(c) \/ SetBack(c)
  <2>1. UNCHANGED <<i, at, start, t0, min, max, total>>
    BY <1>5, Zenon DEF Tick, SetBack
  <2>2. \/ clock'[c] = clock[c] + 1 /\ back'[c] = back[c]
        \/ clock'[c] = clock[c] - 1 /\ back'[c] = back[c] + 1
    BY <1>5, <1>d, Zenon DEF Tick, SetBack
  <2>3. /\ clock'[c] \in Int /\ back'[c] \in Nat /\ back[c] <= back'[c]
        /\ clock[c] + back[c] <= clock'[c] + back'[c]
    <3>1. ASSUME NEW x \in Int, NEW y \in Nat
          PROVE  /\ x + 1 \in Int /\ x - 1 \in Int /\ y + 1 \in Nat /\ y <= y /\ y <= y + 1
                 /\ x + y <= (x + 1) + y /\ x + y <= (x - 1) + (y + 1)
      OBVIOUS
    <3> QED BY <2>2, <3>1, <1>t, Zenon
  <2>4. Fits(at[c], i[c], clock'[c], back'[c], start[c], t0[c], min[c], max[c], total[c])
    BY <2>3, <1>k, <1>t, FitsClock, ZenonT(40)
  <2> QED BY <2>1, <2>4, Zenon DEF Measured
<1>7. CASE Recvfrom \/ RecvfromFails \/ Reply \/ Lose \/ Duplicate \/ UNCHANGED vars
  BY <1>7, <1>u DEF Mine, Recvfrom, RecvfromFails, Reply, Lose, Duplicate, vars
<1> QED
  BY SMTT(40), <1>o, <1>1, <1>2, <1>3, <1>4, <1>5, <1>7 DEF Next

\* However the clock is set back while a client runs: the round trips it measures
\* do not overlap, so the minimum, maximum, average and total it prints agree but
\* for what the clock was set back.
THEOREM EchoMeasuresAgree == Spec => []MeasuresAgree
<1>1. EchoInv /\ ClockOK /\ MeasuredInv => MeasuresAgree
  <2> SUFFICES ASSUME EchoInv, ClockOK, MeasuredInv, NEW c \in Clients,
                      at[c] = "done", Count > 0
               PROVE  /\ -back[c] <= min[c] /\ min[c] <= max[c]
                      /\ min[c] * Count <= total[c] + back[c]
                      /\ max[c] <= total[c] + back[c]
    BY Zenon DEF MeasuresAgree
  <2>1. i[c] = Count /\ Measured(c)
    BY Zenon DEF EchoInv, Phase, MeasuredInv
  <2>2. /\ AllFit(Count, min[c], back[c], 0, total[c]) /\ -back[c] <= min[c]
        /\ LongestFits(max[c], back[c], 0, total[c]) /\ min[c] <= max[c]
    BY <2>1, Zenon DEF Measured, Fits
  <2>3. total[c] \in Int /\ back[c] \in Nat
    BY DEF ClockOK
  <2>4. total[c] + back[c] - 0 = total[c] + back[c]
    BY <2>3
  <2> QED BY <2>2, <2>4, Zenon DEF AllFit, LongestFits
<1> QED
  BY <1>1, InitEchoInv, NextEchoInv, InitClockOK, NextClockOK, InitMeasuredInv,
     NextMeasuredInv, PTL DEF Spec

-----------------------------------------------------------------------------
(* Conservation *)

\* What is in flight, of all clients, and of one.
Flying == net \cup (IF srv = "sendto" THEN buf ELSE {})
Of(F, c) == {d \in F : d.peer = c}

\* Peer, iteration and copy tell datagrams in flight apart.
SameKey(d, e) == d.peer = e.peer /\ d.seq = e.seq /\ d.copy = e.copy
Distinct(F) == \A d, e \in F : SameKey(d, e) => d = e

\* Copies are numbered by dups; the original is a probe already sent.
Numbered(d) ==
    /\ d.copy <= dups[d.peer]
    /\ d.copy = 0 => \/ d.seq < i[d.peer]
                     \/ d.seq = i[d.peer] /\ at[d.peer] = "recv"

\* The inductive strengthening of Conservation.
FlightInv ==
    /\ IsFiniteSet(Flying) /\ Distinct(Flying)
    /\ \A d \in Flying : Numbered(d)
    /\ srv = "sendto" => \E d \in buf : buf = {d} /\ d \notin net
    /\ Conservation

\* The datagrams counted by Conservation are those on the network and in the server.
LEMMA InFlightIsFlying == \A c : InFlight(c) = Of(Flying, c)
BY DEF InFlight, Flying, Of

\* One more datagram, one less, and one in the place of another.
LEMMA OneMore ==
  ASSUME NEW F, IsFiniteSet(F), Distinct(F), NEW x, \A d \in F : ~ SameKey(d, x)
  PROVE  /\ IsFiniteSet(F \cup {x}) /\ Distinct(F \cup {x})
         /\ Cardinality(Of(F \cup {x}, x.peer)) = Cardinality(Of(F, x.peer)) + 1
         /\ \A c : c # x.peer => Of(F \cup {x}, c) = Of(F, c)
<1>1. x \notin F
  BY DEF SameKey
<1>2. IsFiniteSet(F \cup {x})
  BY FS_AddElement, Zenon
<1>3. Distinct(F \cup {x})
  BY Zenon DEF Distinct, SameKey
<1> DEFINE G == Of(F, x.peer)
<1>4. IsFiniteSet(G) /\ x \notin G
  BY <1>1, FS_Subset, Zenon DEF Of
<1>5. Of(F \cup {x}, x.peer) = G \cup {x}
  BY DEF Of
<1>6. Cardinality(G \cup {x}) = Cardinality(G) + 1
  <2> HIDE DEF G
  <2> QED BY SMTT(40), <1>4, FS_AddElement
<1>7. \A c : c # x.peer => Of(F \cup {x}, c) = Of(F, c)
  BY DEF Of
<1> QED BY <1>2, <1>3, <1>5, <1>6, <1>7, Zenon

\* Taking a datagram away takes one from its client's number and from no other's.
LEMMA OneLess ==
  ASSUME NEW F, IsFiniteSet(F), Distinct(F), NEW x \in F
  PROVE  /\ IsFiniteSet(F \ {x}) /\ Distinct(F \ {x})
         /\ \A d \in F \ {x} : ~ SameKey(d, x)
         /\ Cardinality(Of(F \ {x}, x.peer)) + 1 = Cardinality(Of(F, x.peer))
         /\ \A c : c # x.peer => Of(F \ {x}, c) = Of(F, c)
<1>1. IsFiniteSet(F \ {x})
  BY FS_RemoveElement, Zenon
<1>2. Distinct(F \ {x}) /\ \A d \in F \ {x} : ~ SameKey(d, x)
  BY Zenon DEF Distinct
<1>3. (F \ {x}) \cup {x} = F
  OBVIOUS
<1>4. /\ Cardinality(Of((F \ {x}) \cup {x}, x.peer))
           = Cardinality(Of(F \ {x}, x.peer)) + 1
      /\ \A c : c # x.peer => Of((F \ {x}) \cup {x}, c) = Of(F \ {x}, c)
  BY <1>1, <1>2, OneMore, Zenon
<1> QED BY <1>1, <1>2, <1>3, <1>4, Zenon

\* A datagram that takes another one's place leaves all numbers alone.
LEMMA Exchanged ==
  ASSUME NEW F, IsFiniteSet(F), Distinct(F), NEW x \in F, NEW y, SameKey(x, y),
         NEW G, G = (F \ {x}) \cup {y}
  PROVE  /\ IsFiniteSet(G) /\ Distinct(G)
         /\ \A c : Cardinality(Of(G, c)) = Cardinality(Of(F, c))
<1> DEFINE E == F \ {x}
<1>0. G = E \cup {y}
  OBVIOUS
<1>1. /\ IsFiniteSet(E) /\ Distinct(E)
      /\ \A d \in E : ~ SameKey(d, x)
      /\ Cardinality(Of(E, x.peer)) + 1 = Cardinality(Of(F, x.peer))
      /\ \A c : c # x.peer => Of(E, c) = Of(F, c)
  BY OneLess, Zenon
<1> HIDE DEF E
<1>2. \A d \in E : ~ SameKey(d, y)
  BY <1>1 DEF SameKey
<1>3. /\ IsFiniteSet(G) /\ Distinct(G)
      /\ Cardinality(Of(G, y.peer)) = Cardinality(Of(E, y.peer)) + 1
      /\ \A c : c # y.peer => Of(G, c) = Of(E, c)
  <2>1. /\ IsFiniteSet(E \cup {y}) /\ Distinct(E \cup {y})
        /\ Cardinality(Of(E \cup {y}, y.peer)) = Cardinality(Of(E, y.peer)) + 1
        /\ \A c : c # y.peer => Of(E \cup {y}, c) = Of(E, c)
    BY <1>1, <1>2, OneMore, Zenon
  <2> QED BY <1>0, <2>1, Zenon
<1>4. x.peer = y.peer
  BY DEF SameKey
<1>5. \A c : Cardinality(Of(G, c)) = Cardinality(Of(F, c))
  <2> SUFFICES ASSUME NEW c PROVE Cardinality(Of(G, c)) = Cardinality(Of(F, c))
    OBVIOUS
  <2>1. CASE c = x.peer
    BY <1>1, <1>3, <1>4, <2>1, Zenon
  <2>2. CASE c # x.peer
    BY <1>1, <1>3, <1>4, <2>2, Zenon
  <2> QED BY <2>1, <2>2
<1> QED BY <1>3, <1>5

\* At first nothing is in flight.
LEMMA InitFlightInv == Init => FlightInv
<1> SUFFICES ASSUME Init PROVE FlightInv
  OBVIOUS
<1>1. Flying = {} /\ srv = "recvfrom"
  BY DEF Init, Flying
<1>2. \A c : InFlight(c) = {}
  BY <1>1, InFlightIsFlying, Zenon DEF Of
<1>3. Conservation
  <2>1. \A c \in Clients : Cardinality(InFlight(c)) = 0
    BY <1>2, FS_EmptySet, Zenon
  <2> HIDE DEF Conservation
  <2> QED BY <2>1 DEF Init, Conservation
<1> QED BY <1>1, <1>3, FS_EmptySet, Zenon DEF FlightInv, Distinct

\* Conservation for one client, n of whose datagrams are in flight.
Balanced(n, l, k, f, a) == n + l = k + f + IF a = "recv" THEN 1 ELSE 0

\* The account stays balanced when a datagram is sent, lost, duplicated or received.
LEMMA BalanceFacts ==
  ASSUME NEW n \in Nat, NEW l \in Nat, NEW k \in Nat, NEW f \in Nat, NEW a,
         Balanced(n, l, k, f, a)
  PROVE  /\ a # "recv" => Balanced(n + 1, l, k, f, "recv") /\ Balanced(n, l + 1, k, f, "recv")
         /\ Balanced(n + 1, l, k + 1, f, a)
         /\ \A m \in Nat : m + 1 = n => Balanced(m, l + 1, k, f, a)
         /\ \A m \in Nat : m + 1 = n /\ a = "recv" =>
              Balanced(m, l, k, f, "send") /\ Balanced(m, l, k, f, "report")
         /\ a = "recv" => Balanced(n, l, k, f + 1, "send") /\ Balanced(n, l, k, f + 1, "report")
         /\ a # "recv" => \A b : b # "recv" => Balanced(n, l, k, f, b)
BY SMTT(40) DEF Balanced

\* Datagrams of clients, numbered, with the server's buffer apart from the network.
LEMMA FlightFacts ==
  ASSUME EchoInv, FlightInv
  PROVE  /\ Flying \subseteq Datagram
         /\ \A c \in Clients :
              /\ Cardinality(Of(Flying, c)) \in Nat
              /\ lost[c] \in Nat /\ dups[c] \in Nat /\ fails[c] \in Nat
              /\ Balanced(Cardinality(Of(Flying, c)), lost[c], dups[c], fails[c], at[c])
<1>1. Flying \subseteq Datagram
  BY DEF EchoInv, EchoOK, Flying
<1>2. \A c : Cardinality(Of(Flying, c)) \in Nat
  BY FS_Subset, FS_CardinalityType, Zenon DEF FlightInv, Of
<1>3. \A c \in Clients : lost[c] \in Nat /\ dups[c] \in Nat /\ fails[c] \in Nat
  BY DEF EchoInv, EchoOK
<1>4. \A c \in Clients : Balanced(Cardinality(Of(Flying, c)), lost[c], dups[c], fails[c], at[c])
  BY InFlightIsFlying, Zenon DEF FlightInv, Conservation, Balanced
<1> QED BY <1>1, <1>2, <1>3, <1>4

\* A balanced account for every client is Conservation.
LEMMA BalancedIsConserved ==
  (\A c \in Clients :
     Balanced(Cardinality(Of(Flying', c)), lost'[c], dups'[c], fails'[c], at'[c])) => Conservation'
<1> SUFFICES ASSUME \A c \in Clients :
                      Balanced(Cardinality(Of(Flying', c)), lost'[c], dups'[c], fails'[c], at'[c])
             PROVE  Conservation'
  OBVIOUS
<1>1. \A c : InFlight(c)' = Of(Flying', c)
  BY DEF InFlight, Flying, Of
<1> QED BY <1>1, Zenon DEF Conservation, Balanced

\* Every step keeps the account of every client balanced.
LEMMA NextFlightInv == EchoInv /\ FlightInv /\ [Next]_vars => FlightInv'
<1> SUFFICES ASSUME EchoInv, FlightInv, [Next]_vars PROVE FlightInv'
  OBVIOUS
<1> USE DEF server, faults, time, measures
<1>t. /\ i \in [Clients -> 0..Count] /\ lost \in [Clients -> Nat]
      /\ dups \in [Clients -> Nat] /\ fails \in [Clients -> Nat] /\ Count \in Nat
      /\ at \in [Clients -> {"start", "send", "recv", "report", "done"}]
      /\ \A d \in Flying : d \in Datagram /\ Numbered(d)
      /\ IsFiniteSet(Flying) /\ Distinct(Flying)
      /\ net \subseteq Datagram /\ buf \subseteq Datagram
  BY FlightFacts, CountAssumption, Zenon DEF EchoInv, EchoOK, FlightInv
<1>b. /\ \A c \in Clients :
           /\ Cardinality(Of(Flying, c)) \in Nat
           /\ lost[c] \in Nat /\ dups[c] \in Nat /\ fails[c] \in Nat
           /\ Balanced(Cardinality(Of(Flying, c)), lost[c], dups[c], fails[c], at[c])
      /\ srv = "sendto" => \E d \in buf : buf = {d} /\ d \notin net
  BY FlightFacts, Zenon DEF FlightInv
<1>1. ASSUME NEW c \in Clients, at[c] # "recv", at'[c] # "recv",
             \A e \in Clients : e # c => at'[e] = at[e],
             UNCHANGED <<i, net, srv, buf, lost, dups, fails>>
      PROVE  FlightInv'
  <2>1. Flying' = Flying
    BY SMTT(40), <1>1 DEF Flying
  <2>2. \A d \in Flying : Numbered(d)'
    <3> SUFFICES ASSUME NEW d \in Flying PROVE Numbered(d)'
      OBVIOUS
    <3>1. d.peer \in Clients /\ Numbered(d)
      BY <1>t, FieldFacts
    <3> QED BY <1>1, <3>1 DEF Numbered
  <2>3. \A e \in Clients :
           Balanced(Cardinality(Of(Flying', e)), lost'[e], dups'[e], fails'[e], at'[e])
    BY <1>1, <1>b, <2>1, BalanceFacts, Zenon
  <2> QED BY <1>1, <1>t, <1>b, <2>1, <2>2, <2>3, BalancedIsConserved, Zenon DEF FlightInv
<1>2. ASSUME NEW c \in Clients, Sendto(c) PROVE FlightInv'
  <2>1. /\ at[c] = "send" /\ at' = [at EXCEPT ![c] = "recv"]
        /\ net' = net \cup {Probe(c)} /\ UNCHANGED <<i, srv, buf, lost, dups, fails>>
    BY <1>2, ZenonT(40) DEF Sendto
  <2> DEFINE x == Probe(c)
  <2>2. x.peer = c /\ x.seq = i[c] /\ x.copy = 0
    BY DEF Probe, Dgram
  <2> HIDE DEF x
  <2>3. Flying' = Flying \cup {x}
    BY <2>1 DEF Flying, x
  <2>4. \A d \in Flying : ~ SameKey(d, x)
    <3> SUFFICES ASSUME NEW d \in Flying, SameKey(d, x) PROVE FALSE
      BY SMTT(40)
    <3>1. d.peer = c /\ d.seq = i[c] /\ d.copy = 0 /\ Numbered(d)
      BY SMTT(40), <1>t, <2>2 DEF SameKey
    <3>2. i[c] < i[c]
      BY <2>1, <3>1 DEF Numbered
    <3>3. i[c] \in Int
      BY <1>t
    <3> QED BY <3>2, <3>3
  <2>5. /\ IsFiniteSet(Flying') /\ Distinct(Flying')
        /\ Cardinality(Of(Flying', c)) = Cardinality(Of(Flying, c)) + 1
        /\ \A e : e # c => Of(Flying', e) = Of(Flying, e)
    BY <1>t, <2>2, <2>3, <2>4, OneMore, Zenon
  <2>6. \A d \in Flying' : Numbered(d)'
    <3> SUFFICES ASSUME NEW d \in Flying' PROVE Numbered(d)'
      BY SMTT(40)
    <3>1. CASE d \in Flying
      <4>1. d.peer \in Clients /\ Numbered(d)
        BY SMTT(40), <1>t, <3>1, FieldFacts
      <4> QED BY <1>t, <2>1, <4>1 DEF Numbered
    <3>2. CASE d = x
      BY SMTT(40), <1>t, <2>1, <2>2, <3>2 DEF Numbered
    <3> QED BY <2>3, <3>1, <3>2
  <2>7. \A e \in Clients :
           Balanced(Cardinality(Of(Flying', e)), lost'[e], dups'[e], fails'[e], at'[e])
    <3> SUFFICES ASSUME NEW e \in Clients
                 PROVE  Balanced(Cardinality(Of(Flying', e)), lost'[e], dups'[e], fails'[e], at'[e])
      OBVIOUS
    <3>1. at'[c] = "recv" /\ (e # c => at'[e] = at[e])
      BY <1>t, <2>1
    <3>2. CASE e = c
      <4>1. at[c] # "recv"
        BY <2>1
      <4>2. Balanced(Cardinality(Of(Flying, c)) + 1, lost[c], dups[c], fails[c], "recv")
        BY <1>b, <4>1, BalanceFacts, Zenon
      <4> QED BY <2>1, <2>5, <3>1, <3>2, <4>2, Zenon
    <3>3. CASE e # c
      BY <1>b, <2>1, <2>5, <3>1, <3>3, Zenon
    <3> QED BY SMTT(40), <3>2, <3>3
  <2>8. srv' = "sendto" => \E d \in buf' : buf' = {d} /\ d \notin net'
    <3> SUFFICES ASSUME srv = "sendto" PROVE \E d \in buf : buf = {d} /\ d \notin net'
      BY SMTT(40), <2>1
    <3>1. PICK d \in buf : buf = {d} /\ d \notin net
      BY <1>b
    <3>2. d \in Flying
      BY DEF Flying
    <3>3. d # x
      BY <2>4, <3>2 DEF SameKey
    <3> QED BY <2>1, <3>1, <3>3 DEF x
  <2> QED BY <2>5, <2>6, <2>7, <2>8, BalancedIsConserved, Zenon DEF FlightInv
<1>3. ASSUME NEW c \in Clients, SendtoFails(c) PROVE FlightInv'
  <2>1. /\ at[c] = "send" /\ at' = [at EXCEPT ![c] = "recv"]
        /\ lost' = [lost EXCEPT ![c] = @ + 1]
        /\ UNCHANGED <<i, net, srv, buf, dups, fails>>
    BY <1>3 DEF SendtoFails
  <2>2. Flying' = Flying
    BY <2>1 DEF Flying
  <2>3. \A d \in Flying : Numbered(d)'
    <3> SUFFICES ASSUME NEW d \in Flying PROVE Numbered(d)'
      OBVIOUS
    <3>1. d.peer \in Clients /\ Numbered(d)
      BY SMTT(40), <1>t, FieldFacts
    <3> QED BY <1>t, <2>1, <3>1 DEF Numbered
  <2>4. \A e \in Clients :
           Balanced(Cardinality(Of(Flying', e)), lost'[e], dups'[e], fails'[e], at'[e])
    <3> SUFFICES ASSUME NEW e \in Clients
                 PROVE  Balanced(Cardinality(Of(Flying', e)), lost'[e], dups'[e], fails'[e], at'[e])
      OBVIOUS
    <3>1. /\ at'[c] = "recv" /\ lost'[c] = lost[c] + 1
          /\ e # c => at'[e] = at[e] /\ lost'[e] = lost[e]
      BY <1>t, <2>1
    <3>2. CASE e = c
      <4>1. at[c] # "recv"
        BY <2>1
      <4>2. Balanced(Cardinality(Of(Flying, c)), lost[c] + 1, dups[c], fails[c], "recv")
        BY <1>b, <4>1, BalanceFacts, Zenon
      <4> QED BY <2>1, <2>2, <3>1, <3>2, <4>2, Zenon
    <3>3. CASE e # c
      BY <1>b, <2>1, <2>2, <3>1, <3>3, ZenonT(40)
    <3> QED BY SMTT(40), <3>2, <3>3
  <2> QED BY <1>t, <1>b, <2>1, <2>2, <2>3, <2>4, BalancedIsConserved, Zenon DEF FlightInv
<1>r. ASSUME NEW x \in net, net' = net \ {x}, UNCHANGED <<srv, buf>>
      PROVE  /\ Flying' = Flying \ {x} /\ x \in Flying
             /\ IsFiniteSet(Flying') /\ Distinct(Flying')
             /\ Cardinality(Of(Flying', x.peer)) + 1 = Cardinality(Of(Flying, x.peer))
             /\ Cardinality(Of(Flying', x.peer)) \in Nat
             /\ \A e : e # x.peer => Of(Flying', e) = Of(Flying, e)
             /\ srv' = "sendto" => \E d \in buf' : buf' = {d} /\ d \notin net'
  <2>1. x \in Flying
    BY DEF Flying
  <2>2. Flying' = Flying \ {x}
    <3>1. CASE srv = "sendto"
      <4>1. x \notin buf
        BY <1>b, <3>1
      <4> QED BY SMTT(40), <1>r, <3>1, <4>1 DEF Flying
    <3>2. CASE srv # "sendto"
      BY <1>r, <3>2 DEF Flying
    <3> QED BY <3>1, <3>2
  <2>3. /\ IsFiniteSet(Flying') /\ Distinct(Flying')
        /\ Cardinality(Of(Flying', x.peer)) + 1 = Cardinality(Of(Flying, x.peer))
        /\ \A e : e # x.peer => Of(Flying', e) = Of(Flying, e)
    BY <1>t, <2>1, <2>2, OneLess, Zenon
  <2>4. Cardinality(Of(Flying', x.peer)) \in Nat
    BY <2>3, FS_Subset, FS_CardinalityType, Zenon DEF Of
  <2>5. srv' = "sendto" => \E d \in buf' : buf' = {d} /\ d \notin net'
    BY <1>b, <1>r, Zenon
  <2> QED BY <2>1, <2>2, <2>3, <2>4, <2>5
<1>4. ASSUME NEW c \in Clients, Recv(c) PROVE FlightInv'
  <2>1. PICK x \in net :
          /\ at[c] = "recv" /\ x.peer = c
          /\ net' = net \ {x}
          /\ i' = [i EXCEPT ![c] = @ + 1]
          /\ at' = [at EXCEPT ![c] = Enter(i[c] + 1)]
          /\ UNCHANGED <<srv, buf, lost, dups, fails>>
    BY <1>4, Zenon DEF Recv, Measure
  <2>2. /\ Flying' = Flying \ {x}
        /\ IsFiniteSet(Flying') /\ Distinct(Flying')
        /\ Cardinality(Of(Flying', c)) + 1 = Cardinality(Of(Flying, c))
        /\ Cardinality(Of(Flying', c)) \in Nat
        /\ \A e : e # c => Of(Flying', e) = Of(Flying, e)
        /\ srv' = "sendto" => \E d \in buf' : buf' = {d} /\ d \notin net'
    BY <1>r, <2>1, Zenon
  <2>3. at'[c] = "send" \/ at'[c] = "report"
    BY <1>t, <2>1 DEF Enter
  <2>4. \A d \in Flying' : Numbered(d)'
    <3> SUFFICES ASSUME NEW d \in Flying PROVE Numbered(d)'
      BY SMTT(40), <2>2
    <3>1. d.peer \in Clients /\ Numbered(d) /\ d.seq \in Int /\ i[d.peer] \in Int
      BY SMTT(40), <1>t, FieldFacts
    <3>2. CASE d.peer = c
      <4>1. i'[c] = i[c] + 1
        BY SMTT(40), <1>t, <2>1
      <4>2. d.copy = 0 => d.seq <= i[c]
        BY SMTT(40), <3>1, <3>2 DEF Numbered
      <4>3. d.copy = 0 => d.seq < i[c] + 1
        BY <3>1, <3>2, <4>2
      <4> QED BY SMTT(40), <2>1, <3>1, <3>2, <4>1, <4>3 DEF Numbered
    <3>3. CASE d.peer # c
      <4>1. i'[d.peer] = i[d.peer] /\ at'[d.peer] = at[d.peer]
        BY <1>t, <2>1, <3>1, <3>3, ZenonT(40)
      <4> QED BY <2>1, <3>1, <4>1, Zenon DEF Numbered
    <3> QED BY SMTT(40), <3>2, <3>3
  <2>5. \A e \in Clients :
           Balanced(Cardinality(Of(Flying', e)), lost'[e], dups'[e], fails'[e], at'[e])
    <3> SUFFICES ASSUME NEW e \in Clients
                 PROVE  Balanced(Cardinality(Of(Flying', e)), lost'[e], dups'[e], fails'[e], at'[e])
      BY SMTT(40)
    <3>1. e # c => at'[e] = at[e]
      BY <1>t, <2>1
    <3>2. CASE e = c
      <4>1. /\ Balanced(Cardinality(Of(Flying', c)), lost[c], dups[c], fails[c], "send")
            /\ Balanced(Cardinality(Of(Flying', c)), lost[c], dups[c], fails[c], "report")
        BY <1>b, <2>1, <2>2, BalanceFacts, Zenon
      <4> QED BY <2>1, <2>3, <3>2, <4>1, Zenon
    <3>3. CASE e # c
      BY <1>b, <2>1, <2>2, <3>1, <3>3, Zenon
    <3> QED BY SMTT(40), <3>2, <3>3
  <2> QED BY <2>2, <2>4, <2>5, BalancedIsConserved, Zenon DEF FlightInv
<1>f. ASSUME NEW c \in Clients, RecvFails(c) PROVE FlightInv'
  <2>1. /\ at[c] = "recv"
        /\ i' = [i EXCEPT ![c] = @ + 1] /\ at' = [at EXCEPT ![c] = Enter(i[c] + 1)]
        /\ fails' = [fails EXCEPT ![c] = @ + 1]
        /\ UNCHANGED <<net, srv, buf, lost, dups>>
    BY <1>f, Zenon DEF RecvFails, Measure
  <2>2. Flying' = Flying
    BY SMTT(40), <2>1 DEF Flying
  <2>3. at'[c] = "send" \/ at'[c] = "report"
    BY SMTT(40), <1>t, <2>1 DEF Enter
  <2>4. \A d \in Flying : Numbered(d)'
    <3> SUFFICES ASSUME NEW d \in Flying PROVE Numbered(d)'
      OBVIOUS
    <3>1. d.peer \in Clients /\ Numbered(d) /\ d.seq \in Int /\ i[d.peer] \in Int
      BY SMTT(40), <1>t, FieldFacts
    <3>2. i'[c] = i[c] + 1 /\ (d.peer # c => i'[d.peer] = i[d.peer] /\ at'[d.peer] = at[d.peer])
      BY SMTT(40), <1>t, <2>1, <3>1
    <3> QED BY <2>1, <3>1, <3>2 DEF Numbered
  <2>5. \A e \in Clients :
           Balanced(Cardinality(Of(Flying', e)), lost'[e], dups'[e], fails'[e], at'[e])
    <3> SUFFICES ASSUME NEW e \in Clients
                 PROVE  Balanced(Cardinality(Of(Flying', e)), lost'[e], dups'[e], fails'[e], at'[e])
      BY SMTT(40)
    <3>1. /\ fails'[c] = fails[c] + 1
          /\ e # c => at'[e] = at[e] /\ fails'[e] = fails[e]
      BY <1>t, <2>1
    <3>2. CASE e = c
      <4>1. /\ Balanced(Cardinality(Of(Flying, c)), lost[c], dups[c], fails[c] + 1, "send")
            /\ Balanced(Cardinality(Of(Flying, c)), lost[c], dups[c], fails[c] + 1, "report")
        BY <1>b, <2>1, BalanceFacts, Zenon
      <4> QED BY <2>1, <2>2, <2>3, <3>1, <3>2, <4>1, Zenon
    <3>3. CASE e # c
      BY <1>b, <2>1, <2>2, <3>1, <3>3, ZenonT(40)
    <3> QED BY SMTT(40), <3>2, <3>3
  <2> QED BY <1>t, <1>b, <2>1, <2>2, <2>4, <2>5, BalancedIsConserved, Zenon DEF FlightInv
<1>5. ASSUME Lose PROVE FlightInv'
  <2>1. PICK x \in net :
          /\ net' = net \ {x}
          /\ lost' = [lost EXCEPT ![x.peer] = @ + 1]
          /\ UNCHANGED <<i, at, srv, buf, dups, fails>>
    BY <1>5, Zenon DEF Lose
  <2> DEFINE c == x.peer
  <2>2. c \in Clients
    BY <1>t, FieldFacts
  <2>3. /\ Flying' = Flying \ {x}
        /\ IsFiniteSet(Flying') /\ Distinct(Flying')
        /\ Cardinality(Of(Flying', c)) + 1 = Cardinality(Of(Flying, c))
        /\ Cardinality(Of(Flying', c)) \in Nat
        /\ \A e : e # c => Of(Flying', e) = Of(Flying, e)
        /\ srv' = "sendto" => \E d \in buf' : buf' = {d} /\ d \notin net'
    BY <1>r, <2>1, Zenon
  <2>4. lost'[c] = lost[c] + 1 /\ \A e \in Clients : e # c => lost'[e] = lost[e]
    BY <1>t, <2>1, <2>2
  <2> HIDE DEF c
  <2>5. \A d \in Flying' : Numbered(d)'
    BY <1>t, <2>1, <2>3, ZenonT(40) DEF Numbered
  <2>6. \A e \in Clients :
           Balanced(Cardinality(Of(Flying', e)), lost'[e], dups'[e], fails'[e], at'[e])
    <3> SUFFICES ASSUME NEW e \in Clients
                 PROVE  Balanced(Cardinality(Of(Flying', e)), lost'[e], dups'[e], fails'[e], at'[e])
      OBVIOUS
    <3>1. CASE e = c
      <4>1. Balanced(Cardinality(Of(Flying', c)), lost[c] + 1, dups[c], fails[c], at[c])
        BY <1>b, <2>2, <2>3, BalanceFacts, Zenon
      <4> QED BY <2>1, <2>4, <3>1, <4>1, Zenon
    <3>2. CASE e # c
      BY <1>b, <2>1, <2>3, <2>4, <3>2, Zenon
    <3> QED BY SMTT(40), <3>1, <3>2
  <2> QED BY <2>3, <2>5, <2>6, BalancedIsConserved, Zenon DEF FlightInv
<1>6. ASSUME Duplicate PROVE FlightInv'
  <2>1. PICK d \in net :
          /\ dups' = [dups EXCEPT ![d.peer] = @ + 1]
          /\ net' = net \cup {Dgram(d.kind, d.peer, d.seq, d.len, dups[d.peer] + 1)}
          /\ UNCHANGED <<i, at, srv, buf, lost, fails>>
    BY <1>6, Zenon DEF Duplicate
  <2> DEFINE c == d.peer
             x == Dgram(d.kind, d.peer, d.seq, d.len, dups[d.peer] + 1)
  <2>2. c \in Clients /\ dups[c] \in Nat
    BY SMTT(40), <1>t, FieldFacts
  <2>3. x.peer = c /\ x.copy = dups[c] + 1
    BY SMTT(40) DEF Dgram
  <2>4. /\ net' = net \cup {x}
        /\ dups'[c] = dups[c] + 1 /\ \A e \in Clients : e # c => dups'[e] = dups[e]
    BY SMTT(40), <1>t, <2>1, <2>2
  <2> HIDE DEF x, c
  <2>5. Flying' = Flying \cup {x}
    BY <2>1, <2>4 DEF Flying
  <2>6. \A e \in Flying : ~ SameKey(e, x)
    <3> SUFFICES ASSUME NEW e \in Flying, SameKey(e, x) PROVE FALSE
      BY SMTT(40)
    <3>1. e.peer = c /\ e.copy = dups[c] + 1 /\ Numbered(e)
      BY SMTT(40), <1>t, <2>3 DEF SameKey
    <3>2. dups[c] + 1 <= dups[c]
      BY <3>1 DEF Numbered
    <3> QED BY <2>2, <3>2
  <2>7. /\ IsFiniteSet(Flying') /\ Distinct(Flying')
        /\ Cardinality(Of(Flying', c)) = Cardinality(Of(Flying, c)) + 1
        /\ \A e : e # c => Of(Flying', e) = Of(Flying, e)
    BY <1>t, <2>3, <2>5, <2>6, OneMore, ZenonT(40)
  <2>8. \A e \in Flying' : Numbered(e)'
    <3> SUFFICES ASSUME NEW e \in Flying' PROVE Numbered(e)'
      OBVIOUS
    <3>1. CASE e \in Flying
      <4>1. e.peer \in Clients /\ Numbered(e) /\ e.copy \in Nat /\ dups[e.peer] \in Nat
        BY SMTT(40), <1>t, <3>1, FieldFacts
      <4>2. e.copy <= dups'[e.peer]
        BY <2>2, <2>4, <4>1 DEF Numbered
      <4> QED BY <2>1, <4>1, <4>2, Zenon DEF Numbered
    <3>2. CASE e = x
      <4>1. e.copy <= dups'[e.peer] /\ e.copy # 0
        BY SMTT(40), <2>2, <2>3, <2>4, <3>2
      <4> QED BY <4>1, Zenon DEF Numbered
    <3> QED BY <2>5, <3>1, <3>2
  <2>9. \A e \in Clients :
           Balanced(Cardinality(Of(Flying', e)), lost'[e], dups'[e], fails'[e], at'[e])
    <3> SUFFICES ASSUME NEW e \in Clients
                 PROVE  Balanced(Cardinality(Of(Flying', e)), lost'[e], dups'[e], fails'[e], at'[e])
      OBVIOUS
    <3>1. CASE e = c
      <4>1. Balanced(Cardinality(Of(Flying, c)) + 1, lost[c], dups[c] + 1, fails[c], at[c])
        BY <1>b, <2>2, BalanceFacts, Zenon
      <4> QED BY <2>1, <2>4, <2>7, <3>1, <4>1, Zenon
    <3>2. CASE e # c
      BY <1>b, <2>1, <2>4, <2>7, <3>2, ZenonT(60)
    <3> QED BY SMTT(40), <3>1, <3>2
  <2>10. srv' = "sendto" => \E e \in buf' : buf' = {e} /\ e \notin net'
    <3> SUFFICES ASSUME srv = "sendto" PROVE \E e \in buf : buf = {e} /\ e \notin net'
      BY SMTT(40), <2>1
    <3>1. PICK e \in buf : buf = {e} /\ e \notin net
      BY <1>b
    <3>2. e \in Flying
      BY DEF Flying
    <3>3. e # x
      BY <2>6, <3>2 DEF SameKey
    <3> QED BY SMTT(40), <2>4, <3>1, <3>3
  <2> QED BY <2>7, <2>8, <2>9, <2>10, BalancedIsConserved, Zenon DEF FlightInv
<1>x. ASSUME NEW x \in Flying, NEW y, SameKey(x, y), Flying' = (Flying \ {x}) \cup {y},
             UNCHANGED <<i, at, lost, dups, fails>>,
             srv' = "sendto" => \E d \in buf' : buf' = {d} /\ d \notin net'
      PROVE  FlightInv'
  <2>1. /\ IsFiniteSet(Flying') /\ Distinct(Flying')
        /\ \A c : Cardinality(Of(Flying', c)) = Cardinality(Of(Flying, c))
    <3>1. IsFiniteSet(Flying) /\ Distinct(Flying)
      BY <1>t
    <3> QED BY <1>x, <3>1, Exchanged
  <2>2. \A d \in Flying : Numbered(d)'
    BY <1>t, <1>x, Zenon DEF Numbered
  <2>3. Numbered(y)'
    BY <1>x, <2>2, Zenon DEF Numbered, SameKey
  <2>4. \A d \in Flying' : Numbered(d)'
    BY <1>x, <2>2, <2>3
  <2>5. \A c \in Clients :
           Balanced(Cardinality(Of(Flying', c)), lost'[c], dups'[c], fails'[c], at'[c])
    BY <1>b, <1>x, <2>1, Zenon
  <2> QED BY <1>x, <2>1, <2>4, <2>5, BalancedIsConserved, Zenon DEF FlightInv
<1>7. ASSUME Recvfrom PROVE FlightInv'
  <2>1. PICK d \in net :
          /\ srv = "recvfrom" /\ net' = net \ {d}
          /\ buf' = {Dgram("probe", d.peer, d.seq, Min(d.len, BUF_SZ), d.copy)}
          /\ srv' = "sendto"
          /\ UNCHANGED <<i, at, lost, dups, fails>>
    BY SMTT(40), <1>7 DEF Recvfrom
  <2> DEFINE y == Dgram("probe", d.peer, d.seq, Min(d.len, BUF_SZ), d.copy)
  <2>2. SameKey(d, y)
    BY DEF SameKey, Dgram
  <2>3. buf' = {y}
    BY SMTT(40), <2>1
  <2> HIDE DEF y
  <2>4. Flying = net /\ d \in Flying /\ Flying' = (Flying \ {d}) \cup {y}
    BY SMTT(40), <2>1, <2>3 DEF Flying
  <2>5. y \notin net'
    <3> SUFFICES ASSUME y \in net, y # d PROVE FALSE
      BY <2>1
    <3> QED BY SMTT(40), <1>t, <2>2, <2>4 DEF Distinct
  <2> QED BY <1>x, <2>1, <2>2, <2>3, <2>4, <2>5, ZenonT(60)
<1>8. ASSUME Reply PROVE FlightInv'
  <2>1. PICK d \in buf :
          /\ srv = "sendto"
          /\ net' = net \cup {Dgram("answer", d.peer, d.seq, d.len, d.copy)}
          /\ srv' = "recvfrom"
          /\ UNCHANGED <<i, at, buf, lost, dups, fails>>
    BY SMTT(40), <1>8 DEF Reply
  <2> DEFINE y == Dgram("answer", d.peer, d.seq, d.len, d.copy)
  <2>2. SameKey(d, y)
    BY DEF SameKey, Dgram
  <2>3. net' = net \cup {y}
    BY <2>1
  <2> HIDE DEF y
  <2>4. buf = {d} /\ d \notin net
    BY <1>b, <2>1, Zenon
  <2>5. d \in Flying /\ Flying' = (Flying \ {d}) \cup {y}
    BY SMTT(40), <2>1, <2>3, <2>4 DEF Flying
  <2>6. srv' # "sendto"
    BY <2>1
  <2> QED BY <1>x, <2>1, <2>2, <2>5, <2>6, ZenonT(60)
<1>9. ASSUME NEW c \in Clients, Start(c) PROVE FlightInv'
  <2>1. /\ at[c] = "start" /\ at' = [at EXCEPT ![c] = Enter(0)]
        /\ UNCHANGED <<i, net, srv, buf, lost, dups, fails>>
    BY SMTT(40), <1>9 DEF Start
  <2>2. at[c] # "recv" /\ at'[c] # "recv" /\ \A e \in Clients : e # c => at'[e] = at[e]
    <3>1. Enter(0) # "recv"
      BY DEF Enter
    <3> QED BY <1>t, <2>1, <3>1
  <2> QED BY <1>1, <2>1, <2>2, ZenonT(60)
<1>10. ASSUME NEW c \in Clients, Report(c) PROVE FlightInv'
  <2>1. /\ at[c] = "report" /\ at' = [at EXCEPT ![c] = "done"]
        /\ UNCHANGED <<i, net, srv, buf, lost, dups, fails>>
    BY <1>10 DEF Report
  <2>2. at[c] # "recv" /\ at'[c] # "recv" /\ \A e \in Clients : e # c => at'[e] = at[e]
    BY <1>t, <2>1
  <2> QED BY <1>1, <2>1, <2>2, Zenon
<1>11. ASSUME UNCHANGED <<i, at, net, srv, buf, lost, dups, fails>> PROVE FlightInv'
  <2>1. Flying' = Flying
    BY <1>11 DEF Flying
  <2>2. \A d \in Flying' : Numbered(d)'
    BY <1>t, <1>11, <2>1, Zenon DEF Numbered
  <2>3. \A c \in Clients :
           Balanced(Cardinality(Of(Flying', c)), lost'[c], dups'[c], fails'[c], at'[c])
    BY <1>b, <1>11, <2>1, ZenonT(60)
  <2> QED BY <1>t, <1>b, <1>11, <2>1, <2>2, <2>3, BalancedIsConserved, Zenon DEF FlightInv
<1>12. ASSUME NEW c \in Clients, Tick(c) \/ SetBack(c) PROVE FlightInv'
  BY <1>11, <1>12 DEF Tick, SetBack
<1>13. ASSUME RecvfromFails PROVE FlightInv'
  BY SMTT(40), <1>11, <1>13 DEF RecvfromFails
<1>14. CASE UNCHANGED vars
  BY <1>11, <1>14 DEF vars
<1> QED
  BY <1>2, <1>3, <1>4, <1>f, <1>5, <1>6, <1>7, <1>8, <1>9, <1>10, <1>12, <1>13, <1>14, ZenonT(40)
     DEF Next

\* Every probe sent is answered, on its way, duplicated, lost or no longer waited
\* for because recv failed.
THEOREM EchoConservation == Spec => []Conservation
<1>1. FlightInv => Conservation
  BY DEF FlightInv
<1> QED
  BY <1>1, InitEchoInv, NextEchoInv, InitFlightInv, NextFlightInv, PTL DEF Spec
=============================================================================
