------------------------------ MODULE UdpEcho -------------------------------
(***************************************************************************)
(* The user-space round trip: echocli processes, each sending one probe    *)
(* and blocking for one answer, Count times over, and the echo server that *)
(* serves them all from one socket.  Between them a network that delivers  *)
(* in any order and may lose and duplicate datagrams; a client measures    *)
(* with its host's clock, which runs on at any time and may be set back.   *)
(***************************************************************************)
EXTENDS Integers, FiniteSets, Sequences

CONSTANTS
    Clients,
    Count,     \* the <count> argument, the same for all clients
    Payload,   \* [Clients -> the <payload-bytes> argument]
    BUF_SZ,    \* the server's buffer
    MaxLost,   \* bound: datagrams lost, [Clients -> Nat]
    MaxDups,   \* bound: datagrams duplicated, [Clients -> Nat]
    MaxFails,  \* bound: failed recv calls of a client, [Clients -> Nat]
    MaxErrs,   \* bound: failed recvfrom calls of the server
    MaxTicks,  \* bound: milliseconds a clock runs on, [Clients -> Nat]
    MaxBack    \* bound: milliseconds it is set back, [Clients -> Nat]

ASSUME CountAssumption == Count \in Nat /\ BUF_SZ \in Nat
ASSUME PayloadAssumption == Payload \in [Clients -> Nat]
ASSUME BoundsAssumption ==
    /\ MaxLost \in [Clients -> Nat] /\ MaxDups \in [Clients -> Nat]
    /\ MaxTicks \in [Clients -> Nat] /\ MaxBack \in [Clients -> Nat]
    /\ MaxFails \in [Clients -> Nat] /\ MaxErrs \in Nat

VARIABLES
    i,        \* the loop counter of each client
    at,       \* "start", "send", "recv", "report" or "done"
    samples,  \* the answers recv has returned: [seq, len]
    net,      \* datagrams in flight
    srv,      \* where the server is: in recvfrom, or about to echo
    buf,      \* its buffer and peer: nothing yet, or the last datagram received
    clock,    \* what gettimeofday says to each client
    start,    \* locals of each client, like the next four
    t0,
    min,
    max,
    total,
    lost,     \* ghost: datagrams of each client lost
    dups,     \* ghost: datagrams of each client duplicated
    fails,    \* ghost: failed recv calls of each client
    errs,     \* ghost: failed recvfrom calls
    ticks,    \* ghost: milliseconds each clock has run on
    back      \* ghost: milliseconds it has been set back

server == <<srv, buf, errs>>
faults == <<lost, dups, fails>>
time == <<clock, ticks, back>>
measures == <<start, t0, min, max, total>>
vars == <<i, at, samples, net, srv, buf, clock, start, t0, min, max, total, lost,
          dups, fails, errs, ticks, back>>

Min(a, b) == IF a < b THEN a ELSE b

\* A datagram; seq is the iteration that sent it and copy tells duplicates
\* apart: ghosts both, every probe has the same bytes.
Datagram ==
    [kind : {"probe", "answer"}, peer : Clients, seq : 0..Count, len : Nat,
     copy : Nat]
Dgram(kind, peer, seq, len, copy) ==
    [kind |-> kind, peer |-> peer, seq |-> seq, len |-> len, copy |-> copy]
Sample == [seq : 0..Count, len : Nat]

EchoOK ==
    /\ i \in [Clients -> 0..Count]
    /\ at \in [Clients -> {"start", "send", "recv", "report", "done"}]
    /\ samples \in [Clients -> Seq(Sample)]
    /\ net \subseteq Datagram
    /\ srv \in {"recvfrom", "sendto"}
    /\ buf \subseteq Datagram /\ Cardinality(buf) <= 1
    /\ lost \in [Clients -> Nat] /\ dups \in [Clients -> Nat]
    /\ \A c \in Clients : lost[c] <= MaxLost[c] /\ dups[c] <= MaxDups[c]
    /\ fails \in [Clients -> Nat] /\ \A c \in Clients : fails[c] <= MaxFails[c]
    /\ errs \in 0..MaxErrs

ClockOK ==
    /\ ticks \in [Clients -> Nat] /\ back \in [Clients -> Nat]
    /\ \A c \in Clients : ticks[c] <= MaxTicks[c] /\ back[c] <= MaxBack[c]
    /\ clock \in [Clients -> Int]
    /\ start \in [Clients -> Int] /\ t0 \in [Clients -> Int]
    /\ min \in [Clients -> Int] /\ max \in [Clients -> Nat]
    /\ total \in [Clients -> Int]

TypeOK == EchoOK /\ ClockOK

\* Mutant: one round trip too many.
EnterLate(k) == IF k <= Count THEN "send" ELSE "report"

\* The loop condition of the client.
Enter(k) == IF k < Count THEN "send" ELSE "report"

\* The least round trip before there is one: 1e9.
FarMin == 1000000000

Init ==
    /\ i = [c \in Clients |-> 0]
    /\ at = [c \in Clients |-> "start"]
    /\ samples = [c \in Clients |-> <<>>]
    /\ net = {}
    /\ srv = "recvfrom"
    /\ buf = {}
    /\ lost = [c \in Clients |-> 0]
    /\ dups = [c \in Clients |-> 0]
    /\ fails = [c \in Clients |-> 0]
    /\ errs = 0
    /\ clock = [c \in Clients |-> 0]
    /\ ticks = [c \in Clients |-> 0]
    /\ back = [c \in Clients |-> 0]
    /\ start = [c \in Clients |-> 0]
    /\ t0 = [c \in Clients |-> 0]
    /\ min = [c \in Clients |-> FarMin]
    /\ max = [c \in Clients |-> 0]
    /\ total = [c \in Clients |-> 0]

-----------------------------------------------------------------------------
(* echocli *)

Probe(c) == Dgram("probe", c, i[c], Payload[c], 0)

Start(c) ==
    /\ at[c] = "start"
    /\ start' = [start EXCEPT ![c] = clock[c]]
    /\ at' = [at EXCEPT ![c] = Enter(0)]
    /\ UNCHANGED <<i, samples, net, server, t0, min, max, total, faults, time>>

\* Mutant: the clock is read before the loop only.
ReadClockOnce(c) ==
    t0' = [t0 EXCEPT ![c] = IF i[c] = 0 THEN clock[c] ELSE @]

ReadClock(c) == t0' = [t0 EXCEPT ![c] = clock[c]]

Sendto(c) ==
    /\ at[c] = "send"
    /\ ReadClock(c)
    /\ at' = [at EXCEPT ![c] = "recv"]
    /\ net' = net \cup {Probe(c)}
    /\ UNCHANGED <<i, samples, server, start, min, max, total, faults, time>>

\* The result of sendto is not looked at.
SendtoFails(c) ==
    /\ at[c] = "send"
    /\ lost[c] < MaxLost[c]
    /\ ReadClock(c)
    /\ at' = [at EXCEPT ![c] = "recv"]
    /\ lost' = [lost EXCEPT ![c] = @ + 1]
    /\ UNCHANGED <<i, samples, net, server, start, min, max, total, dups, fails, time>>

\* The round trip is measured, and the loop goes on.
Measure(c) ==
    /\ min' = [min EXCEPT ![c] = IF clock[c] - t0[c] < @ THEN clock[c] - t0[c] ELSE @]
    /\ max' = [max EXCEPT ![c] = IF clock[c] - t0[c] > @ THEN clock[c] - t0[c] ELSE @]
    /\ i' = [i EXCEPT ![c] = @ + 1]
    /\ at' = [at EXCEPT ![c] = Enter(i[c] + 1)]

\* The blocking recv takes whatever arrives first.
Recv(c) ==
    \E d \in net :
      /\ at[c] = "recv"
      /\ d.kind = "answer" /\ d.peer = c
      /\ net' = net \ {d}
      /\ samples' = [samples EXCEPT ![c] =
                       Append(@, [seq |-> d.seq, len |-> Min(d.len, Payload[c])])]
      /\ Measure(c)
      /\ UNCHANGED <<server, start, t0, total, faults, time>>

\* Its result is not looked at either: a recv that fails counts as a round trip.
\* After a socket() that failed, every sendto and every recv fails.
RecvFails(c) ==
    /\ at[c] = "recv"
    /\ fails[c] < MaxFails[c]
    /\ fails' = [fails EXCEPT ![c] = @ + 1]
    /\ Measure(c)
    /\ UNCHANGED <<samples, net, server, start, t0, total, lost, dups, time>>

Report(c) ==
    /\ at[c] = "report"
    /\ total' = [total EXCEPT ![c] = clock[c] - start[c]]
    /\ at' = [at EXCEPT ![c] = "done"]
    /\ UNCHANGED <<i, samples, net, server, start, t0, min, max, faults, time>>

-----------------------------------------------------------------------------
(* server *)

\* Mutant: an empty datagram is taken for an error.
RecvfromNonEmpty ==
    \E d \in net :
      /\ srv = "recvfrom"
      /\ d.kind = "probe"
      /\ net' = net \ {d}
      /\ buf' = {Dgram("probe", d.peer, d.seq, Min(d.len, BUF_SZ), d.copy)}
      /\ srv' = IF d.len = 0 THEN "recvfrom" ELSE "sendto"
      /\ UNCHANGED <<i, at, samples, measures, faults, errs, time>>

\* recvfrom fills buf and peer, and cuts off what does not fit.
Recvfrom ==
    \E d \in net :
      /\ srv = "recvfrom"
      /\ d.kind = "probe"
      /\ net' = net \ {d}
      /\ buf' = {Dgram("probe", d.peer, d.seq, Min(d.len, BUF_SZ), d.copy)}
      /\ srv' = "sendto"
      /\ UNCHANGED <<i, at, samples, measures, faults, errs, time>>

\* Mutant: no continue after the error.
RecvfromFallsThrough ==
    /\ srv = "recvfrom"
    /\ errs < MaxErrs
    /\ errs' = errs + 1
    /\ srv' = IF buf = {} THEN "recvfrom" ELSE "sendto"
    /\ UNCHANGED <<i, at, samples, net, buf, measures, faults, time>>

RecvfromFails ==
    /\ srv = "recvfrom"
    /\ errs < MaxErrs
    /\ errs' = errs + 1
    /\ UNCHANGED <<i, at, samples, net, srv, buf, measures, faults, time>>

Reply ==
    \E d \in buf :
      /\ srv = "sendto"
      /\ net' = net \cup {Dgram("answer", d.peer, d.seq, d.len, d.copy)}
      /\ srv' = "recvfrom"
      /\ UNCHANGED <<i, at, samples, buf, measures, faults, errs, time>>

-----------------------------------------------------------------------------
(* The network; a datagram the server's sendto fails to send is lost here. *)

Lose ==
    \E d \in net :
      /\ lost[d.peer] < MaxLost[d.peer]
      /\ net' = net \ {d}
      /\ lost' = [lost EXCEPT ![d.peer] = @ + 1]
      /\ UNCHANGED <<i, at, samples, server, measures, dups, fails, time>>

Duplicate ==
    \E d \in net :
      /\ dups[d.peer] < MaxDups[d.peer]
      /\ dups' = [dups EXCEPT ![d.peer] = @ + 1]
      /\ net' = net \cup {Dgram(d.kind, d.peer, d.seq, d.len, dups[d.peer] + 1)}
      /\ UNCHANGED <<i, at, samples, server, measures, lost, fails, time>>

(* The clocks. *)

Tick(c) ==
    /\ ticks[c] < MaxTicks[c]
    /\ ticks' = [ticks EXCEPT ![c] = @ + 1]
    /\ clock' = [clock EXCEPT ![c] = @ + 1]
    /\ UNCHANGED <<i, at, samples, net, server, measures, faults, back>>

SetBack(c) ==
    /\ back[c] < MaxBack[c]
    /\ back' = [back EXCEPT ![c] = @ + 1]
    /\ clock' = [clock EXCEPT ![c] = @ - 1]
    /\ UNCHANGED <<i, at, samples, net, server, measures, faults, ticks>>

Next ==
    \/ \E c \in Clients : Start(c)
    \/ \E c \in Clients : Sendto(c)
    \/ \E c \in Clients : SendtoFails(c)
    \/ \E c \in Clients : Recv(c)
    \/ \E c \in Clients : RecvFails(c)
    \/ \E c \in Clients : Report(c)
    \/ Recvfrom
    \/ RecvfromFails
    \/ Reply
    \/ Lose
    \/ Duplicate
    \/ \E c \in Clients : Tick(c)
    \/ \E c \in Clients : SetBack(c)

\* Every process is scheduled, and a probe that stays in flight is received.
Fairness ==
    /\ \A c \in Clients :
         /\ WF_vars(Start(c) \/ Sendto(c) \/ SendtoFails(c) \/ Report(c))
         /\ WF_vars(Recv(c))
    /\ WF_vars(Recvfrom)
    /\ WF_vars(Reply)

Spec == Init /\ [][Next]_vars /\ Fairness

-----------------------------------------------------------------------------
InFlight(c) == {d \in net : d.peer = c} \cup
               {d \in buf : srv = "sendto" /\ d.peer = c}

\* As long as none of its datagrams was duplicated and no recv failed, the k-th
\* round trip a client measures ends with the answer to its k-th probe, and brings
\* back the whole payload, or the BUF_SZ bytes the server kept: one probe is
\* outstanding at a time, and the server's buf and peer serve all clients without
\* mixing them.
SamplesAreEchoes ==
    \A c \in Clients : (dups[c] = 0 /\ fails[c] = 0) =>
      \A k \in 1..Len(samples[c]) :
        samples[c][k] = [seq |-> k - 1, len |-> Min(Payload[c], BUF_SZ)]

\* Every probe sent is answered, on its way, duplicated or lost: what a client
\* has in flight is what it is waiting for, plus duplicates and what a failed recv
\* did not wait for, minus losses.
Conservation ==
    \A c \in Clients :
      Cardinality(InFlight(c)) + lost[c]
        = dups[c] + fails[c] + IF at[c] = "recv" THEN 1 ELSE 0

\* Round trips do not overlap, so what a client prints agrees with itself: the
\* minimum is not above the average, the maximum not above the total, none is
\* negative.  A clock set back in between spoils this by no more than it was set
\* back.
MeasuresAgree ==
    \A c \in Clients : (at[c] = "done" /\ Count > 0) =>
      /\ -back[c] <= min[c] /\ min[c] <= max[c]
      /\ min[c] * Count <= total[c] + back[c]
      /\ max[c] <= total[c] + back[c]

\* A client finishes its count unless a datagram of its own is lost: no other
\* client, failed recv or recvfrom, empty or oversized payload can keep it from it.
Completes == \A c \in Clients : <>(at[c] = "done" \/ lost[c] > 0)
=============================================================================
