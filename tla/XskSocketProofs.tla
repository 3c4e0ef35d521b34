-------------------------- MODULE XskSocketProofs ---------------------------
(***************************************************************************)
(* For any number of sockets, umems, queues and processes, and any number  *)
(* of failures: the count of users that xsk.c keeps with a program is      *)
(* exact, and a program is attached exactly while it has users; the counts *)
(* on umems and contexts are exact, each queue has the rings and the umem  *)
(* its sockets use, and an open socket is in the xsks_map of a program     *)
(* that is attached.                                                       *)
(***************************************************************************)
EXTENDS XskSocket, FiniteSetTheorems, TLAPS

Running == {"lookup", "incr", "incr2", "attach", "map"}
Deleting == {"decr", "decr2", "detach", "close"}
Labels == {"closed", "open"} \cup Running \cup Deleting

\* The types of all but umem and ctx, whose counts need an argument.
Types ==
    /\ bound \in [Fds -> Queues \cup {None}]
    /\ pc \in [Callers -> Labels]
    /\ own \in [Sockets -> BOOLEAN]
    /\ xdp_prog \in [Callers -> Progs \cup {None}]
    /\ new \in [Callers -> BOOLEAN]
    /\ value \in [Callers -> Nat]
    /\ map \in [Callers -> Progs \cup {None}]
    /\ lock \in Callers \cup {None}
    /\ attached \subseteq Progs
    /\ refcnt \in [Progs -> Nat]
    /\ xsks_map \in [Progs -> [Queues -> Fds \cup {None}]]
    /\ faults \in Nat
    /\ lost \in [Progs -> Nat] /\ torn \subseteq Progs
    /\ unpaired \subseteq Umems /\ contended \subseteq Umems

\* What a caller has at each pc.
Holds(p) ==
    /\ pc[p] \in {"closed", "lookup", "attach"} => xdp_prog[p] = None
    /\ pc[p] \in {"incr", "incr2", "map"} \cup Deleting => xdp_prog[p] # None
    /\ p \in Controls => pc[p] \notin Deleting /\ (pc[p] = "open" => xdp_prog[p] = None)
    /\ p \in Sockets /\ map[p] # None => pc[p] \in {"open"} \cup Deleting
    /\ p \in Sockets /\ p \in Inhibit => pc[p] \in {"closed", "open"} \cup Deleting
    /\ p \in Sockets /\ pc[p] \in {"open"} \cup Deleting /\ xdp_prog[p] # None =>
         map[p] # None

TypeInv == Types /\ \A p \in Callers : Holds(p)

\* The lock guards what is read and written of a count.
Locks(p) ==
    /\ pc[p] \in {"incr2", "decr2"} <=> lock = p
    /\ lock = p => value[p] = refcnt[xdp_prog[p]]

LockInv == \A p \in Callers : Locks(p)

Users(g) == {p \in Callers : Counted(p, g)}
Counts(g) == refcnt[g] = Cardinality(Users(g)) + lost[g]
CountInv == \A g \in Progs : g \notin torn => Counts(g)

\* A program without a count is going or gone, one with a count is there; the
\* programs of control processes stay.
Gone(g) == g \notin attached \cup torn => refcnt[g] = 0
Going(p) == pc[p] = "detach" => refcnt[xdp_prog[p]] = 0
Stays(p) == p \in Controls /\ map[p] # None => lost[map[p]] > 0
Leaver(g) == \E p \in Callers : pc[p] = "detach" /\ xdp_prog[p] = g
Clean == faults = 0 => torn = {} /\ \A g \in attached : refcnt[g] = 0 => Leaver(g)

AttachInv ==
    /\ \A g \in Progs : Gone(g)
    /\ \A p \in Callers : Going(p) /\ Stays(p)
    /\ Clean

-----------------------------------------------------------------------------
(* Types *)

\* Types hold before any socket is created.
LEMMA InitTypeInv == Init => TypeInv
BY NamesAssumption DEF Init, TypeInv, Types, Holds, Callers, Fds, Labels, Running, Deleting

\* The death of a process keeps them.
LEMMA CrashTypes ==
  ASSUME Types, NEW u \in Umems, Crash(u)
  PROVE  Types'
<1>1. lost' \in [Progs -> Nat]
  <2> SUFFICES ASSUME NEW g \in Progs
               PROVE  lost[g] + Cardinality({s \in SocketsOf(u) : Counted(s, g)}) \in Nat
    BY Zenon DEF Crash
  <2>1. IsFiniteSet({s \in SocketsOf(u) : Counted(s, g)})
    BY NamesAssumption, FS_Subset, Zenon DEF SocketsOf
  <2>2. Cardinality({s \in SocketsOf(u) : Counted(s, g)}) \in Nat
    BY <2>1, FS_CardinalityType, Zenon
  <2> QED BY <2>2 DEF Types
<1>2. /\ lock' \in Callers \cup {None}
      /\ attached' \subseteq Progs /\ torn' \subseteq Progs
      /\ unpaired' \subseteq Umems /\ contended' \subseteq Umems
      /\ refcnt' \in [Progs -> Nat] /\ faults' \in Nat
  BY DEF Types, Crash, Fault
<1>3. /\ bound' \in [Fds -> Queues \cup {None}]
      /\ pc' \in [Callers -> Labels]
      /\ own' \in [Sockets -> BOOLEAN]
      /\ xdp_prog' \in [Callers -> Progs \cup {None}]
      /\ new' \in [Callers -> BOOLEAN]
      /\ map' \in [Callers -> Progs \cup {None}]
      /\ value' \in [Callers -> Nat]
  BY Zenon DEF Types, Crash, Release, Labels
<1>4. xsks_map' \in [Progs -> [Queues -> Fds \cup {None}]]
  BY Zenon DEF Types, Crash, Forget
<1> QED BY <1>1, <1>2, <1>3, <1>4, Zenon DEF Types

\* An entry of one program's map changes.
LEMMA PutEntry ==
  ASSUME NEW V, NEW m \in [Progs -> [Queues -> V]], NEW g \in Progs, NEW q \in Queues,
         NEW f \in V
  PROVE  /\ [m EXCEPT ![g][q] = f] \in [Progs -> [Queues -> V]]
         /\ \A h \in Progs : \A r \in Queues :
              [m EXCEPT ![g][q] = f][h][r] = IF h = g /\ r = q THEN f ELSE m[h][r]
BY Zenon

\* So does every other step.
LEMMA NextTypes ==
  ASSUME TypeInv, [Next]_vars
  PROVE  Types'
<1> USE DEF Types, Callers, Fds
<1>1. CASE UNCHANGED vars
  BY <1>1, Zenon DEF TypeInv, vars, procvars, callvars, progvars
<1>2. ASSUME NEW u \in Umems, xsk_umem__create(u) PROVE Types'
  BY <1>2, Zenon DEF TypeInv, xsk_umem__create, callvars, progvars
<1>3. ASSUME NEW u \in Umems, xsk_umem__delete(u) PROVE Types'
  BY <1>3, Zenon DEF TypeInv, xsk_umem__delete, Forget, Release, callvars
<1>4. ASSUME NEW u \in Umems, Crash(u) PROVE Types'
  BY <1>4, CrashTypes, Zenon DEF TypeInv
<1>5. ASSUME NEW s \in Sockets, Create(s) PROVE Types'
  <2>1. Queue[s] \in Queues /\ Umem[s] \in Umems
    BY NamesAssumption, Zenon
  <2> QED BY <1>5, <2>1 DEF TypeInv, Create, callvars, progvars, Goto, Labels, Running
<1>6. ASSUME NEW s \in Sockets, CreateFails(s) PROVE Types'
  <2>1. Umem[s] \in Umems
    BY NamesAssumption, Zenon
  <2> QED BY <1>6, <2>1 DEF TypeInv, CreateFails, UnmapSaved, Fault, callvars, progvars
<1>7. ASSUME NEW s \in Sockets, SocketFails(s) PROVE Types'
  <2>1. Umem[s] \in Umems
    BY NamesAssumption, Zenon
  <2> QED BY <1>7, <2>1 DEF TypeInv, SocketFails, Fault, callvars, progvars
<1>8. ASSUME NEW s \in Sockets, NEW c \in Controls, xsk_socket__update_xskmap(s, c)
      PROVE  Types'
  <2>1. Queue[s] \in Queues /\ Umem[s] \in Umems /\ Fd(s) \in Fds
    BY NamesAssumption, Zenon DEF Fd
  <2> QED BY <1>8, <2>1, Zenon DEF TypeInv, xsk_socket__update_xskmap, procvars
<1>9. ASSUME NEW p \in Callers, Setup(p) PROVE Types'
  <2>1. CASE Lookup(p)
    BY <2>1, Zenon DEF TypeInv, Lookup, Goto, procvars, progvars, Labels, Running
  <2>2. CASE ReadRefcnt(p, "incr", "incr2")
    <3> USE <2>2
    <3>1. xdp_prog[p] \in Progs
      BY Zenon DEF TypeInv, Holds, ReadRefcnt
    <3> QED BY <3>1, Zenon DEF TypeInv, ReadRefcnt, Goto, procvars, progvars, Labels, Running
  <2>3. CASE IncrRefcnt(p)
    <3>1. Update(value[p], 1) \in Nat
      BY DEF TypeInv, Update
    <3> QED BY <2>3, <3>1, Zenon DEF TypeInv, IncrRefcnt, Goto, procvars, Labels, Running
  <2>4. CASE Attach(p)
    <3> USE <2>4
    <3>1. PICK g \in Progs : Fresh(g) /\ AttachCopy(p, g)
      BY Zenon DEF Attach
    <3> QED BY <3>1, Zenon DEF TypeInv, Attach, AttachCopy, Goto, procvars, Labels, Running
  <2>5. CASE UpdateMap(p)
    <3> USE <2>5
    <3>1. xdp_prog[p] \in Progs
      BY Zenon DEF TypeInv, Holds, UpdateMap
    <3> USE <3>1
    <3>2. p \in Sockets => Queue[p] \in Queues /\ Fd(p) \in Fds
      BY NamesAssumption, Zenon DEF Fd
    <3>3. xsks_map' \in [Progs -> [Queues -> Fds \cup {None}]]
      <4>1. CASE p \in Sockets
        <5> USE <4>1
        <5>1. xsks_map' = [xsks_map EXCEPT ![xdp_prog[p]][Queue[p]] = Fd(p)]
          BY Zenon DEF UpdateMap
        <5> QED BY <3>2, <5>1, PutEntry, Zenon DEF TypeInv
      <4>2. CASE p \notin Sockets
        BY <4>2, Zenon DEF TypeInv, UpdateMap
      <4> QED BY <4>1, <4>2, Zenon
    <3>4. lost' \in [Progs -> Nat] /\ xdp_prog' \in [Callers -> Progs \cup {None}]
      BY DEF TypeInv, UpdateMap
    <3>5. /\ map' \in [Callers -> Progs \cup {None}] /\ new' \in [Callers -> BOOLEAN]
          /\ pc' \in [Callers -> Labels]
      BY Zenon DEF TypeInv, UpdateMap, Goto, Labels
    <3>6. UNCHANGED <<own, unpaired, contended, value, attached, refcnt, torn, bound, lock,
                      faults>>
      BY Zenon DEF UpdateMap
    <3> QED BY <3>3, <3>4, <3>5, <3>6, Zenon DEF TypeInv
  <2>6. CASE LookupMisses(p)
    BY <2>6 DEF TypeInv, LookupMisses, Fault, Goto, procvars, callvars, progvars, Labels, Running
  <2>7. ASSUME SetupFails(p)
        PROVE  /\ bound' \in [Fds -> Queues \cup {None}]
               /\ pc' \in [Callers -> Labels]
               /\ own' \in [Sockets -> BOOLEAN]
               /\ xdp_prog' \in [Callers -> Progs \cup {None}]
               /\ new' \in [Callers -> BOOLEAN]
               /\ value' \in [Callers -> Nat]
               /\ map' \in [Callers -> Progs \cup {None}]
               /\ unpaired' \subseteq Umems /\ contended' \subseteq Umems
    <3>1. p \in Sockets => Umem[p] \in Umems
      BY NamesAssumption, Zenon
    <3> QED BY <2>7, <3>1, Zenon DEF TypeInv, SetupFails, Abandon, Release, procvars, Goto, Labels
  <2>8. CASE GivesUp(p)
    <3> USE <2>8
    <3>1. /\ lock' \in Callers \cup {None}
          /\ attached' \subseteq Progs /\ torn' \subseteq Progs
          /\ refcnt' \in [Progs -> Nat] /\ faults' \in Nat /\ lost' \in [Progs -> Nat]
          /\ xsks_map' \in [Progs -> [Queues -> Fds \cup {None}]]
      BY DEF TypeInv, GivesUp, Fault, progvars
    <3> QED BY <2>7, <3>1, Zenon DEF GivesUp
  <2>9. CASE FailsCounted(p)
    <3> USE <2>9
    <3>1. xdp_prog[p] \in Progs
      BY Zenon DEF TypeInv, Holds, FailsCounted
    <3>2. /\ lock' \in Callers \cup {None}
          /\ attached' \subseteq Progs /\ torn' \subseteq Progs
          /\ refcnt' \in [Progs -> Nat] /\ faults' \in Nat /\ lost' \in [Progs -> Nat]
          /\ xsks_map' \in [Progs -> [Queues -> Fds \cup {None}]]
      BY <3>1 DEF TypeInv, FailsCounted, Fault
    <3> QED BY <2>7, <3>2, Zenon DEF FailsCounted
  <2> QED BY <1>9, <2>1, <2>2, <2>3, <2>4, <2>5, <2>6, <2>8, <2>9, Zenon DEF Setup
<1>10. ASSUME NEW s \in Sockets, Delete(s) PROVE Types'
  <2>0. Queue[s] \in Queues /\ Umem[s] \in Umems
    BY NamesAssumption, Zenon
  <2>1. CASE xsk_delete_map_entry(s)
    BY <2>0, <2>1, Zenon DEF TypeInv, xsk_delete_map_entry, Goto, procvars, callvars, Labels, Deleting
  <2>2. CASE ReadRefcnt(s, "decr", "decr2")
    <3> USE <2>2
    <3>1. xdp_prog[s] \in Progs
      BY Zenon DEF TypeInv, Holds, ReadRefcnt, Deleting
    <3> QED BY <3>1, Zenon DEF TypeInv, ReadRefcnt, Goto, procvars, progvars, Labels, Deleting
  <2>3. CASE DecrRefcnt(s)
    <3>1. Update(value[s], -1) \in Nat
      BY DEF TypeInv, Update
    <3> QED BY <2>3, <3>1, Zenon DEF TypeInv, DecrRefcnt, Goto, procvars, Labels, Deleting
  <2>4. CASE DecrFails(s)
    <3> USE <2>4
    <3>1. xdp_prog[s] \in Progs
      BY Zenon DEF TypeInv, Holds, DecrFails, Deleting
    <3> QED BY <3>1
        DEF TypeInv, DecrFails, Fault, Goto, procvars, callvars, progvars, Labels, Deleting
  <2>5. CASE Detach(s)
    BY <2>5 DEF TypeInv, Detach, Fault, Goto, procvars, callvars, Labels, Deleting
  <2>6. CASE Close(s)
    BY <2>0, <2>6, Zenon DEF TypeInv, Close, Forget, Release, Goto, Labels
  <2>7. CASE Overwritten(s)
    <3> USE <2>7
    <3>1. PICK g \in Progs \cup {None}, m \in Progs \cup {None} :
            /\ xdp_prog' = [xdp_prog EXCEPT ![s] = g] /\ map' = [map EXCEPT ![s] = m]
            /\ lost' = [h \in Progs |->
                         IF h = xdp_prog[s] /\ h # g THEN lost[h] + 1 ELSE lost[h]]
            /\ torn' = torn \cup ({g} \ {None, xdp_prog[s]})
      BY Zenon DEF Overwritten
    <3>2. lost' \in [Progs -> Nat] /\ torn' \subseteq Progs /\ faults' \in Nat
      BY <3>1 DEF TypeInv, Overwritten, Fault
    <3>3. /\ xdp_prog' \in [Callers -> Progs \cup {None}]
          /\ map' \in [Callers -> Progs \cup {None}]
      BY <3>1, Zenon DEF TypeInv
    <3> QED BY <3>2, <3>3, Zenon DEF TypeInv, Overwritten, procvars
  <2> QED BY <1>10, <2>1, <2>2, <2>3, <2>4, <2>5, <2>6, <2>7, Zenon DEF Delete
<1> QED BY <1>1, <1>2, <1>3, <1>4, <1>5, <1>6, <1>7, <1>8, <1>9, <1>10, Zenon DEF Next, Step

\* What a caller holds does not change if its own variables do not.
LEMMA HoldsOn ==
  ASSUME NEW x, Holds(x),
         pc'[x] = pc[x], xdp_prog'[x] = xdp_prog[x], map'[x] = map[x]
  PROVE  Holds(x)'
BY Zenon DEF Holds

\* Attaching a program moves its caller on and leaves the others alone.
LEMMA AttachLocal ==
  ASSUME Types, NEW p \in Callers, Attach(p)
  PROVE  /\ pc[p] = "attach" /\ pc'[p] = "map" /\ xdp_prog'[p] \in Progs /\ map' = map
         /\ \A x \in Callers : x # p => pc'[x] = pc[x] /\ xdp_prog'[x] = xdp_prog[x]
<1>1. PICK g \in Progs : AttachCopy(p, g)
  BY Zenon DEF Attach
<1>2. xdp_prog' = [xdp_prog EXCEPT ![p] = g]
  BY <1>1, Zenon DEF AttachCopy
<1>3. pc[p] = "attach" /\ pc' = [pc EXCEPT ![p] = "map"] /\ map' = map
  BY Zenon DEF Attach, Goto
<1> QED BY <1>2, <1>3, Zenon DEF Types

\* Every step keeps a caller's program and map what its place in the call says.
LEMMA NextHolds ==
  ASSUME TypeInv, [Next]_vars, NEW x \in Callers
  PROVE  Holds(x)'
<1>0. /\ Types /\ Holds(x)
      /\ Sockets \cap Controls = {} /\ None \notin Progs
  BY NamesAssumption, Zenon DEF TypeInv
<1> USE <1>0
<1>1. CASE UNCHANGED <<pc, xdp_prog, map>>
  BY <1>1, HoldsOn, Zenon
<1>2. ASSUME NEW u \in Umems, Crash(u) PROVE Holds(x)'
  <2> USE <1>2
  <2>1. CASE x \in SocketsOf(u)
    <3> USE <2>1
    <3>1. pc'[x] = "closed" /\ xdp_prog'[x] = None /\ map'[x] = None
      BY Zenon DEF Crash
    <3> QED BY <3>1, Zenon DEF Holds, SocketsOf, Deleting
  <2>2. CASE x \notin SocketsOf(u)
    <3>1. pc'[x] = pc[x] /\ xdp_prog'[x] = xdp_prog[x] /\ map'[x] = map[x]
      BY <2>2, Zenon DEF Crash
    <3> QED BY <3>1, HoldsOn, Zenon
  <2> QED BY <2>1, <2>2, Zenon
<1>3. ASSUME NEW s \in Sockets, Create(s) PROVE Holds(x)'
  <2> USE <1>3
  <2>1. CASE x # s
    BY <2>1, HoldsOn, Zenon DEF Create, Goto, callvars, Types
  <2>2. CASE x = s
    BY <2>2, ZenonT(40) DEF Create, CanCreate, Goto, callvars, Types, Holds, Deleting
  <2> QED BY <2>1, <2>2, Zenon
<1>4. ASSUME NEW s \in Sockets, NEW c \in Controls, xsk_socket__update_xskmap(s, c)
      PROVE  Holds(x)'
  BY <1>4, ZenonT(40) DEF xsk_socket__update_xskmap, Types, Holds, Deleting
<1>5. ASSUME NEW p \in Callers, Setup(p) PROVE Holds(x)'
  <2> USE <1>5
  <2>0. CASE x # p
    <3> USE <2>0
    <3>1. ASSUME SetupFails(p) PROVE Holds(x)'
      BY <3>1, HoldsOn, Zenon DEF SetupFails, Goto, Types
    <3>2. ASSUME ~ SetupFails(p)
          PROVE  pc'[x] = pc[x] /\ xdp_prog'[x] = xdp_prog[x] /\ map'[x] = map[x]
      BY <3>2, AttachLocal, ZenonT(40)
         DEF Setup, Lookup, ReadRefcnt, IncrRefcnt, UpdateMap, LookupMisses, GivesUp,
             FailsCounted, Goto, callvars, Types
    <3> QED BY <3>1, <3>2, HoldsOn, Zenon
  <2> SUFFICES ASSUME x = p PROVE Holds(x)'
    BY <2>0, Zenon
  <2>1. CASE Lookup(p)
    BY <2>1, ZenonT(40) DEF Lookup, Goto, Types, Holds, Deleting
  <2>2. CASE ReadRefcnt(p, "incr", "incr2")
    BY <2>2, ZenonT(40) DEF ReadRefcnt, Goto, Types, Holds, Deleting
  <2>3. CASE IncrRefcnt(p)
    BY <2>3, ZenonT(40) DEF IncrRefcnt, Goto, Types, Holds, Deleting
  <2>4. CASE Attach(p)
    <3>1. pc[p] = "attach" /\ pc'[p] = "map" /\ xdp_prog'[p] \in Progs /\ map' = map
      BY <2>4, AttachLocal, Zenon
    <3> QED BY <3>1, Zenon DEF Holds, Deleting
  <2>5. CASE UpdateMap(p)
    BY <2>5, Zenon DEF UpdateMap, Goto, Types, Holds, Deleting, Callers
  <2>6. CASE LookupMisses(p)
    BY <2>6, Zenon DEF LookupMisses, Goto, callvars, Types, Holds, Deleting
  <2>7. CASE GivesUp(p) \/ FailsCounted(p)
    <3>1. pc[p] \in Running /\ SetupFails(p)
      BY <2>7, Zenon DEF GivesUp, FailsCounted, Running
    <3> QED BY <3>1, Zenon DEF SetupFails, Goto, Types, Holds, Deleting, Running
  <2> QED BY <2>1, <2>2, <2>3, <2>4, <2>5, <2>6, <2>7, ZenonT(40) DEF Setup
<1>6. ASSUME NEW s \in Sockets, Delete(s) PROVE Holds(x)'
  <2> USE <1>6
  <2>1. CASE x # s
    BY Zenon, <2>1, HoldsOn
    DEF Delete, Overwritten, xsk_delete_map_entry, ReadRefcnt, DecrRefcnt, DecrFails, Detach, Close, Goto,
        callvars, Types
  <2>2. CASE x = s /\ Overwritten(s)
    <3>1. PICK g \in Progs \cup {None}, m \in Progs \cup {None} :
            /\ g # None => m # None
            /\ xdp_prog' = [xdp_prog EXCEPT ![s] = g] /\ map' = [map EXCEPT ![s] = m]
      BY <2>2, Zenon DEF Overwritten
    <3>2. pc[s] = "open" /\ pc' = pc
      BY <2>2, Zenon DEF Overwritten
    <3> QED BY <2>2, <3>1, <3>2, Zenon DEF Types, Holds, Deleting, Callers
  <2>3. CASE x = s /\ ~ Overwritten(s)
    BY ZenonT(60), <2>3
    DEF Delete, xsk_delete_map_entry, ReadRefcnt, DecrRefcnt, DecrFails, Detach, Close, Goto,
        callvars, Types, Holds, Deleting, Callers
  <2> QED BY <2>1, <2>2, <2>3, Zenon
<1> QED
  BY Zenon, <1>1, <1>2, <1>3, <1>4, <1>5, <1>6
  DEF Next, Step, vars, callvars, xsk_umem__create, xsk_umem__delete, CreateFails, SocketFails

\* Types and what callers hold are preserved together.
LEMMA NextTypeInv ==
  ASSUME TypeInv, [Next]_vars
  PROVE  TypeInv'
<1>1. \A x \in Callers : Holds(x)'
  BY NextHolds, Zenon
<1> QED BY <1>1, NextTypes, Zenon DEF TypeInv

-----------------------------------------------------------------------------
(* The lock and the counts *)

\* At first all counts are 0 and nobody holds the lock.
LEMMA InitCounts == Init => LockInv /\ CountInv
<1> SUFFICES ASSUME Init PROVE LockInv /\ CountInv
  BY Zenon
<1>1. LockInv
  BY NamesAssumption, Zenon DEF Init, LockInv, Locks, Callers
<1>2. ASSUME NEW g \in Progs PROVE Counts(g)
  <2>1. Users(g) = {}
    BY NamesAssumption, Zenon DEF Init, Users, Counted, Callers
  <2> QED BY <2>1, FS_EmptySet DEF Init, Counts
<1> QED BY <1>1, <1>2, Zenon DEF CountInv

\* A caller that is left alone keeps the lock and the count it has read.
LEMMA LocksOn ==
  ASSUME NEW x, Locks(x), pc'[x] = pc[x], xdp_prog'[x] = xdp_prog[x], value'[x] = value[x],
         lock' = lock, refcnt'[xdp_prog[x]] = refcnt[xdp_prog[x]]
  PROVE  Locks(x)'
BY Zenon DEF Locks

\* Between reading and writing a count nobody else changes it.
LEMMA NextLock ==
  ASSUME TypeInv, LockInv, [Next]_vars, NEW x \in Callers
  PROVE  Locks(x)'
<1>0. /\ Types /\ Locks(x) /\ Holds(x)
      /\ None \notin Progs /\ None \notin Callers
  BY NamesAssumption, Zenon DEF TypeInv, LockInv, Callers
<1> USE <1>0
<1>1. CASE UNCHANGED <<pc, xdp_prog, value, lock, refcnt>>
  BY <1>1, LocksOn, Zenon
<1>2. ASSUME NEW u \in Umems, Crash(u) PROVE Locks(x)'
  <2> USE <1>2
  <2>1. CASE x \in SocketsOf(u)
    <3>1. pc'[x] = "closed" /\ lock' # x
      BY <2>1, Zenon DEF Crash
    <3> QED BY <3>1, Zenon DEF Locks
  <2>2. CASE x \notin SocketsOf(u)
    <3> USE <2>2
    <3>1. /\ pc'[x] = pc[x] /\ xdp_prog'[x] = xdp_prog[x] /\ value'[x] = value[x]
          /\ refcnt' = refcnt
      BY Zenon DEF Crash
    <3>2. lock' = x <=> lock = x
      BY Zenon DEF Crash
    <3> QED BY <3>1, <3>2, Zenon DEF Locks
  <2> QED BY <2>1, <2>2, Zenon
<1>3. ASSUME NEW s \in Sockets, Create(s) PROVE Locks(x)'
  BY <1>3, ZenonT(60) DEF Create, CanCreate, Goto, callvars, progvars, Types, Locks
<1>5. ASSUME NEW p \in Callers, Setup(p) PROVE Locks(x)'
  <2>1. CASE Lookup(p)
    BY <2>1, Zenon DEF Lookup, Goto, Types, Locks, progvars
  <2>2. CASE ReadRefcnt(p, "incr", "incr2")
    BY <2>2, Zenon DEF ReadRefcnt, LockFree, Goto, Types, Locks, progvars
  <2>3. CASE IncrRefcnt(p)
    <3> USE <2>3
    <3>1. lock = p
      BY Zenon DEF IncrRefcnt, LockInv, Locks
    <3> QED BY <3>1, Zenon DEF IncrRefcnt, Goto, Types, Locks
  <2>4. CASE Attach(p)
    <3> USE <2>4
    <3>1. PICK g \in Progs : Fresh(g) /\ AttachCopy(p, g)
      BY Zenon DEF Attach
    <3>2. xdp_prog[x] # g
      BY <3>1, Zenon DEF Fresh
    <3>3. refcnt' = [refcnt EXCEPT ![g] = 1] /\ xdp_prog' = [xdp_prog EXCEPT ![p] = g]
      BY <3>1, Zenon DEF Attach, AttachCopy
    <3>4. pc[p] = "attach" /\ pc' = [pc EXCEPT ![p] = "map"] /\ UNCHANGED <<value, lock>>
      BY Zenon DEF Attach, Goto
    <3> QED BY <3>2, <3>3, <3>4 DEF Types, Locks
  <2>5. CASE UpdateMap(p)
    BY <2>5, Zenon DEF UpdateMap, Goto, Types, Locks
  <2>6. CASE LookupMisses(p)
    BY <2>6, Zenon DEF LookupMisses, Goto, callvars, progvars, Types, Locks
  <2>7. CASE GivesUp(p) \/ FailsCounted(p)
    <3>1. pc[p] \in Running \ {"incr2"} /\ SetupFails(p) /\ UNCHANGED <<refcnt, lock>>
      BY <2>7, Zenon DEF GivesUp, FailsCounted, Running, progvars
    <3> QED BY <3>1, Zenon DEF SetupFails, Goto, Types, Locks, Running
  <2> QED BY <1>5, <2>1, <2>2, <2>3, <2>4, <2>5, <2>6, <2>7, Zenon DEF Setup
<1>6. ASSUME NEW s \in Sockets, Delete(s) PROVE Locks(x)'
  <2>1. CASE xsk_delete_map_entry(s) \/ DecrFails(s) \/ Detach(s) \/ Close(s)
    BY ZenonT(60), <2>1
    DEF xsk_delete_map_entry, DecrFails, Detach, Close, Goto, callvars, progvars, Types, Locks
  <2>4. CASE Overwritten(s)
    <3>1. PICK g : xdp_prog' = [xdp_prog EXCEPT ![s] = g]
      BY <2>4, Zenon DEF Overwritten
    <3>2. pc[s] = "open" /\ UNCHANGED <<pc, value, lock, refcnt>>
      BY <2>4, Zenon DEF Overwritten
    <3> QED BY <3>1, <3>2, Zenon DEF Types, Locks
  <2>2. CASE ReadRefcnt(s, "decr", "decr2")
    BY <2>2, Zenon DEF ReadRefcnt, LockFree, Goto, Types, Locks, progvars
  <2>3. CASE DecrRefcnt(s)
    <3> USE <2>3
    <3>1. lock = s
      BY Zenon DEF DecrRefcnt, LockInv, Locks, Callers
    <3> QED BY <3>1, Zenon DEF DecrRefcnt, Goto, Types, Locks
  <2> QED BY <1>6, <2>1, <2>2, <2>3, <2>4, ZenonT(40) DEF Delete
<1> QED
  BY Zenon, <1>1, <1>2, <1>3, <1>5, <1>6
  DEF Next, Step, vars, callvars, progvars, xsk_umem__create, xsk_umem__delete, CreateFails,
      SocketFails, xsk_socket__update_xskmap

\* There are finitely many callers.
LEMMA UsersFinite ==
  ASSUME NEW g
  PROVE  IsFiniteSet(Users(g)) /\ Cardinality(Users(g)) \in Nat
<1>1. IsFiniteSet(Callers)
  BY NamesAssumption, FS_Union, Zenon DEF Callers
<1>2. IsFiniteSet(Users(g))
  BY <1>1, FS_Subset, Zenon DEF Users
<1> QED BY <1>2, FS_CardinalityType, Zenon

\* A count that does not change stays exact if its users stay.
LEMMA CountSame ==
  ASSUME NEW g, Counts(g), refcnt'[g] = refcnt[g], lost'[g] = lost[g],
         \A x \in Callers : Counted(x, g)' <=> Counted(x, g)
  PROVE  Counts(g)'
<1>1. Users(g)' = Users(g)
  BY Zenon DEF Users
<1> QED BY <1>1, Zenon DEF Counts

\* One more user and one more in the count.
LEMMA CountJoins ==
  ASSUME Types, NEW g \in Progs, Counts(g), refcnt'[g] = refcnt[g] + 1, lost'[g] = lost[g],
         NEW p \in Callers, ~ Counted(p, g), Counted(p, g)',
         \A x \in Callers \ {p} : Counted(x, g)' <=> Counted(x, g)
  PROVE  Counts(g)'
<1>1. Users(g)' = Users(g) \cup {p} /\ p \notin Users(g)
  BY Zenon DEF Users
<1>2. Cardinality(Users(g)') = Cardinality(Users(g)) + 1
  BY <1>1, UsersFinite, FS_AddElement, Zenon
<1>3. Cardinality(Users(g)) \in Nat /\ lost[g] \in Nat
  BY UsersFinite, Zenon DEF Types
<1> QED BY <1>2, <1>3 DEF Counts

\* One user less, and one less in the count or one more lost.
LEMMA CountLeaves ==
  ASSUME Types, NEW g \in Progs, Counts(g),
         \/ refcnt'[g] = refcnt[g] - 1 /\ lost'[g] = lost[g]
         \/ refcnt'[g] = refcnt[g] /\ lost'[g] = lost[g] + 1,
         NEW p \in Callers, Counted(p, g), ~ Counted(p, g)',
         \A x \in Callers \ {p} : Counted(x, g)' <=> Counted(x, g)
  PROVE  Counts(g)'
<1>1. Users(g)' = Users(g) \ {p} /\ p \in Users(g)
  BY Zenon DEF Users
<1>2. Cardinality(Users(g)') = Cardinality(Users(g)) - 1
  BY <1>1, UsersFinite, FS_RemoveElement, ZenonT(40)
<1>3. Cardinality(Users(g)) \in Nat /\ lost[g] \in Nat
  BY UsersFinite, Zenon DEF Types
<1> QED BY <1>2, <1>3 DEF Counts

\* Whoever is counted on a program knows that its count is not 0.
LEMMA CountedIsUsed ==
  ASSUME Types, NEW g \in Progs, Counts(g), NEW p \in Callers, Counted(p, g)
  PROVE  refcnt[g] > 0
<1>1. p \in Users(g)
  BY Zenon DEF Users
<1>2. Cardinality(Users(g)) # 0
  BY <1>1, UsersFinite, FS_EmptySet, Zenon
<1>3. Cardinality(Users(g)) \in Nat /\ lost[g] \in Nat
  BY UsersFinite, Zenon DEF Types
<1> QED BY <1>2, <1>3 DEF Counts

\* The users that die with a process are lost to the count.
LEMMA CrashCounts ==
  ASSUME Types, NEW g \in Progs, Counts(g), NEW u \in Umems, Crash(u)
  PROVE  Counts(g)'
<1> DEFINE D == {s \in SocketsOf(u) : Counted(s, g)}
<1>1. Users(g)' = Users(g) \ D
  <2>1. ASSUME NEW x \in SocketsOf(u) PROVE ~ Counted(x, g)'
    <3>1. pc'[x] = "closed"
      BY <2>1, Zenon DEF Crash, SocketsOf, Callers
    <3> QED BY <3>1, Zenon DEF Counted
  <2>2. ASSUME NEW x \in Callers \ SocketsOf(u) PROVE Counted(x, g)' <=> Counted(x, g)
    <3>1. pc'[x] = pc[x] /\ xdp_prog'[x] = xdp_prog[x]
      BY <2>2, Zenon DEF Crash
    <3> QED BY <3>1, Zenon DEF Counted
  <2> QED BY <2>1, <2>2, Zenon DEF Users
<1>2. D \subseteq Users(g)
  BY Zenon DEF Users, SocketsOf, Callers
<1>3. IsFiniteSet(D) /\ Cardinality(D) \in Nat
  BY <1>2, UsersFinite, FS_Subset, FS_CardinalityType, Zenon
<1>4. Users(g) \cap D = D
  BY <1>2, Zenon
<1>5. Cardinality(Users(g) \ D) = Cardinality(Users(g)) - Cardinality(D)
  BY <1>3, <1>4, UsersFinite, FS_Difference, ZenonT(40)
<1>6. lost'[g] = lost[g] + Cardinality(D) /\ refcnt'[g] = refcnt[g]
  BY Zenon DEF Crash
<1>7. Cardinality(Users(g)) \in Nat /\ lost[g] \in Nat
  BY UsersFinite, Zenon DEF Types
<1>8. Cardinality(Users(g)') = Cardinality(Users(g)) - Cardinality(D)
  BY <1>1, <1>5, Zenon
<1> HIDE DEF D
<1> QED BY <1>3, <1>6, <1>7, <1>8 DEF Counts

\* A program is free of what was torn when it is loaded anew.
LEMMA FreshCounts ==
  ASSUME TypeInv, [Next]_vars, NEW g \in Progs, g \in torn, g \notin torn'
  PROVE  Counts(g)'
<1>0. Types
  BY Zenon DEF TypeInv
<1>1. \E p \in Callers : Attach(p)
  BY ZenonT(60)
  DEF Next, Step, Setup, Delete, vars, progvars, xsk_umem__create, xsk_umem__delete, Crash,
      Create, CreateFails, SocketFails, xsk_socket__update_xskmap, Lookup, ReadRefcnt,
      IncrRefcnt, UpdateMap, LookupMisses, GivesUp, FailsCounted, Overwritten,
      xsk_delete_map_entry, DecrRefcnt, DecrFails, Detach, Close, Callers
<1>2. PICK p \in Callers : Attach(p)
  BY <1>1, Zenon
<1>3. PICK h \in Progs : Fresh(h) /\ AttachCopy(p, h)
  BY <1>2, Zenon DEF Attach
<1>4. /\ refcnt' = [refcnt EXCEPT ![h] = 1] /\ xdp_prog' = [xdp_prog EXCEPT ![p] = h]
      /\ lost' = [lost EXCEPT ![h] = 0] /\ torn' = torn \ {h}
  BY <1>2, <1>3, Zenon DEF Attach, AttachCopy
<1>5. pc' = [pc EXCEPT ![p] = "map"] /\ g = h
  BY <1>2, <1>4, Zenon DEF Attach, AttachCopy, Goto
<1>6. \A x \in Callers : xdp_prog[x] # g
  BY <1>3, <1>5, Zenon DEF Fresh
<1>7. Users(g)' = {p}
  BY <1>0, <1>4, <1>5, <1>6 DEF Users, Counted, Types
<1>8. refcnt'[g] = 1 /\ lost'[g] = 0
  BY <1>0, <1>4, <1>5, Zenon DEF Types
<1>9. Cardinality(Users(g)') = 1
  BY <1>7, FS_Singleton, Zenon
<1>10. 1 = 1 + 0
  OBVIOUS
<1> QED BY <1>8, <1>9, <1>10, Zenon DEF Counts

\* Every step keeps each count exact.
LEMMA NextCounts ==
  ASSUME TypeInv, LockInv, CountInv, [Next]_vars, NEW g \in Progs, g \notin torn, g \notin torn'
  PROVE  Counts(g)'
<1>0. Types /\ Counts(g) /\ None \notin Progs /\ Sockets \cap Controls = {}
  BY NamesAssumption, Zenon DEF TypeInv, CountInv
<1> USE <1>0
<1>1. CASE UNCHANGED <<pc, xdp_prog, refcnt, lost>>
  BY <1>1, CountSame, Zenon DEF Counted
<1>2. ASSUME NEW u \in Umems, Crash(u) PROVE Counts(g)'
  BY <1>2, CrashCounts, Zenon
<1>3. ASSUME NEW s \in Sockets, Create(s) PROVE Counts(g)'
  <2> USE <1>3
  <2>1. xdp_prog[s] = None /\ xdp_prog' = xdp_prog /\ UNCHANGED <<refcnt, lost>>
    BY Zenon DEF Create, CanCreate, TypeInv, Holds, callvars, progvars, Callers
  <2>2. \A x \in Callers \ {s} : pc'[x] = pc[x]
    BY Zenon DEF Create, Goto, Types
  <2>3. \A x \in Callers : Counted(x, g)' <=> Counted(x, g)
    BY <2>1, <2>2, Zenon DEF Counted
  <2> QED BY <2>1, <2>3, CountSame, Zenon
<1>4. ASSUME NEW p \in Callers, Setup(p) PROVE Counts(g)'
  <2>0. Holds(p) /\ Locks(p)
    BY Zenon DEF TypeInv, LockInv
  <2> USE <2>0
  <2>1. CASE Lookup(p) \/ ReadRefcnt(p, "incr", "incr2") \/ LookupMisses(p)
    <3> USE <2>1
    <3>1. \A x \in Callers : Counted(x, g)' <=> Counted(x, g)
      BY ZenonT(60) DEF Lookup, ReadRefcnt, LookupMisses, Goto, callvars, Types, Counted
    <3>2. UNCHANGED <<refcnt, lost>>
      BY Zenon DEF Lookup, ReadRefcnt, LookupMisses, progvars
    <3> QED BY <3>1, <3>2, CountSame, Zenon
  <2>3. CASE IncrRefcnt(p)
    <3> USE <2>3
    <3>1. /\ xdp_prog[p] \in Progs /\ value[p] = refcnt[xdp_prog[p]]
          /\ ~ Counted(p, g) /\ lost' = lost
      BY Zenon DEF IncrRefcnt, Types, Locks, Holds, Counted
    <3> USE <3>1
    <3>2. \A x \in Callers \ {p} : Counted(x, g)' <=> Counted(x, g)
      BY ZenonT(60) DEF IncrRefcnt, Goto, Types, Counted
    <3>3. CASE value[p] = 0 \/ g # xdp_prog[p]
      <4>1. refcnt'[g] = refcnt[g] /\ ~ Counted(p, g)'
        BY <3>3, Zenon DEF IncrRefcnt, Update, Goto, Types, Counted
      <4> QED BY <3>2, <4>1, CountSame, Zenon
    <3>4. CASE value[p] # 0 /\ g = xdp_prog[p]
      <4>1. refcnt'[g] = refcnt[g] + 1 /\ Counted(p, g)'
        BY <3>4 DEF IncrRefcnt, Update, Goto, Types, Counted
      <4> QED BY <3>2, <4>1, CountJoins, Zenon
    <3> QED BY <3>3, <3>4, Zenon
  <2>4. CASE Attach(p)
    <3> USE <2>4
    <3>1. PICK h \in Progs : Fresh(h) /\ AttachCopy(p, h)
      BY Zenon DEF Attach
    <3>2. /\ refcnt' = [refcnt EXCEPT ![h] = 1] /\ xdp_prog' = [xdp_prog EXCEPT ![p] = h]
          /\ lost' = [lost EXCEPT ![h] = 0]
      BY <3>1, Zenon DEF Attach, AttachCopy
    <3> USE <3>2
    <3>3. pc[p] = "attach" /\ pc' = [pc EXCEPT ![p] = "map"]
      BY Zenon DEF Attach, Goto
    <3>4. CASE g # h
      <4> USE <3>4
      <4>1. \A x \in Callers : Counted(x, g)' <=> Counted(x, g)
        BY <3>3, Zenon DEF Types, Counted
      <4>2. refcnt'[g] = refcnt[g] /\ lost'[g] = lost[g]
        BY Zenon DEF Types
      <4> QED BY <4>1, <4>2, CountSame, Zenon
    <3>5. CASE g = h
      <4> USE <3>5
      <4>1. \A x \in Callers : xdp_prog[x] # g
        BY <3>1, Zenon DEF Fresh
      <4>2. Users(g)' = {p}
        BY <3>3, <4>1 DEF Users, Counted, Types
      <4>3. refcnt'[g] = 1 /\ lost'[g] = 0
        BY Zenon DEF Types
      <4>4. Cardinality(Users(g)') = 1
        BY <4>2, FS_Singleton, Zenon
      <4>5. 1 = 1 + 0
        OBVIOUS
      <4> QED BY <4>3, <4>4, <4>5, Zenon DEF Counts
    <3> QED BY <3>4, <3>5, Zenon
  <2>5. CASE UpdateMap(p) /\ p \in Sockets
    <3> USE <2>5
    <3>1. \A x \in Callers : Counted(x, g)' <=> Counted(x, g)
      BY Zenon DEF UpdateMap, Goto, Types, Counted
    <3>2. UNCHANGED <<refcnt, lost>>
      BY Zenon DEF UpdateMap
    <3> QED BY <3>1, <3>2, CountSame, Zenon
  <2>6. ASSUME \/ UpdateMap(p) /\ p \notin Sockets
               \/ FailsCounted(p)
        PROVE  Counts(g)'
    <3>1. /\ pc[p] = "map" /\ pc' = [pc EXCEPT ![p] = pc'[p]]
          /\ xdp_prog' = [xdp_prog EXCEPT ![p] = None]
          /\ lost' = [lost EXCEPT ![xdp_prog[p]] = @ + 1]
          /\ refcnt' = refcnt
      BY <2>6, Zenon DEF UpdateMap, FailsCounted, SetupFails, Goto, Types
    <3> USE <3>1
    <3>2. xdp_prog[p] \in Progs
      BY Zenon DEF Holds, Types
    <3>3. \A x \in Callers \ {p} : Counted(x, g)' <=> Counted(x, g)
      BY Zenon DEF Types, Counted
    <3>4. ~ Counted(p, g)'
      BY Zenon DEF Types, Counted
    <3>5. CASE g = xdp_prog[p]
      <4>1. Counted(p, g) /\ refcnt'[g] = refcnt[g] /\ lost'[g] = lost[g] + 1
        BY <3>5, Zenon DEF Types, Counted
      <4> QED BY <3>3, <3>4, <4>1, CountLeaves, Zenon
    <3>6. CASE g # xdp_prog[p]
      <4>1. ~ Counted(p, g) /\ refcnt'[g] = refcnt[g] /\ lost'[g] = lost[g]
        BY <3>6, Zenon DEF Types, Counted
      <4> QED BY <3>3, <3>4, <4>1, CountSame, Zenon
    <3> QED BY <3>5, <3>6, Zenon
  <2>7. CASE GivesUp(p)
    <3> USE <2>7
    <3>1. \A x \in Callers : Counted(x, g)' <=> Counted(x, g)
      BY Zenon DEF GivesUp, SetupFails, Goto, Types, Counted
    <3>2. UNCHANGED <<refcnt, lost>>
      BY Zenon DEF GivesUp, progvars
    <3> QED BY <3>1, <3>2, CountSame, Zenon
  <2> QED BY <1>4, <2>1, <2>3, <2>4, <2>5, <2>6, <2>7, Zenon DEF Setup
<1>5. ASSUME NEW s \in Sockets, Delete(s) PROVE Counts(g)'
  <2>0. Holds(s) /\ Locks(s) /\ s \in Callers
    BY Zenon DEF TypeInv, LockInv, Callers
  <2> USE <2>0
  <2>1. CASE \/ xsk_delete_map_entry(s) \/ ReadRefcnt(s, "decr", "decr2")
             \/ Detach(s) \/ Close(s)
    <3> USE <2>1
    <3>1. \A x \in Callers : Counted(x, g)' <=> Counted(x, g)
      BY ZenonT(60) DEF xsk_delete_map_entry, ReadRefcnt, Detach, Close, Goto, callvars, Types, Counted
    <3>2. UNCHANGED <<refcnt, lost>>
      BY Zenon DEF xsk_delete_map_entry, ReadRefcnt, Detach, Close, progvars
    <3> QED BY <3>1, <3>2, CountSame, Zenon
  <2>2. CASE DecrRefcnt(s) \/ DecrFails(s)
    <3> USE <2>2
    <3>1. /\ xdp_prog[s] \in Progs /\ xdp_prog' = xdp_prog
          /\ pc[s] \in {"decr", "decr2"} /\ pc'[s] \in {"detach", "close"}
          /\ \A x \in Callers \ {s} : pc'[x] = pc[x]
      BY Zenon DEF DecrRefcnt, DecrFails, Holds, Deleting, Goto, Types, callvars
    <3> USE <3>1
    <3>2. \A x \in Callers \ {s} : Counted(x, g)' <=> Counted(x, g)
      BY Zenon DEF Counted
    <3>3. ~ Counted(s, g)'
      BY Zenon DEF Counted
    <3>4. CASE g = xdp_prog[s]
      <4> USE <3>4
      <4>1. Counted(s, g)
        BY Zenon DEF Counted
      <4>2. refcnt[g] > 0
        BY <4>1, CountedIsUsed, Zenon
      <4>3. \/ refcnt'[g] = refcnt[g] - 1 /\ lost'[g] = lost[g]
            \/ refcnt'[g] = refcnt[g] /\ lost'[g] = lost[g] + 1
        BY <4>2
        DEF DecrRefcnt, DecrFails, Update, Locks, Types, progvars
      <4> QED BY <3>2, <3>3, <4>1, <4>3, CountLeaves, Zenon
    <3>5. CASE g # xdp_prog[s]
      <4>1. refcnt'[g] = refcnt[g] /\ lost'[g] = lost[g] /\ ~ Counted(s, g)
        BY <3>5, Zenon DEF DecrRefcnt, DecrFails, Types, progvars, Counted
      <4> QED BY <3>2, <3>3, <4>1, CountSame, Zenon
    <3> QED BY <3>4, <3>5, Zenon
  <2>3. CASE Overwritten(s)
    <3> USE <2>3
    <3>1. PICK h \in Progs \cup {None} :
            /\ xdp_prog' = [xdp_prog EXCEPT ![s] = h]
            /\ lost' = [k \in Progs |->
                         IF k = xdp_prog[s] /\ k # h THEN lost[k] + 1 ELSE lost[k]]
            /\ torn' = torn \cup ({h} \ {None, xdp_prog[s]})
      BY Zenon DEF Overwritten
    <3>2. pc[s] = "open" /\ UNCHANGED <<pc, refcnt>>
      BY Zenon DEF Overwritten
    <3>3. \A x \in Callers \ {s} : Counted(x, g)' <=> Counted(x, g)
      BY <3>1, <3>2, Zenon DEF Types, Counted
    <3>4. CASE g = xdp_prog[s] /\ g # h
      <4>1. Counted(s, g) /\ ~ Counted(s, g)' /\ lost'[g] = lost[g] + 1
        BY <3>1, <3>2, <3>4, Zenon DEF Types, Counted
      <4> QED BY <3>2, <3>3, <4>1, CountLeaves, Zenon
    <3>5. CASE g # xdp_prog[s] \/ g = h
      <4>1. g # xdp_prog[s] => g # h
        BY <3>1, Zenon
      <4>2. (Counted(s, g)' <=> Counted(s, g)) /\ lost'[g] = lost[g]
        BY <3>1, <3>2, <3>5, <4>1, Zenon DEF Types, Counted
      <4> QED BY <3>2, <3>3, <4>2, CountSame, Zenon
    <3> QED BY <3>4, <3>5, Zenon
  <2> QED BY <1>5, <2>1, <2>2, <2>3, Zenon DEF Delete
<1> QED
  BY Zenon, <1>1, <1>2, <1>3, <1>4, <1>5
  DEF Next, Step, vars, callvars, progvars, xsk_umem__create, xsk_umem__delete, CreateFails,
      SocketFails, xsk_socket__update_xskmap

\* TypeInv, LockInv and CountInv together are inductive.
LEMMA SocketCounts == Spec => [](TypeInv /\ LockInv /\ CountInv)
<1>1. Init => TypeInv /\ LockInv /\ CountInv
  BY InitTypeInv, InitCounts, Zenon
<1>2. ASSUME TypeInv, LockInv, CountInv, [Next]_vars
      PROVE  (TypeInv /\ LockInv /\ CountInv)'
  <2> USE <1>2
  <2>1. TypeInv'
    BY NextTypeInv, Zenon
  <2>2. LockInv'
    BY NextLock, Zenon DEF LockInv
  <2>3. CountInv'
    BY FreshCounts, NextCounts, Zenon DEF CountInv
  <2> QED BY <2>1, <2>2, <2>3, Zenon
<1> QED BY <1>1, <1>2, PTL DEF Spec

\* RefcntExact: under the lock of xdp_lock_acquire no increment and no
\* decrement of xsk_update_prog_refcnt is lost, however many processes set up
\* and delete sockets, fail or die.  Excepted are programs that a call took down
\* when it failed, or that a socket found in a context it contends for.
THEOREM SocketRefcntExact == Spec => []RefcntExact
<1>1. TypeInv /\ CountInv => RefcntExact
  BY Zenon DEF TypeInv, Types, CountInv, Counts, Users, RefcntExact
<1> QED BY <1>1, SocketCounts, PTL

-----------------------------------------------------------------------------
(* Attaching and detaching *)

\* At first nothing is attached.
LEMMA InitAttachInv == Init => AttachInv
BY NamesAssumption, Zenon DEF Init, AttachInv, Gone, Going, Stays, Clean, Callers

\* A count that is 0 stays 0 for as long as anybody refers to the program.
LEMMA ZeroStays ==
  ASSUME TypeInv, LockInv, CountInv, [Next]_vars, NEW g \in Progs, refcnt[g] = 0,
         NEW q \in Callers, xdp_prog[q] = g
  PROVE  refcnt'[g] = 0
<1>0. Types
  BY Zenon DEF TypeInv
<1> USE <1>0
<1>1. ASSUME NEW p \in Callers, IncrRefcnt(p) PROVE refcnt'[g] = 0
  <2> USE <1>1
  <2>1. Locks(p) /\ pc[p] = "incr2"
    BY Zenon DEF LockInv, IncrRefcnt
  <2> QED BY <2>1, Zenon DEF IncrRefcnt, Update, Locks, Types
<1>2. ASSUME NEW p \in Callers, DecrRefcnt(p) PROVE refcnt'[g] = 0
  <2> USE <1>2
  <2>1. Locks(p) /\ pc[p] = "decr2"
    BY Zenon DEF LockInv, DecrRefcnt
  <2> QED BY <2>1, Zenon DEF DecrRefcnt, Update, Locks, Types
<1>3. ASSUME NEW p \in Callers, Attach(p) PROVE refcnt'[g] = 0
  <2> USE <1>3
  <2>1. PICK h \in Progs : Fresh(h) /\ AttachCopy(p, h)
    BY Zenon DEF Attach
  <2>2. h # g /\ refcnt' = [refcnt EXCEPT ![h] = 1]
    BY <2>1, Zenon DEF Attach, AttachCopy, Fresh
  <2> QED BY <2>2, Zenon DEF Types
<1>4. CASE refcnt' = refcnt
  BY <1>4, Zenon
<1> QED
  BY ZenonT(40), <1>1, <1>2, <1>3, <1>4
  DEF Next, Step, Setup, Delete, vars, progvars, xsk_umem__create, xsk_umem__delete, Crash,
      Create, CreateFails, SocketFails, xsk_socket__update_xskmap, Lookup, ReadRefcnt,
      UpdateMap, LookupMisses, GivesUp, FailsCounted, Overwritten, xsk_delete_map_entry,
      DecrFails, Detach, Close, Callers

\* A program that is not attached keeps count 0: nobody joins it.
LEMMA NextGone ==
  ASSUME TypeInv, LockInv, CountInv, AttachInv, [Next]_vars, NEW g \in Progs
  PROVE  Gone(g)'
<1>0. Types /\ Gone(g)
  BY Zenon DEF TypeInv, AttachInv
<1> USE <1>0
<1>1. CASE UNCHANGED <<attached, torn, refcnt>>
  BY <1>1, Zenon DEF Gone
<1>2. ASSUME NEW p \in Callers, IncrRefcnt(p) \/ DecrRefcnt(p) PROVE Gone(g)'
  <2> USE <1>2
  <2>1. Locks(p) /\ lock = p
    BY Zenon DEF LockInv, Locks, IncrRefcnt, DecrRefcnt
  <2> QED BY <2>1 DEF IncrRefcnt, DecrRefcnt, Update, Locks, Types, Gone
<1>3. ASSUME NEW p \in Callers, Attach(p) PROVE Gone(g)'
  <2> USE <1>3
  <2>1. PICK h \in Progs : Fresh(h) /\ AttachCopy(p, h)
    BY Zenon DEF Attach
  <2>2. /\ refcnt' = [refcnt EXCEPT ![h] = 1] /\ attached' = attached \cup {h}
        /\ torn' = torn \ {h}
    BY <2>1, Zenon DEF Attach, AttachCopy
  <2> QED BY <2>2, Zenon DEF Types, Gone
<1>4. ASSUME NEW p \in Callers, FailsCounted(p) PROVE Gone(g)'
  BY <1>4, Zenon DEF FailsCounted, Gone
<1>5. ASSUME NEW p \in Sockets, Detach(p) PROVE Gone(g)'
  <2> USE <1>5
  <2>1. pc[p] = "detach" /\ Going(p)
    BY Zenon DEF AttachInv, Detach, Callers
  <2> QED BY <2>1, Zenon DEF Detach, Going, Gone
<1>6. ASSUME NEW p \in Sockets, Overwritten(p) PROVE Gone(g)'
  BY <1>6, Zenon DEF Overwritten, Gone
<1> QED
  BY ZenonT(40), <1>1, <1>2, <1>3, <1>4, <1>5, <1>6
  DEF Next, Step, Setup, Delete, vars, progvars, xsk_umem__create, xsk_umem__delete, Crash,
      Create, CreateFails, SocketFails, xsk_socket__update_xskmap, Lookup, ReadRefcnt,
      UpdateMap, LookupMisses, GivesUp, xsk_delete_map_entry, DecrFails, Close, Callers

\* A program about to be detached keeps count 0.
LEMMA NextGoing ==
  ASSUME TypeInv, LockInv, CountInv, AttachInv, [Next]_vars, NEW x \in Callers
  PROVE  Going(x)'
<1>0. Types /\ Holds(x) /\ Going(x) /\ Locks(x)
  BY Zenon DEF TypeInv, AttachInv, LockInv
<1> USE <1>0
<1>1. SUFFICES ASSUME pc'[x] = "detach" PROVE refcnt'[xdp_prog'[x]] = 0
  BY Zenon DEF Going
<1> USE <1>1
<1>2. CASE pc[x] = "detach"
  <2> USE <1>2
  <2>1. xdp_prog[x] \in Progs /\ refcnt[xdp_prog[x]] = 0
    BY Zenon DEF Types, Holds, Going, Deleting
  <2>2. refcnt'[xdp_prog[x]] = 0
    BY <2>1, ZeroStays, ZenonT(40)
  <2>3. xdp_prog'[x] = xdp_prog[x]
    <3>1. CASE UNCHANGED xdp_prog
      BY <3>1, Zenon
    <3>2. ASSUME NEW u \in Umems, Crash(u) PROVE xdp_prog'[x] = xdp_prog[x]
      <4> USE <3>2
      <4>1. x \notin SocketsOf(u)
        <5> SUFFICES ASSUME x \in SocketsOf(u) PROVE FALSE
          BY Zenon
        <5>1. pc'[x] = "closed"
          BY ZenonT(60) DEF Crash
        <5> QED BY <5>1, Zenon
      <4> QED BY <4>1, Zenon DEF Crash
    <3>3. ASSUME NEW p \in Callers, Setup(p) PROVE xdp_prog'[x] = xdp_prog[x]
      BY ZenonT(60), <3>3, AttachLocal
      DEF Setup, Lookup, ReadRefcnt, IncrRefcnt, UpdateMap, LookupMisses, GivesUp,
          FailsCounted, SetupFails, callvars, Types
    <3>4. ASSUME NEW p \in Sockets, Delete(p) PROVE xdp_prog'[x] = xdp_prog[x]
      BY Zenon, <3>4
      DEF Delete, Overwritten, xsk_delete_map_entry, ReadRefcnt, DecrRefcnt, DecrFails, Detach, Close,
          callvars, Types
    <3> QED
      BY ZenonT(40), <3>1, <3>2, <3>3, <3>4
      DEF Next, Step, vars, callvars, xsk_umem__create, xsk_umem__delete, Create, CreateFails,
          SocketFails, xsk_socket__update_xskmap
  <2> QED BY <2>2, <2>3, Zenon
<1>3. CASE pc[x] # "detach"
  <2> USE <1>3
  <2>1. x \in Sockets /\ DecrRefcnt(x)
    <3>1. CASE UNCHANGED pc
      BY <3>1, Zenon
    <3>2. ASSUME NEW u \in Umems, Crash(u) PROVE FALSE
      <4>1. pc'[x] \in {"closed", pc[x]}
        BY <3>2, Zenon DEF Crash
      <4> QED BY <4>1, Zenon
    <3>3. ASSUME NEW p \in Sockets, Create(p) PROVE FALSE
      BY <3>3, ZenonT(60) DEF Create, Goto, Types
    <3>4. ASSUME NEW p \in Callers, Setup(p) PROVE FALSE
      BY ZenonT(60), <3>4
      DEF Setup, Lookup, ReadRefcnt, IncrRefcnt, Attach, UpdateMap, LookupMisses, GivesUp,
          FailsCounted, SetupFails, Goto, Types
    <3>5. ASSUME NEW p \in Sockets, Delete(p) PROVE x \in Sockets /\ DecrRefcnt(x)
      BY Zenon, <3>5
      DEF Delete, Overwritten, xsk_delete_map_entry, ReadRefcnt, DecrRefcnt, DecrFails, Detach, Close,
          Goto, Types
    <3> QED
      BY ZenonT(40), <3>1, <3>2, <3>3, <3>4, <3>5
      DEF Next, Step, vars, callvars, xsk_umem__create, xsk_umem__delete, CreateFails,
          SocketFails, xsk_socket__update_xskmap
  <2>2. xdp_prog[x] \in Progs
    BY <2>1, Zenon DEF DecrRefcnt, Holds, Deleting, Types
  <2> QED BY <2>1, <2>2, Zenon DEF DecrRefcnt, Goto, Types
<1> QED BY <1>2, <1>3, Zenon

\* What nobody will give back stays, for as long as somebody has the map.
LEMMA LostStays ==
  ASSUME TypeInv, [Next]_vars, NEW x \in Callers, map[x] \in Progs, lost[map[x]] > 0
  PROVE  lost'[map[x]] > 0
<1>0. Types /\ lost[map[x]] \in Nat
  BY Zenon DEF TypeInv, Types
<1> USE <1>0
<1>1. CASE UNCHANGED lost
  BY <1>1, Zenon
<1>2. ASSUME NEW u \in Umems, Crash(u) PROVE lost'[map[x]] > 0
  <2>1. Cardinality({s \in SocketsOf(u) : Counted(s, map[x])}) \in Nat
    <3>1. IsFiniteSet({s \in SocketsOf(u) : Counted(s, map[x])})
      BY NamesAssumption, FS_Subset, Zenon DEF SocketsOf
    <3> QED BY <3>1, FS_CardinalityType, Zenon
  <2>2. lost'[map[x]] = lost[map[x]] + Cardinality({s \in SocketsOf(u) : Counted(s, map[x])})
    BY <1>2, Zenon DEF Crash
  <2> QED BY <2>1, <2>2
<1>3. ASSUME NEW p \in Callers, Attach(p) PROVE lost'[map[x]] > 0
  <2>1. PICK h \in Progs : Fresh(h) /\ AttachCopy(p, h)
    BY <1>3, Zenon DEF Attach
  <2>2. map[x] # h /\ lost' = [lost EXCEPT ![h] = 0]
    BY <1>3, <2>1, Zenon DEF Attach, AttachCopy, Fresh
  <2> QED BY <2>2, Zenon DEF Types
<1>4. ASSUME NEW h, lost' = [lost EXCEPT ![h] = @ + 1] PROVE lost'[map[x]] > 0
  BY <1>4 DEF Types
<1>5. ASSUME NEW s \in Sockets, Overwritten(s) PROVE lost'[map[x]] > 0
  <2>1. lost'[map[x]] = lost[map[x]] \/ lost'[map[x]] = lost[map[x]] + 1
    BY <1>5, Zenon DEF Overwritten
  <2> QED BY <2>1
<1> QED
  BY ZenonT(60), <1>1, <1>2, <1>3, <1>4, <1>5
  DEF Next, Step, Setup, Delete, vars, xsk_umem__create, xsk_umem__delete, Create,
      CreateFails, SocketFails, xsk_socket__update_xskmap, Lookup, ReadRefcnt, IncrRefcnt,
      UpdateMap, LookupMisses, GivesUp, FailsCounted, xsk_delete_map_entry, DecrRefcnt,
      DecrFails, Detach, Close

\* What a control process has counted is never given back.
LEMMA NextStays ==
  ASSUME TypeInv, AttachInv, [Next]_vars, NEW x \in Callers
  PROVE  Stays(x)'
<1>0. Types /\ Stays(x) /\ None \notin Progs /\ Sockets \cap Controls = {}
  BY NamesAssumption, Zenon DEF TypeInv, AttachInv
<1> USE <1>0
<1> SUFFICES ASSUME x \in Controls, map'[x] # None PROVE lost'[map'[x]] > 0
  BY Zenon DEF Stays
<1>1. CASE UpdateMap(x)
  <2> USE <1>1
  <2>1. Holds(x) /\ xdp_prog[x] \in Progs /\ x \notin Sockets
    BY Zenon DEF UpdateMap, TypeInv, Holds, Types
  <2>2. /\ lost' = [lost EXCEPT ![xdp_prog[x]] = @ + 1]
        /\ map' = [map EXCEPT ![x] = xdp_prog[x]]
    BY <2>1, Zenon DEF UpdateMap
  <2> QED BY <2>1, <2>2 DEF Types
<1>2. CASE ~ UpdateMap(x)
  <2>1. map'[x] = map[x]
    <3>1. CASE UNCHANGED map
      BY <3>1, Zenon
    <3>2. ASSUME NEW u \in Umems, Crash(u) PROVE map'[x] = map[x]
      BY <3>2, Zenon DEF Crash, SocketsOf
    <3>3. ASSUME NEW s \in Sockets, \E v : map' = [map EXCEPT ![s] = v]
          PROVE  map'[x] = map[x]
      BY <3>3, Zenon DEF Types
    <3>4. ASSUME NEW p \in Callers, UpdateMap(p) PROVE map'[x] = map[x]
      BY <1>2, <3>4, Zenon DEF UpdateMap, Types
    <3> QED
      BY ZenonT(60), <3>1, <3>2, <3>3, <3>4
      DEF Next, Step, Setup, Delete, vars, callvars, xsk_umem__create, xsk_umem__delete,
          Create, CreateFails, SocketFails, xsk_socket__update_xskmap, Lookup, ReadRefcnt,
          IncrRefcnt, Attach, LookupMisses, GivesUp, FailsCounted, SetupFails, Overwritten,
          xsk_delete_map_entry, DecrRefcnt, DecrFails, Detach, Close
  <2>2. map[x] \in Progs
    BY <2>1, Zenon DEF Types
  <2> QED BY <2>1, <2>2, LostStays, Zenon DEF Stays
<1> QED BY <1>1, <1>2, Zenon

\* Somebody about to detach a program remains so until it acts.
LEMMA LeaverOn ==
  ASSUME NEW g, Leaver(g),
         \A p \in Callers : pc[p] = "detach" /\ xdp_prog[p] = g =>
                             pc'[p] = pc[p] /\ xdp_prog'[p] = xdp_prog[p]
  PROVE  Leaver(g)'
BY Zenon DEF Leaver

\* Without a fault, an attached program with count 0 has somebody about to detach it.
LEMMA NextClean ==
  ASSUME TypeInv, LockInv, CountInv, AttachInv, [Next]_vars
  PROVE  Clean'
<1>0. Types /\ Clean /\ None \notin Progs
  BY NamesAssumption, Zenon DEF TypeInv, AttachInv
<1> USE <1>0
<1>1. SUFFICES ASSUME faults' = 0, NEW g \in Progs
               PROVE  torn' = {} /\ (g \in attached' /\ refcnt'[g] = 0 => Leaver(g)')
  <2>1. Types'
    BY NextTypeInv, Zenon DEF TypeInv
  <2> QED BY <2>1, Zenon DEF Clean, Types
<1> USE <1>1
<1>2. ~ Fault
  BY DEF Fault, Types
<1> USE <1>2
<1> DEFINE Goal == torn' = {} /\ (g \in attached' /\ refcnt'[g] = 0 => Leaver(g)')
           Same == \A p \in Callers : pc[p] = "detach" /\ xdp_prog[p] = g =>
                                      pc'[p] = pc[p] /\ xdp_prog'[p] = xdp_prog[p]
<1>3. ASSUME faults = 0, torn' = torn, Same,
             g \in attached' /\ refcnt'[g] = 0 => g \in attached /\ refcnt[g] = 0
      PROVE  Goal
  <2> USE <1>3
  <2>1. torn' = {} /\ (g \in attached /\ refcnt[g] = 0 => Leaver(g))
    BY Zenon DEF Clean
  <2>2. Leaver(g) => Leaver(g)'
    BY LeaverOn, Zenon
  <2> QED BY <2>1, <2>2, Zenon
<1> HIDE DEF Goal
<1>4. ASSUME UNCHANGED <<pc, xdp_prog, attached, refcnt, torn, faults>> PROVE Goal
  BY <1>3, <1>4, Zenon
<1>5. ASSUME NEW s \in Sockets, Create(s) PROVE Goal
  <2> USE <1>5
  <2>1. Same
    BY Zenon DEF Create, CanCreate, Goto, callvars, Types
  <2> QED BY <1>3, <2>1, Zenon DEF Create, progvars
<1>6. ASSUME NEW p \in Callers, Setup(p) PROVE Goal
  <2> USE <1>6
  <2>0. Locks(p)
    BY ZenonT(60) DEF LockInv
  <2>1. Same
    BY ZenonT(60), AttachLocal
    DEF Setup, Lookup, ReadRefcnt, IncrRefcnt, UpdateMap, LookupMisses, GivesUp,
        FailsCounted, SetupFails, callvars, Goto, Types
  <2> USE <2>1
  <2>2. CASE Lookup(p) \/ ReadRefcnt(p, "incr", "incr2") \/ UpdateMap(p) \/ GivesUp(p)
    <3>1. UNCHANGED <<attached, refcnt, torn, faults>>
      BY <2>2, Zenon DEF Lookup, ReadRefcnt, UpdateMap, GivesUp, progvars
    <3> QED BY <1>3, <3>1, Zenon
  <2>3. CASE IncrRefcnt(p)
    <3> USE <2>3
    <3>1. refcnt'[g] = 0 => refcnt[g] = 0
      <4>1. refcnt' = [refcnt EXCEPT ![xdp_prog[p]] = Update(value[p], 1)] /\ pc[p] = "incr2"
        BY Zenon DEF IncrRefcnt
      <4>2. value[p] = refcnt[xdp_prog[p]] /\ refcnt \in [Progs -> Nat]
        BY <2>0, <4>1, ZenonT(60) DEF Locks, Types
      <4>3. \A n \in Nat : Update(n, 1) = 0 => n = 0
        BY DEF Update
      <4> QED BY <4>1, <4>2, <4>3, Zenon
    <3>2. UNCHANGED <<attached, torn, faults>>
      BY Zenon DEF IncrRefcnt
    <3> QED BY <1>3, <3>1, <3>2, Zenon
  <2>4. CASE Attach(p)
    <3> USE <2>4
    <3>1. PICK h \in Progs : Fresh(h) /\ AttachCopy(p, h)
      BY Zenon DEF Attach
    <3>2. /\ refcnt' = [refcnt EXCEPT ![h] = 1] /\ attached' = attached \cup {h}
          /\ torn' = torn \ {h} /\ faults' = faults
      BY <3>1, ZenonT(60) DEF Attach, AttachCopy
    <3>3. torn = {}
      BY <3>2 DEF Clean
    <3> QED BY <1>3, <3>2, <3>3 DEF Types
  <2>5. ~ LookupMisses(p) /\ ~ FailsCounted(p)
    BY Zenon DEF LookupMisses, FailsCounted
  <2> QED BY <2>2, <2>3, <2>4, <2>5, Zenon DEF Setup
<1>7. ASSUME NEW s \in Sockets, Delete(s) PROVE Goal
  <2>0. Locks(s) /\ Holds(s) /\ s \in Callers
    BY ZenonT(60) DEF LockInv, TypeInv, Callers
  <2>1. CASE \/ xsk_delete_map_entry(s) \/ ReadRefcnt(s, "decr", "decr2") \/ Close(s)
    <3> USE <2>1
    <3>1. Same
      BY Zenon DEF xsk_delete_map_entry, ReadRefcnt, Close, callvars, Goto, Types
    <3>2. UNCHANGED <<attached, refcnt, torn, faults>>
      BY Zenon DEF xsk_delete_map_entry, ReadRefcnt, Close, progvars
    <3> QED BY <1>3, <3>1, <3>2
  <2>2. CASE DecrRefcnt(s)
    <3> USE <2>2
    <3>1. Same
      BY ZenonT(60) DEF DecrRefcnt, Goto, Types
    <3>2. UNCHANGED <<attached, torn, faults, xdp_prog>>
      BY DEF DecrRefcnt
    <3> USE <3>2
    <3>3. CASE refcnt'[g] = 0 => refcnt[g] = 0
      BY <1>3, <3>1, <3>3, Zenon
    <3>4. CASE refcnt'[g] = 0 /\ refcnt[g] # 0
      <4>1. g = xdp_prog[s] /\ pc'[s] = "detach"
        BY <2>0, <3>4, Zenon DEF DecrRefcnt, Goto, Types
      <4>2. Leaver(g)'
        BY <2>0, <4>1, Zenon DEF Leaver
      <4> QED BY <4>2, Zenon DEF Goal, Clean
    <3> QED BY <3>3, <3>4, Zenon
  <2>3. CASE Detach(s)
    <3> USE <2>3
    <3>1. attached' = attached \ {xdp_prog[s]} /\ UNCHANGED <<faults, refcnt, torn, xdp_prog>>
      BY Zenon DEF Detach, callvars
    <3> USE <3>1
    <3>2. CASE g = xdp_prog[s]
      BY <3>2, Zenon DEF Goal, Clean
    <3>3. CASE g # xdp_prog[s]
      <4>1. Same
        BY <3>3, Zenon DEF Detach, Goto, Types
      <4> QED BY <1>3, <4>1, Zenon
    <3> QED BY <3>2, <3>3, Zenon
  <2>4. ~ DecrFails(s) /\ ~ Overwritten(s)
    BY Zenon DEF DecrFails, Overwritten
  <2> QED BY <1>7, <2>1, <2>2, <2>3, <2>4, Zenon DEF Delete
<1>8. ASSUME NEW u \in Umems, xsk_umem__create(u) \/ xsk_umem__delete(u) \/ Crash(u)
      PROVE  Goal
  BY <1>4, <1>8, Zenon DEF xsk_umem__create, xsk_umem__delete, Crash, callvars, progvars
<1>9. ASSUME NEW s \in Sockets, CreateFails(s) \/ SocketFails(s) PROVE Goal
  BY <1>4, <1>9, Zenon DEF CreateFails, SocketFails, callvars, progvars
<1>10. ASSUME NEW s \in Sockets, NEW c \in Controls, xsk_socket__update_xskmap(s, c)
       PROVE  Goal
  BY <1>4, <1>10, Zenon DEF xsk_socket__update_xskmap
<1>11. ASSUME UNCHANGED vars PROVE Goal
  BY <1>4, <1>11, Zenon DEF vars, callvars, progvars
<1>12. Goal
  BY <1>5, <1>6, <1>7, <1>8, <1>9, <1>10, <1>11, Zenon DEF Next, Step
<1> QED BY <1>12, Zenon DEF Goal

\* Counts and attachment agree at all times.
LEMMA SocketAttached == Spec => []AttachInv
<1>1. ASSUME TypeInv, LockInv, CountInv, AttachInv, [Next]_vars
      PROVE  AttachInv'
  <2> USE <1>1
  <2>1. \A g \in Progs : Gone(g)'
    BY NextGone, Zenon
  <2>2. \A p \in Callers : Going(p)' /\ Stays(p)'
    BY NextGoing, NextStays, Zenon
  <2>3. Clean'
    BY NextClean, Zenon
  <2> QED BY <2>1, <2>2, <2>3, Zenon DEF AttachInv
<1> QED BY <1>1, InitAttachInv, SocketCounts, PTL DEF Spec

\* AttachedIffReferenced: what test_xsk_refcnt.c checks of one process holds for
\* any number of them, although looking a program up, attaching it and
\* detaching it are not covered by the lock.
THEOREM SocketAttachedIffReferenced == Spec => []AttachedIffReferenced
<1>1. ASSUME TypeInv, CountInv, AttachInv PROVE AttachedIffReferenced
  <2> USE <1>1
  <2> SUFFICES ASSUME faults = 0, \A p \in Callers : pc[p] \in {"closed", "open"},
                      NEW g \in Progs
               PROVE  g \in attached <=> \/ \E s \in Sockets : xdp_prog[s] = g
                                         \/ g \in attached /\ lost[g] > 0
    BY Zenon DEF AttachedIffReferenced, TypeInv, Types
  <2>0. Types /\ Counts(g) /\ Gone(g) /\ Clean
    BY Zenon DEF TypeInv, CountInv, AttachInv, Clean
  <2> USE <2>0
  <2>1. ASSUME g \in attached, lost[g] = 0 PROVE \E s \in Sockets : xdp_prog[s] = g
    <3> USE <2>1
    <3>1. refcnt[g] # 0
      BY Zenon DEF Clean, Leaver
    <3>2. Cardinality(Users(g)) # 0
      BY <3>1 DEF Counts
    <3>3. PICK p \in Callers : Counted(p, g)
      BY <3>2, FS_EmptySet, Zenon DEF Users
    <3>4. Holds(p)
      BY Zenon DEF TypeInv
    <3> QED BY <3>3, <3>4, NamesAssumption, Zenon DEF Counted, Holds, Callers
  <2>2. ASSUME NEW s \in Sockets, xdp_prog[s] = g PROVE g \in attached
    <3>1. Counted(s, g) /\ s \in Callers
      BY <2>2, NamesAssumption, Zenon DEF TypeInv, Holds, Counted, Callers
    <3>2. refcnt[g] > 0
      BY <3>1, CountedIsUsed, Zenon
    <3> QED BY <3>2 DEF Gone, Clean
  <2> QED BY <2>1, <2>2 DEF Types
<1> QED BY <1>1, SocketCounts, SocketAttached, PTL

-----------------------------------------------------------------------------
(* Umems, contexts and the xsks_map. *)

OnQueue(u, q) == {s \in InUse(u) : Queue[s] = q}

Umem_t == [created : BOOLEAN, refcount : Nat, save : {"none", "mapped", "unmapped"}]
Ctx_t == [refcount : Nat, mapped : BOOLEAN]

\* The count of a umem, and the rings it offers.
UmemOk(u) ==
    /\ umem[u].refcount >= Cardinality(InUse(u))
    /\ u \notin unpaired => umem[u].refcount = Cardinality(InUse(u))
    /\ ~ umem[u].created => InUse(u) = {}
    /\ umem[u].save = "unmapped" => u \in unpaired

\* The count and the rings of a context.
CtxOk(u, q) ==
    /\ ctx[u][q].refcount = Cardinality(OnQueue(u, q))
    /\ ctx[u][q].refcount > 0 /\ u \notin unpaired => ctx[u][q].mapped

UmemTypes == umem \in [Umems -> Umem_t] /\ ctx \in [Umems -> [Queues -> Ctx_t]]

UmemInv ==
    /\ UmemTypes
    /\ \A u \in Umems : UmemOk(u) /\ \A q \in Queues : CtxOk(u, q)

\* The umem a file descriptor belongs to.
UmemOfFd(f) == IF f \in Sockets THEN Umem[f] ELSE f

\* Each socket is bound to its queue, and each queue has one umem.
Bound(s) == pc[s] # "closed" => bound[Fd(s)] = Queue[s]
OneUmem(f, h) == bound[f] # None /\ bound[f] = bound[h] => UmemOfFd(f) = UmemOfFd(h)

BindInv == (\A s \in Sockets : Bound(s)) /\ (\A f, h \in Fds : OneUmem(f, h))

\* What a socket has that contends with no other: with INHIBIT_PROG_LOAD the map
\* of a control process, else the program it has counted itself on.
Own(s) ==
    Umem[s] \notin contended =>
      /\ s \in Inhibit => /\ pc[s] \in {"closed", "open"} /\ xdp_prog[s] = None
                          /\ map[s] # None => lost[map[s]] > 0
      /\ s \notin Inhibit /\ pc[s] \in {"open"} \cup Deleting =>
           xdp_prog[s] # None /\ map[s] = xdp_prog[s]

\* Two sockets that share a context without contending for it.
Alone(s, t) ==
    /\ s # t /\ pc[s] # "closed" /\ pc[t] # "closed"
    /\ Umem[s] = Umem[t] /\ Queue[s] = Queue[t] /\ Umem[s] \notin contended
    => s \in Inhibit /\ t \in Inhibit

OwnInv == \A s \in Sockets : Own(s) /\ \A t \in Sockets : Alone(s, t)

\* An entry is an fd that is open and bound to the queue.
EntryOk(g, q) ==
    xsks_map[g][q] # None =>
      LET f == xsks_map[g][q] IN
      /\ bound[f] = q
      /\ f \in Sockets => own[f] /\ pc[f] \in {"open"} \cup Deleting

\* The entries of a queue are those of the socket that loads the program for it.
Served(s) ==
    s \notin Inhibit /\ pc[s] # "closed" /\ Umem[s] \notin contended =>
      /\ \A g \in Progs : xsks_map[g][Queue[s]] \in {None, Fd(s)}
      /\ pc[s] = "open" => xsks_map[map[s]][Queue[s]] = Fd(s)

MapInv ==
    /\ \A g \in Progs : \A q \in Queues : EntryOk(g, q)
    /\ \A s \in Sockets : Served(s)

-----------------------------------------------------------------------------
(* Umems and contexts *)

\* A umem has finitely many sockets.
LEMMA InUseFinite ==
  ASSUME NEW u
  PROVE  IsFiniteSet(InUse(u)) /\ Cardinality(InUse(u)) \in Nat
<1>1. IsFiniteSet(InUse(u))
  BY NamesAssumption, FS_Subset, Zenon DEF InUse, SocketsOf
<1> QED BY <1>1, FS_CardinalityType, Zenon

\* So has a context.
LEMMA OnQueueFinite ==
  ASSUME NEW u, NEW q
  PROVE  IsFiniteSet(OnQueue(u, q)) /\ Cardinality(OnQueue(u, q)) \in Nat
<1>1. IsFiniteSet(OnQueue(u, q))
  BY NamesAssumption, FS_Subset, Zenon DEF OnQueue, InUse, SocketsOf
<1> QED BY <1>1, FS_CardinalityType, Zenon

\* Cardinality with one more element.
LEMMA OneJoins ==
  ASSUME NEW S, IsFiniteSet(S), NEW x, x \notin S
  PROVE  Cardinality(S \cup {x}) = Cardinality(S) + 1
BY FS_AddElement, Zenon

\* Cardinality with one element less.
LEMMA OneLeaves ==
  ASSUME NEW S, IsFiniteSet(S), NEW x \in S
  PROVE  Cardinality(S \ {x}) = Cardinality(S) - 1 /\ Cardinality(S) # 0
BY FS_RemoveElement, FS_EmptySet, Zenon

\* At first no umem has a socket.
LEMMA InitUmemInv == Init => UmemInv
<1> SUFFICES ASSUME Init PROVE UmemInv
  BY Zenon
<1>1. UmemTypes
  BY Zenon DEF Init, UmemTypes, Umem_t, Ctx_t, NoUmem, NoCtx
<1>2. ASSUME NEW u \in Umems, NEW q \in Queues PROVE UmemOk(u) /\ CtxOk(u, q)
  <2>1. InUse(u) = {} /\ OnQueue(u, q) = {}
    BY NamesAssumption, Zenon DEF Init, InUse, OnQueue, SocketsOf, Callers
  <2>2. Cardinality({}) = 0
    BY FS_EmptySet, Zenon
  <2> QED BY <2>1, <2>2 DEF Init, UmemOk, CtxOk, NoUmem, NoCtx
<1>3. ASSUME NEW u \in Umems PROVE UmemOk(u)
  <2>1. InUse(u) = {}
    BY NamesAssumption, Zenon DEF Init, InUse, SocketsOf, Callers
  <2>2. Cardinality({}) = 0
    BY FS_EmptySet, Zenon
  <2> QED BY <2>1, <2>2 DEF Init, UmemOk, NoUmem
<1> QED BY <1>1, <1>2, <1>3, Zenon DEF UmemInv

\* No socket is opened or closed.
Steady == \A x \in Sockets : pc'[x] = "closed" <=> pc[x] = "closed"

\* The sockets of a umem are those that are not closed.
LEMMA InUseSame ==
  ASSUME NEW u, \A x \in SocketsOf(u) : pc'[x] = "closed" <=> pc[x] = "closed"
  PROVE  InUse(u)' = InUse(u) /\ \A q : OnQueue(u, q)' = OnQueue(u, q)
<1>1. InUse(u)' = InUse(u)
  BY Zenon DEF InUse
<1> QED BY <1>1, Zenon DEF OnQueue

\* A umem that a step leaves alone stays counted.
LEMMA UmemSame ==
  ASSUME NEW u, UmemOk(u), \A q \in Queues : CtxOk(u, q),
         \A x \in SocketsOf(u) : pc'[x] = "closed" <=> pc[x] = "closed",
         umem'[u] = umem[u], ctx'[u] = ctx[u], u \in unpaired' <=> u \in unpaired
  PROVE  UmemOk(u)' /\ \A q \in Queues : CtxOk(u, q)'
<1>1. InUse(u)' = InUse(u) /\ \A q : OnQueue(u, q)' = OnQueue(u, q)
  BY InUseSame, Zenon
<1>2. UmemOk(u)'
  BY <1>1, Zenon DEF UmemOk
<1> QED BY <1>1, <1>2, Zenon DEF CtxOk

\* A umem nobody uses: after xsk_umem__create, xsk_umem__delete or a crash.
LEMMA UmemEmpty ==
  ASSUME NEW u, \A x \in SocketsOf(u) : pc'[x] = "closed",
         umem'[u].refcount = 0, umem'[u].save # "unmapped",
         \A q \in Queues : ctx'[u][q].refcount = 0
  PROVE  UmemOk(u)' /\ \A q \in Queues : CtxOk(u, q)'
<1>1. InUse(u)' = {} /\ \A q : OnQueue(u, q)' = {}
  BY Zenon DEF InUse, OnQueue
<1>2. Cardinality({}) = 0
  BY FS_EmptySet, Zenon
<1>3. UmemOk(u)'
  BY SMTT(40), <1>1, <1>2 DEF UmemOk
<1>4. ASSUME NEW q \in Queues PROVE CtxOk(u, q)'
  <2>1. ctx'[u][q].refcount = 0 /\ Cardinality(OnQueue(u, q)') = 0
    BY <1>1, <1>2, Zenon
  <2> QED BY <2>1 DEF CtxOk
<1> QED BY <1>3, <1>4, Zenon

\* A call that fails half way may leave the count of its umem too high, not too low.
LEMMA UmemFailed ==
  ASSUME NEW u \in Umems, UmemTypes, UmemOk(u), \A q \in Queues : CtxOk(u, q),
         \A x \in SocketsOf(u) : pc'[x] = "closed" <=> pc[x] = "closed",
         umem'[u].created = umem[u].created, umem'[u].refcount >= umem[u].refcount,
         umem'[u].refcount \in Nat, ctx'[u] = ctx[u], u \in unpaired'
  PROVE  UmemOk(u)' /\ \A q \in Queues : CtxOk(u, q)'
<1>1. InUse(u)' = InUse(u) /\ \A q : OnQueue(u, q)' = OnQueue(u, q)
  BY InUseSame, Zenon
<1>2. Cardinality(InUse(u)) \in Nat /\ umem[u].refcount \in Nat
  BY InUseFinite, Zenon DEF UmemTypes, Umem_t
<1>3. UmemOk(u)'
  BY <1>1, <1>2 DEF UmemOk
<1> QED BY <1>1, <1>3, Zenon DEF CtxOk

\* Changing one context of a umem.
LEMMA PutAt ==
  ASSUME NEW c \in [Queues -> Ctx_t], NEW k, NEW v, NEW q \in Queues
  PROVE  [c EXCEPT ![k] = v][q] = IF q = k THEN v ELSE c[q]
BY Zenon

\* One more socket on a context.
LEMMA OneMoreCtx ==
  ASSUME NEW c \in Ctx_t
  PROVE  /\ [c EXCEPT !.refcount = @ + 1] \in Ctx_t
         /\ [c EXCEPT !.refcount = @ + 1].refcount = c.refcount + 1
         /\ [c EXCEPT !.refcount = @ + 1].mapped = c.mapped
BY DEF Ctx_t

\* A count that is not down to 0 after the decrement was not 1.
LEMMA OneLess ==
  ASSUME NEW n \in Nat
  PROVE  n - 1 > 0 => n # 1 /\ n > 0
OBVIOUS

\* A created socket is counted by its umem and by its context.
LEMMA UmemJoined ==
  ASSUME UmemTypes, NEW s \in Sockets, NEW u \in Umems, u = Umem[s], UmemOk(u),
         \A q \in Queues : CtxOk(u, q), pc[s] = "closed", pc'[s] # "closed",
         \A x \in Sockets \ {s} : pc'[x] = pc[x],
         umem'[u].created, umem'[u].refcount = umem[u].refcount + 1,
         umem'[u].save \in {"none", umem[u].save}, unpaired' = unpaired,
         ctx'[u] = [ctx[u] EXCEPT ![Queue[s]] = GetCtx(s)]
  PROVE  UmemOk(u)' /\ \A q \in Queues : CtxOk(u, q)'
<1>1. InUse(u)' = InUse(u) \cup {s} /\ s \notin InUse(u)
  BY Zenon DEF InUse, SocketsOf
<1> USE <1>1
<1>2. Cardinality(InUse(u)') = Cardinality(InUse(u)) + 1
  <2>1. Cardinality(InUse(u) \cup {s}) = Cardinality(InUse(u)) + 1
    BY InUseFinite, OneJoins, ZenonT(40)
  <2> QED BY <2>1, Zenon
<1>3. Cardinality(InUse(u)) \in Nat /\ umem[u].refcount \in Nat
  BY InUseFinite, Zenon DEF UmemTypes, Umem_t
<1>4. UmemOk(u)'
  <2>1. umem'[u].save = "unmapped" => u \in unpaired'
    BY Zenon DEF UmemOk
  <2>2. umem'[u].refcount >= Cardinality(InUse(u)')
    BY <1>2, <1>3 DEF UmemOk
  <2>3. u \notin unpaired' => umem'[u].refcount = Cardinality(InUse(u)')
    BY <1>2, <1>3, Zenon DEF UmemOk
  <2> QED BY <2>1, <2>2, <2>3, ZenonT(40) DEF UmemOk
<1>5. ASSUME NEW q \in Queues, q # Queue[s] PROVE CtxOk(u, q)'
  <2> USE <1>5
  <2>1. OnQueue(u, q)' = OnQueue(u, q)
    BY Zenon DEF OnQueue
  <2>2. ctx'[u][q] = ctx[u][q]
    <3>1. ctx[u] \in [Queues -> Ctx_t]
      BY Zenon DEF UmemTypes
    <3> QED BY <3>1, PutAt, Zenon
  <2> QED BY <2>1, <2>2, Zenon DEF CtxOk
<1>6. ASSUME NEW q \in Queues, q = Queue[s] PROVE CtxOk(u, q)'
  <2> USE <1>6
  <2>1. OnQueue(u, q)' = OnQueue(u, q) \cup {s} /\ s \notin OnQueue(u, q)
    BY Zenon DEF OnQueue
  <2>2. Cardinality(OnQueue(u, q)') = Cardinality(OnQueue(u, q)) + 1
    <3>1. Cardinality(OnQueue(u, q) \cup {s}) = Cardinality(OnQueue(u, q)) + 1
      BY <2>1, OnQueueFinite, OneJoins, Zenon
    <3> QED BY <2>1, <3>1, Zenon
  <2>3. Cardinality(OnQueue(u, q)) \in Nat /\ ctx[u][q] \in Ctx_t
    <3>1. ctx[u] \in [Queues -> Ctx_t]
      BY Zenon DEF UmemTypes
    <3>2. ctx[u][q] \in Ctx_t
      BY <3>1, Zenon
    <3> QED BY <3>2, OnQueueFinite, Zenon
  <2>4. ctx'[u][q] = GetCtx(s)
    <3>1. ctx[u] \in [Queues -> Ctx_t]
      BY Zenon DEF UmemTypes
    <3>2. [ctx[u] EXCEPT ![q] = GetCtx(s)][q] = GetCtx(s)
      BY <3>1, PutAt, Zenon
    <3> QED BY <3>2, Zenon
  <2> USE <2>3, <2>4
  <2>5. CASE ctx[u][q].refcount > 0
    <3> USE <2>5
    <3>1. GetCtx(s) = [ctx[u][q] EXCEPT !.refcount = @ + 1]
      BY Zenon DEF GetCtx
    <3>2. GetCtx(s).refcount = ctx[u][q].refcount + 1 /\ GetCtx(s).mapped = ctx[u][q].mapped
      <4>1. /\ [ctx[u][q] EXCEPT !.refcount = @ + 1].refcount = ctx[u][q].refcount + 1
            /\ [ctx[u][q] EXCEPT !.refcount = @ + 1].mapped = ctx[u][q].mapped
        BY <2>3, OneMoreCtx, Zenon
      <4> QED BY <3>1, <4>1, Zenon
    <3> QED BY <2>2, <3>2, ZenonT(40) DEF CtxOk
  <2>6. CASE ~ (ctx[u][q].refcount > 0)
    <3> USE <2>6
    <3>1. GetCtx(s) = [refcount |-> 1, mapped |-> umem[u].save # "unmapped"]
      BY ZenonT(60) DEF GetCtx
    <3>2. Cardinality(OnQueue(u, q)) = 0
      BY SMTT(40) DEF CtxOk
    <3>3. ctx'[u][q].refcount = Cardinality(OnQueue(u, q)')
      BY <2>2, <3>1, <3>2
    <3>4. u \notin unpaired' => ctx'[u][q].mapped
      <4>1. ctx'[u][q].mapped = (umem[u].save # "unmapped")
        <5>1. \A b \in BOOLEAN : [refcount |-> 1, mapped |-> b].mapped = b
          BY Zenon
        <5>2. (umem[u].save # "unmapped") \in BOOLEAN
          BY Zenon
        <5>3. GetCtx(s).mapped = (umem[u].save # "unmapped")
          BY <3>1, <5>1, <5>2, Zenon
        <5> QED BY <5>3, Zenon
      <4> QED BY <4>1, Zenon DEF UmemOk
    <3> QED BY <3>3, <3>4, ZenonT(40) DEF CtxOk
  <2> QED BY <2>5, <2>6, Zenon
<1> QED BY <1>4, <1>5, <1>6, Zenon

\* xsk_put_ctx takes one from the count and keeps the rings of one that was not last.
LEMMA PutCtxRefcount ==
  ASSUME NEW c \in Ctx_t, c.refcount > 0
  PROVE  /\ PutCtx(c) \in Ctx_t /\ PutCtx(c).refcount = c.refcount - 1
         /\ c.refcount # 1 => PutCtx(c).mapped = c.mapped
<1>1. CASE c.refcount = 1
  <2> USE <1>1
  <2>1. PutCtx(c) = [refcount |-> 0, mapped |-> FALSE]
    BY Zenon DEF PutCtx, NoCtx
  <2> QED BY <2>1 DEF Ctx_t
<1>2. CASE c.refcount # 1
  <2> USE <1>2
  <2>1. PutCtx(c) = [c EXCEPT !.refcount = @ - 1]
    BY Zenon DEF PutCtx
  <2> QED BY <2>1 DEF Ctx_t
<1> QED BY <1>1, <1>2, Zenon

\* A deleted socket is taken from both counts.
LEMMA UmemLeft ==
  ASSUME UmemTypes, NEW s \in Sockets, NEW u \in Umems, u = Umem[s], UmemOk(u),
         \A q \in Queues : CtxOk(u, q), pc[s] # "closed", pc'[s] = "closed",
         \A x \in Sockets \ {s} : pc'[x] = pc[x],
         umem'[u].created = umem[u].created, umem'[u].refcount = umem[u].refcount - 1,
         umem'[u].save = umem[u].save \/ u \in unpaired',
         u \in unpaired => u \in unpaired',
         ctx'[u] = [ctx[u] EXCEPT ![Queue[s]] = PutCtx(@)]
  PROVE  UmemOk(u)' /\ \A q \in Queues : CtxOk(u, q)'
<1>1. InUse(u)' = InUse(u) \ {s} /\ s \in InUse(u)
  BY Zenon DEF InUse, SocketsOf
<1> USE <1>1
<1>2. Cardinality(InUse(u)') = Cardinality(InUse(u)) - 1
  <2>1. Cardinality(InUse(u) \ {s}) = Cardinality(InUse(u)) - 1
    BY InUseFinite, OneLeaves, Zenon
  <2> QED BY <2>1, Zenon
<1>3. Cardinality(InUse(u)) \in Nat /\ umem[u].refcount \in Nat
  BY InUseFinite, Zenon DEF UmemTypes, Umem_t
<1>4. Cardinality(InUse(u)) # 0
  BY InUseFinite, OneLeaves, Zenon
<1>5. UmemOk(u)' /\ umem[u].refcount > 0
  <2>1. umem'[u].save = "unmapped" => u \in unpaired'
    BY ZenonT(60) DEF UmemOk
  <2>2. umem'[u].refcount >= Cardinality(InUse(u)') /\ umem[u].refcount > 0
    BY <1>2, <1>3, <1>4 DEF UmemOk
  <2>3. u \notin unpaired' => umem'[u].refcount = Cardinality(InUse(u)')
    BY <1>2, <1>3, Zenon DEF UmemOk
  <2>4. ~ umem'[u].created => InUse(u)' = {}
    BY Zenon DEF UmemOk
  <2> QED BY <2>1, <2>2, <2>3, <2>4, Zenon DEF UmemOk
<1>6. ASSUME NEW q \in Queues, q # Queue[s] PROVE CtxOk(u, q)'
  <2> USE <1>6
  <2>1. OnQueue(u, q)' = OnQueue(u, q)
    BY Zenon DEF OnQueue
  <2>2. ctx'[u][q] = ctx[u][q]
    <3>1. ctx[u] \in [Queues -> Ctx_t]
      BY Zenon DEF UmemTypes
    <3> QED BY <3>1, PutAt, Zenon
  <2> QED BY <2>1, <2>2, ZenonT(60) DEF CtxOk
<1>7. ASSUME NEW q \in Queues, q = Queue[s]
      PROVE  CtxOk(u, q)' /\ ctx[u][q].refcount > 0
  <2> USE <1>7
  <2>1. OnQueue(u, q)' = OnQueue(u, q) \ {s} /\ s \in OnQueue(u, q)
    BY Zenon DEF OnQueue
  <2> USE <2>1
  <2>2. Cardinality(OnQueue(u, q)') = Cardinality(OnQueue(u, q)) - 1
    <3>1. Cardinality(OnQueue(u, q) \ {s}) = Cardinality(OnQueue(u, q)) - 1
      BY OnQueueFinite, OneLeaves, Zenon
    <3> QED BY <3>1, Zenon
  <2>3. Cardinality(OnQueue(u, q)) \in Nat /\ ctx[u][q] \in Ctx_t
    <3>1. ctx[u] \in [Queues -> Ctx_t]
      BY Zenon DEF UmemTypes
    <3>2. ctx[u][q] \in Ctx_t
      BY <3>1, Zenon
    <3> QED BY <3>2, OnQueueFinite, Zenon
  <2>4. Cardinality(OnQueue(u, q)) # 0
    BY OnQueueFinite, OneLeaves, Zenon
  <2>5. ctx'[u][q] = PutCtx(ctx[u][q])
    <3>1. ctx[u] \in [Queues -> Ctx_t]
      BY ZenonT(60) DEF UmemTypes
    <3> QED BY <3>1, PutAt, Zenon
  <2>6. ctx[u][q].refcount > 0 /\ ctx[u][q].refcount \in Nat
    BY <2>3, <2>4 DEF CtxOk, Ctx_t
  <2>7. /\ PutCtx(ctx[u][q]).refcount = ctx[u][q].refcount - 1
        /\ ctx[u][q].refcount # 1 => PutCtx(ctx[u][q]).mapped = ctx[u][q].mapped
    BY <2>3, <2>6, PutCtxRefcount, Zenon
  <2>8. ctx'[u][q].refcount = Cardinality(OnQueue(u, q)')
    BY <2>2, <2>5, <2>7, Zenon DEF CtxOk
  <2>9. ctx'[u][q].refcount > 0 => ctx[u][q].refcount # 1
    <3>1. ctx[u][q].refcount - 1 > 0 => ctx[u][q].refcount # 1
      BY <2>6, OneLess, Zenon
    <3> QED BY <2>5, <2>7, <3>1, Zenon
  <2> QED BY <2>5, <2>6, <2>7, <2>8, <2>9, Zenon DEF CtxOk
<1>8. Queue[s] \in Queues
  BY NamesAssumption, Zenon
<1> QED BY <1>5, <1>6, <1>7, <1>8, Zenon

\* What happens to the entry of one umem.
LEMMA PutRefcount ==
  ASSUME NEW m \in [Umems -> Umem_t], NEW u \in Umems, NEW n \in Nat
  PROVE  /\ [m EXCEPT ![u].refcount = n] \in [Umems -> Umem_t]
         /\ \A w \in Umems \ {u} : [m EXCEPT ![u].refcount = n][w] = m[w]
         /\ [m EXCEPT ![u].refcount = n][u].created = m[u].created
         /\ [m EXCEPT ![u].refcount = n][u].refcount = n
         /\ [m EXCEPT ![u].refcount = n][u].save = m[u].save
BY Zenon DEF Umem_t

\* Changing one context of one umem.
LEMMA CtxPut ==
  ASSUME NEW m \in [Umems -> [Queues -> Ctx_t]], NEW u \in Umems, NEW q \in Queues,
         NEW c \in Ctx_t
  PROVE  /\ [m EXCEPT ![u][q] = c] \in [Umems -> [Queues -> Ctx_t]]
         /\ \A w \in Umems \ {u} : [m EXCEPT ![u][q] = c][w] = m[w]
         /\ [m EXCEPT ![u][q] = c][u] = [m[u] EXCEPT ![q] = c]
BY Zenon

\* The invariant, for every umem but u.
Others(u) == \A w \in Umems \ {u} : UmemOk(w) /\ \A q \in Queues : CtxOk(w, q)

\* A step on one umem leaves the others counted.
LEMMA UmemOthers ==
  ASSUME UmemInv, NEW u,
         \A w \in Umems \ {u} : /\ umem'[w] = umem[w] /\ ctx'[w] = ctx[w]
                                 /\ (w \in unpaired' <=> w \in unpaired),
         \A x \in Sockets : Umem[x] # u => (pc'[x] = "closed" <=> pc[x] = "closed")
  PROVE  Others(u)'
<1>1. ASSUME NEW w \in Umems \ {u}
      PROVE  UmemOk(w)' /\ \A q \in Queues : CtxOk(w, q)'
  <2>1. \A x \in SocketsOf(w) : pc'[x] = "closed" <=> pc[x] = "closed"
    BY Zenon DEF SocketsOf
  <2>2. umem'[w] = umem[w] /\ ctx'[w] = ctx[w] /\ (w \in unpaired' <=> w \in unpaired)
    BY Zenon
  <2>3. UmemOk(w) /\ \A q \in Queues : CtxOk(w, q)
    BY Zenon DEF UmemInv
  <2> QED BY <2>1, <2>2, <2>3, UmemSame, Zenon
<1> QED BY <1>1, Zenon DEF Others

\* One umem and the others are all.
LEMMA UmemAndOthers ==
  ASSUME NEW u, UmemTypes', UmemOk(u)', \A q \in Queues : CtxOk(u, q)', Others(u)'
  PROVE  UmemInv'
BY Zenon DEF UmemInv, Others

\* A step on no umem leaves all of them counted.
LEMMA UmemQuiet ==
  ASSUME UmemInv, Steady, UNCHANGED <<umem, ctx, unpaired>>
  PROVE  UmemInv'
<1>1. ASSUME NEW w \in Umems
      PROVE  UmemOk(w)' /\ \A q \in Queues : CtxOk(w, q)'
  <2>1. \A x \in SocketsOf(w) : pc'[x] = "closed" <=> pc[x] = "closed"
    BY Zenon DEF SocketsOf, Steady
  <2>2. /\ umem'[w] = umem[w] /\ ctx'[w] = ctx[w]
        /\ w \in unpaired' <=> w \in unpaired
    BY Zenon
  <2> QED BY <2>1, <2>2, UmemSame, Zenon DEF UmemInv
<1>2. UmemTypes'
  BY ZenonT(60) DEF UmemInv, UmemTypes
<1> QED BY <1>1, <1>2, Zenon DEF UmemInv

\* A socket that is not closed has its umem and its context.
LEMMA UmemHeld ==
  ASSUME UmemInv, NEW s \in Sockets, pc[s] # "closed"
  PROVE  /\ umem[Umem[s]].refcount \in Nat /\ umem[Umem[s]].refcount > 0
         /\ ctx[Umem[s]][Queue[s]] \in Ctx_t /\ ctx[Umem[s]][Queue[s]].refcount > 0
         /\ umem[Umem[s]].created
<1>0. Umem[s] \in Umems /\ Queue[s] \in Queues
  BY NamesAssumption, Zenon
<1>1. s \in InUse(Umem[s]) /\ s \in OnQueue(Umem[s], Queue[s])
  BY Zenon DEF InUse, OnQueue, SocketsOf
<1> USE <1>1
<1>2. /\ Cardinality(InUse(Umem[s])) # 0 /\ Cardinality(InUse(Umem[s])) \in Nat
  BY InUseFinite, OneLeaves, Zenon
<1>3. /\ Cardinality(OnQueue(Umem[s], Queue[s])) # 0
      /\ Cardinality(OnQueue(Umem[s], Queue[s])) \in Nat
  BY OnQueueFinite, OneLeaves, Zenon
<1>4. UmemOk(Umem[s]) /\ CtxOk(Umem[s], Queue[s])
  BY <1>0, Zenon DEF UmemInv
<1>5. umem[Umem[s]] \in Umem_t /\ ctx[Umem[s]][Queue[s]] \in Ctx_t
  BY <1>0, Zenon DEF UmemInv, UmemTypes
<1>6. umem[Umem[s]].refcount \in Nat /\ ctx[Umem[s]][Queue[s]].refcount \in Nat
  BY <1>5, Zenon DEF Umem_t, Ctx_t
<1>7. umem[Umem[s]].created
  BY <1>4, Zenon DEF UmemOk
<1> QED BY SMTT(40), <1>2, <1>3, <1>4, <1>5, <1>6, <1>7 DEF UmemOk, CtxOk

\* What Close and the failing calls of a socket have in common.
LEMMA UmemGiven ==
  ASSUME UmemInv, Types, NEW s \in Sockets, pc[s] # "closed",
         pc' = [pc EXCEPT ![s] = "closed"], NEW u, u = Umem[s],
         umem' \in [Umems -> Umem_t], \A w \in Umems \ {u} : umem'[w] = umem[w],
         umem'[u].created = umem[u].created, umem'[u].refcount = umem[u].refcount - 1,
         \/ umem'[u].save = umem[u].save /\ unpaired' = unpaired
         \/ unpaired' = unpaired \cup {u},
         ctx' = [ctx EXCEPT ![u][Queue[s]] = PutCtx(@)]
  PROVE  UmemInv'
<1>0. u \in Umems /\ Queue[s] \in Queues
  BY NamesAssumption, Zenon
<1> USE <1>0
<1>1. ctx[u][Queue[s]] \in Ctx_t /\ ctx[u][Queue[s]].refcount > 0
  BY UmemHeld, Zenon
<1>2. PutCtx(ctx[u][Queue[s]]) \in Ctx_t
  BY <1>1, PutCtxRefcount, Zenon
<1>3. /\ ctx' \in [Umems -> [Queues -> Ctx_t]]
      /\ \A w \in Umems \ {u} : ctx'[w] = ctx[w]
      /\ ctx'[u] = [ctx[u] EXCEPT ![Queue[s]] = PutCtx(ctx[u][Queue[s]])]
  BY <1>2, CtxPut, ZenonT(40) DEF UmemInv, UmemTypes
<1> USE <1>3
<1>4. /\ pc'[s] = "closed" /\ \A x \in Sockets \ {s} : pc'[x] = pc[x]
  BY Zenon DEF Types, Callers
<1>5. UmemOk(u)' /\ \A q \in Queues : CtxOk(u, q)'
  <2>1. umem'[u].save = umem[u].save \/ u \in unpaired'
    BY Zenon
  <2>2. u \in unpaired => u \in unpaired'
    BY Zenon
  <2>3. UmemTypes /\ UmemOk(u) /\ \A q \in Queues : CtxOk(u, q)
    BY Zenon DEF UmemInv
  <2> QED BY <1>4, <2>1, <2>2, <2>3, UmemLeft, ZenonT(40)
<1>6. Others(u)'
  <2>1. \A w \in Umems \ {u} : w \in unpaired' <=> w \in unpaired
    BY Zenon
  <2>2. \A x \in Sockets : Umem[x] # u => (pc'[x] = "closed" <=> pc[x] = "closed")
    BY <1>4, Zenon
  <2>3. \A w \in Umems \ {u} : /\ umem'[w] = umem[w] /\ ctx'[w] = ctx[w]
                               /\ (w \in unpaired' <=> w \in unpaired)
    BY <2>1, Zenon
  <2> QED BY <2>2, <2>3, UmemOthers, Zenon
<1>7. UmemTypes'
  BY Zenon DEF UmemTypes
<1> QED BY <1>5, <1>6, <1>7, UmemAndOthers, Zenon

\* Every step keeps umems and contexts counted.
LEMMA NextUmemInv ==
  ASSUME TypeInv, UmemInv, [Next]_vars
  PROVE  UmemInv'
<1>0. Types /\ UmemTypes
  BY Zenon DEF TypeInv, UmemInv
<1> USE <1>0
<1>1. ASSUME NEW u \in Umems, xsk_umem__create(u) PROVE UmemInv'
  <2>1. /\ umem' = [umem EXCEPT ![u] = [created |-> TRUE, refcount |-> 0, save |-> "mapped"]]
        /\ ~ umem[u].created /\ unpaired' = unpaired \ {u} /\ ctx' = ctx /\ pc' = pc
    BY <1>1, Zenon DEF xsk_umem__create
  <2> USE <2>1
  <2>2. /\ umem' \in [Umems -> Umem_t] /\ umem'[u].refcount = 0 /\ umem'[u].save = "mapped"
        /\ \A w \in Umems \ {u} : umem'[w] = umem[w]
    BY Zenon DEF UmemTypes, Umem_t
  <2>3. InUse(u) = {}
    BY Zenon DEF UmemInv, UmemOk
  <2>4. \A x \in SocketsOf(u) : pc'[x] = "closed"
    BY <2>3, Zenon DEF InUse
  <2>5. ASSUME NEW q \in Queues PROVE ctx'[u][q].refcount = 0
    <3>1. OnQueue(u, q) = {}
      BY <2>3, Zenon DEF OnQueue
    <3> QED BY <3>1, FS_EmptySet, Zenon DEF UmemInv, CtxOk
  <2> USE <2>2
  <2>6. UmemOk(u)' /\ \A q \in Queues : CtxOk(u, q)'
    BY <2>4, <2>5, UmemEmpty, Zenon
  <2>7. Others(u)'
    BY UmemOthers, Zenon
  <2> QED BY <2>6, <2>7, Zenon DEF UmemInv, UmemTypes, Others
<1>2. ASSUME NEW u \in Umems, xsk_umem__delete(u) PROVE UmemInv'
  <2>1. /\ umem' = [umem EXCEPT ![u] = NoUmem]
        /\ umem[u].refcount = 0 /\ unpaired' = unpaired /\ ctx' = ctx /\ pc' = pc
    BY <1>2, Zenon DEF xsk_umem__delete, Unused
  <2> USE <2>1
  <2>2. /\ umem' \in [Umems -> Umem_t] /\ umem'[u].refcount = 0 /\ umem'[u].save = "none"
        /\ \A w \in Umems \ {u} : umem'[w] = umem[w]
    BY Zenon DEF UmemTypes, Umem_t, NoUmem
  <2>3. \A x \in SocketsOf(u) : pc[x] = "closed"
    <3> SUFFICES ASSUME NEW x \in Sockets, Umem[x] = u, pc[x] # "closed" PROVE FALSE
      BY Zenon DEF SocketsOf
    <3> QED BY UmemHeld
  <2>4. InUse(u) = {}
    BY <2>3, Zenon DEF InUse
  <2>5. ASSUME NEW q \in Queues PROVE ctx'[u][q].refcount = 0
    <3>1. OnQueue(u, q) = {}
      BY <2>4, Zenon DEF OnQueue
    <3> QED BY <3>1, FS_EmptySet, Zenon DEF UmemInv, CtxOk
  <2> USE <2>2
  <2>6. UmemOk(u)' /\ \A q \in Queues : CtxOk(u, q)'
    BY <2>3, <2>5, UmemEmpty, Zenon
  <2>7. Others(u)'
    BY UmemOthers, Zenon
  <2> QED BY <2>6, <2>7, ZenonT(60) DEF UmemInv, UmemTypes, Others
<1>3. ASSUME NEW u \in Umems, Crash(u) PROVE UmemInv'
  <2>1. /\ umem' = [umem EXCEPT ![u] = NoUmem] /\ unpaired' = unpaired \ {u}
        /\ ctx' = [ctx EXCEPT ![u] = [q \in Queues |-> NoCtx]]
        /\ pc' = [p \in Callers |-> IF p \in SocketsOf(u) THEN "closed" ELSE pc[p]]
    BY <1>3, Zenon DEF Crash
  <2> USE <2>1
  <2>2. /\ umem' \in [Umems -> Umem_t] /\ umem'[u].refcount = 0 /\ umem'[u].save = "none"
        /\ \A w \in Umems \ {u} : umem'[w] = umem[w]
    BY Zenon DEF UmemTypes, Umem_t, NoUmem
  <2> USE <2>2
  <2>3. /\ ctx' \in [Umems -> [Queues -> Ctx_t]] /\ \A q \in Queues : ctx'[u][q].refcount = 0
        /\ \A w \in Umems \ {u} : ctx'[w] = ctx[w]
    BY Zenon DEF UmemTypes, Ctx_t, NoCtx
  <2> USE <2>3
  <2>4. /\ \A x \in SocketsOf(u) : pc'[x] = "closed"
        /\ \A x \in Sockets : Umem[x] # u => pc'[x] = pc[x]
    BY Zenon DEF SocketsOf, Callers
  <2>5. UmemOk(u)' /\ \A q \in Queues : CtxOk(u, q)'
    BY <2>4, UmemEmpty, ZenonT(60)
  <2>6. \A w \in Umems \ {u} : w \in unpaired' <=> w \in unpaired
    BY Zenon
  <2>7. Others(u)'
    BY <2>4, <2>6, UmemOthers, ZenonT(40)
  <2> QED BY <2>5, <2>7, Zenon DEF UmemInv, UmemTypes, Others
<1>4. ASSUME NEW s \in Sockets, Create(s) PROVE UmemInv'
  <2> USE <1>4
  <2> DEFINE u == Umem[s]
  <2>0. u \in Umems /\ Queue[s] \in Queues
    BY NamesAssumption, Zenon
  <2> USE <2>0
  <2> HIDE DEF u
  <2>1. UmemOk(u) /\ (\A q \in Queues : CtxOk(u, q)) /\ umem[u] \in Umem_t
    BY Zenon DEF UmemInv, UmemTypes
  <2>2. GetCtx(s) \in Ctx_t
    <3>1. ctx[u][Queue[s]] \in Ctx_t
      BY Zenon DEF UmemTypes
    <3>2. [refcount |-> 1, mapped |-> umem[u].save # "unmapped"] \in Ctx_t
      BY Zenon DEF Ctx_t
    <3>3. [ctx[u][Queue[s]] EXCEPT !.refcount = @ + 1] \in Ctx_t
      BY <3>1, OneMoreCtx, Zenon
    <3> QED BY <3>2, <3>3, Zenon DEF GetCtx, u
  <2>3. /\ ctx' = [ctx EXCEPT ![u][Queue[s]] = GetCtx(s)] /\ unpaired' = unpaired
        /\ umem[u].created /\ pc[s] = "closed"
    BY Zenon DEF Create, CanCreate, u
  <2>4. /\ ctx' \in [Umems -> [Queues -> Ctx_t]]
        /\ \A w \in Umems \ {u} : ctx'[w] = ctx[w]
        /\ ctx'[u] = [ctx[u] EXCEPT ![Queue[s]] = GetCtx(s)]
    BY <2>2, <2>3, CtxPut, ZenonT(40) DEF UmemTypes
  <2>5. pc'[s] # "closed" /\ \A x \in Sockets \ {s} : pc'[x] = pc[x]
    BY Zenon DEF Create, Goto, Types, Callers
  <2>6. /\ umem' \in [Umems -> Umem_t] /\ \A w \in Umems \ {u} : umem'[w] = umem[w]
        /\ umem'[u].created /\ umem'[u].refcount = umem[u].refcount + 1
        /\ umem'[u].save \in {"none", umem[u].save}
    <3> DEFINE counted == [umem EXCEPT ![u].refcount = umem[u].refcount + 1]
    <3>1. umem[u].refcount + 1 \in Nat
      BY <2>1 DEF Umem_t
    <3>2. /\ counted \in [Umems -> Umem_t] /\ \A w \in Umems \ {u} : counted[w] = umem[w]
          /\ counted[u].created = umem[u].created
          /\ counted[u].refcount = umem[u].refcount + 1
          /\ counted[u].save = umem[u].save
      BY <3>1, PutRefcount DEF UmemTypes
    <3>3. umem' = counted \/ umem' = Created(s, counted)
      BY Zenon DEF Create, u
    <3> HIDE DEF counted
    <3>4. Created(s, counted) = [counted EXCEPT ![u].save = "none"]
      BY Zenon DEF Created, u
    <3>5. /\ Created(s, counted) \in [Umems -> Umem_t]
          /\ \A w \in Umems \ {u} : Created(s, counted)[w] = counted[w]
          /\ Created(s, counted)[u].created = counted[u].created
          /\ Created(s, counted)[u].refcount = counted[u].refcount
          /\ Created(s, counted)[u].save = "none"
      BY SMTT(40), <3>2, <3>4 DEF Umem_t
    <3> QED BY <2>3, <3>2, <3>3, <3>5, Zenon
  <2> USE <2>3, <2>4, <2>6
  <2>7. UmemOk(u)' /\ \A q \in Queues : CtxOk(u, q)'
    BY <2>1, <2>5, UmemJoined, ZenonT(40) DEF u
  <2>8. Others(u)'
    <3>1. \A x \in Sockets : Umem[x] # u => (pc'[x] = "closed" <=> pc[x] = "closed")
      BY <2>5, Zenon DEF u
    <3>2. \A w \in Umems \ {u} : /\ umem'[w] = umem[w] /\ ctx'[w] = ctx[w]
                                 /\ (w \in unpaired' <=> w \in unpaired)
      BY Zenon
    <3> QED BY <3>1, <3>2, UmemOthers, Zenon
  <2>9. UmemTypes'
    BY Zenon DEF UmemTypes
  <2> QED BY <2>7, <2>8, <2>9, UmemAndOthers, Zenon
<1>5. ASSUME NEW s \in Sockets, CreateFails(s) \/ SocketFails(s) PROVE UmemInv'
  <2> USE <1>5
  <2> DEFINE u == Umem[s]
  <2>0. u \in Umems
    BY NamesAssumption, Zenon
  <2> USE <2>0
  <2> HIDE DEF u
  <2>1. UmemOk(u) /\ (\A q \in Queues : CtxOk(u, q)) /\ umem[u] \in Umem_t
    BY Zenon DEF UmemInv, UmemTypes
  <2>2. ctx' = ctx /\ pc' = pc
    BY Zenon DEF CreateFails, SocketFails
  <2> USE <2>2
  <2>3. CASE CreateFails(s) /\ ~ LosesRings(s)
    <3>1. umem' = [umem EXCEPT ![u].save = umem[u].save] /\ unpaired' = unpaired
      BY <2>3, Zenon DEF CreateFails, UnmapSaved, u
    <3>2. umem' = umem
      BY <3>1, Zenon DEF UmemTypes, Umem_t
    <3> QED BY <3>1, <3>2, UmemQuiet, ZenonT(60) DEF Steady
  <2>4. CASE SocketFails(s) \/ (CreateFails(s) /\ LosesRings(s))
    <3> USE <2>4
    <3>1. unpaired' = unpaired \cup {u}
      BY Zenon DEF CreateFails, UnmapSaved, SocketFails, u
    <3>2. \/ umem' = [umem EXCEPT ![u].refcount = umem[u].refcount + 1]
          \/ umem' = [umem EXCEPT ![u].save = "unmapped"]
      BY Zenon DEF CreateFails, UnmapSaved, SocketFails, u
    <3>3. /\ umem' \in [Umems -> Umem_t] /\ \A w \in Umems \ {u} : umem'[w] = umem[w]
          /\ umem'[u].created = umem[u].created /\ umem'[u].refcount \in Nat
          /\ umem'[u].refcount >= umem[u].refcount
      <4>1. umem[u].refcount \in Nat /\ umem[u].refcount + 1 \in Nat
        BY SMTT(40), <2>1 DEF Umem_t
      <4> USE <4>1
      <4>2. CASE umem' = [umem EXCEPT ![u].refcount = umem[u].refcount + 1]
        <5>1. /\ umem' \in [Umems -> Umem_t] /\ \A w \in Umems \ {u} : umem'[w] = umem[w]
              /\ umem'[u].created = umem[u].created
              /\ umem'[u].refcount = umem[u].refcount + 1
          BY SMTT(40), <4>2, PutRefcount DEF UmemTypes
        <5> QED BY <5>1
      <4>3. CASE umem' = [umem EXCEPT ![u].save = "unmapped"]
        <5>1. /\ umem' \in [Umems -> Umem_t] /\ \A w \in Umems \ {u} : umem'[w] = umem[w]
              /\ umem'[u].created = umem[u].created
              /\ umem'[u].refcount = umem[u].refcount
          BY <4>3, Zenon DEF UmemTypes, Umem_t
        <5> QED BY <5>1
      <4> QED BY <3>2, <4>2, <4>3, Zenon
    <3> USE <3>3
    <3>4. UmemOk(u)' /\ \A q \in Queues : CtxOk(u, q)'
      BY <2>1, <3>1, UmemFailed, Zenon
    <3>5. Others(u)'
      BY <3>1, UmemOthers, Zenon
    <3> QED BY <3>4, <3>5, Zenon DEF UmemInv, UmemTypes, Others
  <2> QED BY <2>3, <2>4, Zenon
<1>6. ASSUME NEW s \in Sockets, Close(s) PROVE UmemInv'
  <2> DEFINE u == Umem[s]
  <2>0. u \in Umems
    BY NamesAssumption, Zenon
  <2>1. /\ pc[s] # "closed" /\ pc' = [pc EXCEPT ![s] = "closed"] /\ unpaired' = unpaired
        /\ ctx' = [ctx EXCEPT ![u][Queue[s]] = PutCtx(@)]
        /\ umem' = [umem EXCEPT ![u].refcount = umem[u].refcount - 1]
    BY <1>6, Zenon DEF Close, Goto
  <2> USE <2>1
  <2> HIDE DEF u
  <2>2. umem[u].refcount - 1 \in Nat
    BY UmemHeld DEF u
  <2>3. /\ umem' \in [Umems -> Umem_t] /\ \A w \in Umems \ {u} : umem'[w] = umem[w]
        /\ umem'[u].created = umem[u].created /\ umem'[u].refcount = umem[u].refcount - 1
        /\ umem'[u].save = umem[u].save
    BY SMTT(40), <2>0, <2>2, PutRefcount DEF UmemTypes
  <2> QED BY <2>3, UmemGiven, Zenon DEF u
<1>7. ASSUME NEW s \in Sockets, pc[s] # "closed", SetupFails(s) PROVE UmemInv'
  <2> USE <1>7
  <2> DEFINE u == Umem[s]
             v == IF s \in OwnRings /\ umem[u].save # "none" THEN "unmapped" ELSE umem[u].save
  <2>0. u \in Umems
    BY NamesAssumption, Zenon
  <2>1. /\ pc' = [pc EXCEPT ![s] = "closed"]
        /\ ctx' = [ctx EXCEPT ![u][Queue[s]] = PutCtx(@)]
        /\ umem' = [umem EXCEPT ![u].refcount = umem[u].refcount - 1, ![u].save = v]
        /\ \/ v = umem[u].save /\ unpaired' = unpaired
           \/ unpaired' = unpaired \cup {u}
    BY Zenon DEF SetupFails, Abandon, Goto
  <2> USE <2>1
  <2>2. v \in {"none", "mapped", "unmapped"}
    BY <2>0, ZenonT(60) DEF UmemTypes, Umem_t
  <2> HIDE DEF u, v
  <2>3. umem[u].refcount - 1 \in Nat
    BY UmemHeld DEF u
  <2>4. /\ umem' \in [Umems -> Umem_t] /\ \A w \in Umems \ {u} : umem'[w] = umem[w]
        /\ umem'[u].created = umem[u].created /\ umem'[u].refcount = umem[u].refcount - 1
        /\ umem'[u].save = v
    BY <2>0, <2>2, <2>3, Zenon DEF UmemTypes, Umem_t
  <2>5. \/ umem'[u].save = umem[u].save /\ unpaired' = unpaired
        \/ unpaired' = unpaired \cup {u}
    BY <2>4, Zenon
  <2> QED BY <2>4, <2>5, UmemGiven, Zenon DEF u
<1>8. ASSUME NEW p \in Callers, Setup(p) PROVE UmemInv'
  <2>1. CASE UpdateMap(p) /\ p \in Sockets
    <3> USE <2>1
    <3> DEFINE u == Umem[p]
    <3>0. u \in Umems /\ umem' = [umem EXCEPT ![u].save = "none"]
      BY NamesAssumption, Zenon DEF UpdateMap, Created
    <3>1. UNCHANGED <<ctx, unpaired>> /\ Steady
      BY Zenon DEF UpdateMap, Goto, Steady, Types, Callers
    <3> USE <3>1
    <3> HIDE DEF u
    <3>3. /\ umem' \in [Umems -> Umem_t] /\ \A w \in Umems \ {u} : umem'[w] = umem[w]
          /\ umem'[u].created = umem[u].created /\ umem'[u].refcount = umem[u].refcount
          /\ umem'[u].save = "none"
      BY <3>0, Zenon DEF UmemTypes, Umem_t
    <3> USE <3>3
    <3>4. /\ InUse(u)' = InUse(u) /\ \A q : OnQueue(u, q)' = OnQueue(u, q)
      BY InUseSame, Zenon DEF Steady, SocketsOf
    <3>5. UmemOk(u) /\ \A q \in Queues : CtxOk(u, q)
      BY <3>0, Zenon DEF UmemInv
    <3>6. UmemOk(u)'
      BY <3>4, <3>5, Zenon DEF UmemOk
    <3>7. \A q \in Queues : CtxOk(u, q)'
      BY <3>4, <3>5, Zenon DEF CtxOk
    <3>8. Others(u)'
      BY UmemOthers, Zenon DEF Steady
    <3>9. UmemTypes'
      BY Zenon DEF UmemTypes
    <3> QED BY <3>6, <3>7, <3>8, <3>9, UmemAndOthers, ZenonT(60)
  <2>2. CASE (GivesUp(p) \/ FailsCounted(p)) /\ p \in Sockets
    BY <1>7, <2>2, Zenon DEF GivesUp, FailsCounted
  <2>3. CASE (GivesUp(p) \/ FailsCounted(p) \/ UpdateMap(p)) /\ p \notin Sockets
    <3> USE <2>3
    <3>1. UNCHANGED <<umem, ctx, unpaired>>
      BY Zenon DEF GivesUp, FailsCounted, SetupFails, UpdateMap, procvars
    <3>2. Steady
      BY Zenon DEF GivesUp, FailsCounted, SetupFails, UpdateMap, Goto, Steady, Types, Callers
    <3> QED BY <3>1, <3>2, UmemQuiet, Zenon
  <2>4. CASE \/ Lookup(p) \/ ReadRefcnt(p, "incr", "incr2") \/ IncrRefcnt(p)
             \/ Attach(p) \/ LookupMisses(p)
    <3> USE <2>4
    <3>1. UNCHANGED <<umem, ctx, unpaired>>
      BY ZenonT(40) DEF Lookup, ReadRefcnt, IncrRefcnt, Attach, LookupMisses, procvars
    <3>2. Steady
      BY ZenonT(40) DEF Lookup, ReadRefcnt, IncrRefcnt, Attach, LookupMisses, Goto, Steady, Types, Callers
    <3> QED BY <3>1, <3>2, UmemQuiet, Zenon
  <2> QED BY <1>8, <2>1, <2>2, <2>3, <2>4, ZenonT(60) DEF Setup
<1>9. ASSUME NEW s \in Sockets,
             \/ xsk_delete_map_entry(s) \/ ReadRefcnt(s, "decr", "decr2") \/ DecrRefcnt(s)
             \/ DecrFails(s) \/ Detach(s) \/ Overwritten(s)
      PROVE  UmemInv'
  <2> USE <1>9
  <2>1. UNCHANGED <<umem, ctx, unpaired>>
    BY Zenon
    DEF xsk_delete_map_entry, ReadRefcnt, DecrRefcnt, DecrFails, Detach, Overwritten, procvars
  <2>2. Steady
    BY Zenon
    DEF xsk_delete_map_entry, ReadRefcnt, DecrRefcnt, DecrFails, Detach, Overwritten, Goto,
        Steady, Types, Callers
  <2> QED BY <2>1, <2>2, UmemQuiet, Zenon
<1>10. ASSUME NEW s \in Sockets, NEW c \in Controls, xsk_socket__update_xskmap(s, c)
       PROVE  UmemInv'
  BY <1>10, UmemQuiet, Zenon DEF xsk_socket__update_xskmap, procvars, Steady
<1>11. CASE UNCHANGED vars
  BY <1>11, UmemQuiet, Zenon DEF vars, procvars, Steady
<1> QED
  BY <1>1, <1>2, <1>3, <1>4, <1>5, <1>6, <1>8, <1>9, <1>10, <1>11, ZenonT(40)
  DEF Next, Step, Delete

\* Umems and contexts are counted at all times.
LEMMA SocketUmems == Spec => []UmemInv
BY InitUmemInv, NextUmemInv, SocketCounts, PTL DEF Spec

\* TypeOK: the counts of umems and contexts never go below 0.
THEOREM SocketTypeOK == Spec => []TypeOK
<1>1. TypeInv /\ UmemInv => TypeOK
  BY Zenon DEF TypeInv, Types, UmemInv, UmemTypes, Umem_t, Ctx_t, TypeOK, Labels, Running, Deleting
<1> QED BY <1>1, SocketCounts, SocketUmems, PTL

\* UmemCounted: umem->refcount is the number of sockets on the umem, through
\* every path that opens a socket, closes one or fails halfway; after a failed
\* socket() it is at least that number.
THEOREM SocketUmemCounted == Spec => []UmemCounted
<1>1. UmemInv => UmemCounted
  BY Zenon DEF UmemInv, UmemOk, UmemCounted
<1> QED BY <1>1, SocketUmems, PTL

\* RingsMapped: xsk_put_ctx unmaps the rings of a context with its last socket.
THEOREM SocketRingsMapped == Spec => []RingsMapped
<1>1. ASSUME UmemInv PROVE RingsMapped
  <2> USE <1>1
  <2> SUFFICES ASSUME NEW s \in Sockets, pc[s] # "closed", Umem[s] \notin unpaired
               PROVE  ctx[Umem[s]][Queue[s]].mapped
    BY Zenon DEF RingsMapped
  <2>1. ctx[Umem[s]][Queue[s]].refcount > 0
    BY UmemHeld, Zenon
  <2> QED BY <2>1, NamesAssumption, Zenon DEF UmemInv, CtxOk
<1> QED BY <1>1, SocketUmems, PTL

-----------------------------------------------------------------------------
(* Queues and maps *)

\* A socket's fd is its own or its umem's.
LEMMA FdFacts ==
  ASSUME NEW s \in Sockets
  PROVE  /\ Fd(s) \in Fds /\ UmemOfFd(Fd(s)) = Umem[s]
         /\ Fd(s) \in Sockets <=> own[s]
         /\ own[s] => Fd(s) = s
         /\ ~ own[s] => Fd(s) = Umem[s]
         /\ Umem[s] \in Umems /\ Umem[s] \notin Sockets /\ Queue[s] \in Queues
BY NamesAssumption, Zenon DEF Fd, Fds, UmemOfFd

\* At first nothing is bound and no map has an entry.
LEMMA InitBindInv == Init => BindInv /\ OwnInv /\ MapInv
<1> SUFFICES ASSUME Init PROVE BindInv /\ OwnInv /\ MapInv
  BY Zenon
<1>1. \A s \in Sockets : pc[s] = "closed" /\ xdp_prog[s] = None /\ map[s] = None
  BY SMTT(40), NamesAssumption DEF Init, Callers
<1>2. BindInv
  BY <1>1, NamesAssumption DEF Init, BindInv, Bound, OneUmem, Fds
<1>3. OwnInv
  BY <1>1, Zenon DEF OwnInv, Own, Alone, Deleting
<1>4. MapInv
  BY <1>1 DEF Init, MapInv, EntryOk, Served
<1> QED BY <1>2, <1>3, <1>4, Zenon

\* A step that creates and deletes no socket leaves the bindings alone.
LEMMA BindQuiet ==
  ASSUME BindInv, Steady, UNCHANGED <<own, bound>>
  PROVE  BindInv'
<1>1. ASSUME NEW s \in Sockets PROVE Bound(s)'
  <2>1. Fd(s)' = Fd(s)
    BY Zenon DEF Fd
  <2> QED BY <2>1, Zenon DEF BindInv, Bound, Steady
<1>2. ASSUME NEW f \in Fds, NEW h \in Fds PROVE OneUmem(f, h)'
  BY Zenon DEF BindInv, OneUmem, UmemOfFd
<1> QED BY <1>1, <1>2, Zenon DEF BindInv

\* File descriptors are closed, and with them the sockets that had them.
LEMMA BindReleased ==
  ASSUME BindInv, NEW fs, Release(fs),
         \A s \in Sockets : pc'[s] # "closed" =>
           pc[s] # "closed" /\ own'[s] = own[s] /\ Fd(s) \notin fs
  PROVE  BindInv'
<1>1. ASSUME NEW s \in Sockets PROVE Bound(s)'
  <2> SUFFICES ASSUME pc'[s] # "closed" PROVE bound'[Fd(s)'] = Queue[s]
    BY Zenon DEF Bound
  <2>1. Fd(s)' = Fd(s) /\ bound[Fd(s)] = Queue[s] /\ Fd(s) \notin fs
    BY Zenon DEF Fd, BindInv, Bound
  <2>2. bound'[Fd(s)] = bound[Fd(s)]
    BY <2>1, FdFacts, Zenon DEF Release
  <2> QED BY <2>1, <2>2, Zenon
<1>2. ASSUME NEW f \in Fds, NEW h \in Fds PROVE OneUmem(f, h)'
  <2> SUFFICES ASSUME bound'[f] # None, bound'[f] = bound'[h]
               PROVE  UmemOfFd(f) = UmemOfFd(h)
    BY Zenon DEF OneUmem, UmemOfFd
  <2>1. bound'[f] = bound[f] /\ bound'[h] = bound[h]
    BY Zenon DEF Release
  <2> QED BY <2>1, Zenon DEF BindInv, OneUmem
<1> QED BY <1>1, <1>2, Zenon DEF BindInv

\* A socket is bound to a queue that no other umem has.
LEMMA CreateBinds ==
  ASSUME Types, UmemInv, BindInv, NEW s \in Sockets, Create(s)
  PROVE  BindInv'
<1> DEFINE u == Umem[s]
           fd == IF umem[u].refcount > 0 THEN s ELSE u
<1>0. /\ u \in Umems /\ u \notin Sockets /\ Queue[s] \in Queues /\ UmemOfFd(u) = u
      /\ UmemOfFd(s) = u /\ None \notin Queues
  BY FdFacts, NamesAssumption, Zenon DEF UmemOfFd
<1> USE <1>0
<1>1. /\ pc[s] = "closed" /\ BindOk(s) /\ own'[s] = (umem[u].refcount > 0)
      /\ \A t \in Sockets \ {s} : own'[t] = own[t] /\ pc'[t] = pc[t]
      /\ bound' = [bound EXCEPT ![fd] = Queue[s]]
  BY Zenon DEF Create, CanCreate, Goto, Types, Callers
<1> USE <1>1
<1>2. fd \in Fds /\ UmemOfFd(fd) = u /\ Fd(s)' = fd
  BY Zenon DEF Fds, Fd
<1> USE <1>2
<1>3. /\ bound'[fd] = Queue[s]
      /\ \A f \in Fds \ {fd} : bound'[f] = bound[f]
  BY ZenonT(60) DEF Types
<1> USE <1>3
<1>4. ASSUME NEW t \in Sockets PROVE Bound(t)'
  <2>1. CASE t = s
    BY <2>1, ZenonT(60) DEF Bound
  <2>2. CASE t # s
    <3> USE <2>2
    <3> SUFFICES ASSUME pc'[t] # "closed" PROVE bound'[Fd(t)'] = Queue[t]
      BY Zenon DEF Bound
    <3>1. pc[t] # "closed" /\ Fd(t)' = Fd(t)
      BY Zenon DEF Fd
    <3>2. Fd(t) # fd
      <4>1. Fd(t) # s
        BY FdFacts, Zenon
      <4>2. umem[u].refcount > 0 \/ Umem[t] # u
        BY <3>1, UmemHeld, Zenon
      <4>3. ~ (umem[u].refcount > 0) => Fd(t) # u
        BY <4>2, FdFacts, Zenon
      <4> QED BY <4>1, <4>3, Zenon
    <3> QED BY SMTT(40), <3>1, <3>2, FdFacts DEF BindInv, Bound
  <2> QED BY <2>1, <2>2
<1> HIDE DEF fd, u
<1>5. ASSUME NEW h \in Fds, h # fd, bound'[h] = Queue[s] PROVE UmemOfFd(h) = u
  <2>1. bound[h] = Queue[s]
    BY <1>5, Zenon
  <2>2. bound[u] # None /\ bound[u] = Queue[s]
    BY <2>1, Zenon DEF BindOk, u
  <2>3. OneUmem(u, h)
    BY Zenon DEF BindInv, Fds
  <2> QED BY <2>1, <2>2, <2>3, Zenon DEF OneUmem
<1>6. ASSUME NEW f \in Fds, NEW h \in Fds PROVE OneUmem(f, h)'
  <2> SUFFICES ASSUME bound'[f] # None, bound'[f] = bound'[h]
               PROVE  UmemOfFd(f) = UmemOfFd(h)
    BY Zenon DEF OneUmem, UmemOfFd
  <2>1. CASE f # fd /\ h # fd
    <3>1. bound[f] # None /\ bound[f] = bound[h]
      BY <2>1, Zenon
    <3> QED BY <3>1, Zenon DEF BindInv, OneUmem
  <2>2. CASE f = fd /\ h # fd
    BY <1>5, <2>2, Zenon
  <2>3. CASE f # fd /\ h = fd
    BY <1>5, <2>3, ZenonT(40)
  <2> QED BY <2>1, <2>2, <2>3, Zenon
<1> QED BY <1>4, <1>6, Zenon DEF BindInv

\* Every step keeps a queue with one umem.
LEMMA NextBindInv ==
  ASSUME TypeInv, UmemInv, BindInv, [Next]_vars
  PROVE  BindInv'
<1>0. Types
  BY Zenon DEF TypeInv
<1> USE <1>0
<1>1. ASSUME NEW u \in Umems, xsk_umem__delete(u) PROVE BindInv'
  <2>1. umem[u].refcount = 0 /\ Release({u}) /\ UNCHANGED <<pc, own>>
    BY <1>1, Zenon DEF xsk_umem__delete, Unused
  <2>2. ASSUME NEW s \in Sockets, pc[s] # "closed" PROVE Fd(s) # u
    <3>1. Umem[s] # u
      BY <2>1, <2>2, UmemHeld
    <3> QED BY <3>1, FdFacts, NamesAssumption, ZenonT(40)
  <2> QED BY <2>1, <2>2, BindReleased, Zenon
<1>2. ASSUME NEW u \in Umems, Crash(u) PROVE BindInv'
  <2> USE <1>2
  <2>1. Release(SocketsOf(u) \cup {u})
    BY Zenon DEF Crash
  <2>2. ASSUME NEW s \in Sockets, pc'[s] # "closed"
        PROVE  pc[s] # "closed" /\ own'[s] = own[s] /\ Fd(s) \notin SocketsOf(u) \cup {u}
    <3> USE <2>2
    <3>1. s \notin SocketsOf(u)
      BY Zenon DEF Crash, Callers
    <3> USE <3>1
    <3>2. pc'[s] = pc[s]
      BY Zenon DEF Crash, Callers
    <3>3. own'[s] = own[s]
      BY Zenon DEF Crash, Types
    <3> QED BY <3>2, <3>3, FdFacts, NamesAssumption, ZenonT(40) DEF SocketsOf
  <2> QED BY <2>1, <2>2, BindReleased, Zenon
<1>3. ASSUME NEW s \in Sockets, Create(s) PROVE BindInv'
  BY <1>3, CreateBinds, Zenon
<1>4. ASSUME NEW s \in Sockets, pc' = [pc EXCEPT ![s] = "closed"],
             \A t \in Sockets \ {s} : own'[t] = own[t],
             Release(IF own[s] THEN {s} ELSE {})
      PROVE  BindInv'
  <2> USE <1>4
  <2>1. ASSUME NEW t \in Sockets, pc'[t] # "closed"
        PROVE  /\ pc[t] # "closed" /\ own'[t] = own[t]
               /\ Fd(t) \notin IF own[s] THEN {s} ELSE {}
    <3> USE <2>1
    <3>1. t # s /\ pc'[t] = pc[t]
      BY Zenon DEF Types, Callers
    <3> QED BY <3>1, FdFacts, Zenon
  <2> QED BY <2>1, BindReleased, Zenon
<1>5. ASSUME NEW s \in Sockets, Close(s) PROVE BindInv'
  <2> USE <1>5
  <2>1. pc' = [pc EXCEPT ![s] = "closed"] /\ Release(IF own[s] THEN {s} ELSE {})
    BY Zenon DEF Close, Goto
  <2>2. \A t \in Sockets \ {s} : own'[t] = own[t]
    BY Zenon DEF Close, Types
  <2> QED BY <1>4, <2>1, <2>2, Zenon
<1>6. ASSUME NEW s \in Sockets, SetupFails(s) PROVE BindInv'
  <2>1. pc' = [pc EXCEPT ![s] = "closed"] /\ Release(IF own[s] THEN {s} ELSE {}) /\ own' = own
    BY <1>6, Zenon DEF SetupFails, Abandon, Goto
  <2> QED BY <1>4, <2>1, Zenon
<1>7. ASSUME NEW p \in Callers, Setup(p) PROVE BindInv'
  <2>1. CASE (GivesUp(p) \/ FailsCounted(p)) /\ p \in Sockets
    BY <1>6, <2>1, Zenon DEF GivesUp, FailsCounted
  <2>2. CASE (GivesUp(p) \/ FailsCounted(p)) /\ p \notin Sockets
    <3> USE <2>2
    <3>1. UNCHANGED <<own, bound>>
      BY Zenon DEF GivesUp, FailsCounted, SetupFails, procvars
    <3>2. Steady
      BY Zenon DEF GivesUp, FailsCounted, SetupFails, Goto, Steady, Types, Callers
    <3> QED BY <3>1, <3>2, BindQuiet, Zenon
  <2>3. CASE \/ Lookup(p) \/ ReadRefcnt(p, "incr", "incr2") \/ IncrRefcnt(p)
             \/ Attach(p) \/ LookupMisses(p) \/ UpdateMap(p)
    <3> USE <2>3
    <3>1. UNCHANGED <<own, bound>>
      BY ZenonT(40) DEF Lookup, ReadRefcnt, IncrRefcnt, Attach, LookupMisses, UpdateMap, procvars
    <3>2. Steady
      BY ZenonT(40) DEF Lookup, ReadRefcnt, IncrRefcnt, Attach, LookupMisses, UpdateMap, Goto, Steady, Types,
          Callers
    <3> QED BY <3>1, <3>2, BindQuiet, Zenon
  <2> QED BY <1>7, <2>1, <2>2, <2>3, Zenon DEF Setup
<1>8. ASSUME NEW s \in Sockets,
             \/ xsk_delete_map_entry(s) \/ ReadRefcnt(s, "decr", "decr2") \/ DecrRefcnt(s)
             \/ DecrFails(s) \/ Detach(s) \/ Overwritten(s)
      PROVE  BindInv'
  <2> USE <1>8
  <2>1. UNCHANGED <<own, bound>>
    BY Zenon
    DEF xsk_delete_map_entry, ReadRefcnt, DecrRefcnt, DecrFails, Detach, Overwritten, procvars
  <2>2. Steady
    BY Zenon
    DEF xsk_delete_map_entry, ReadRefcnt, DecrRefcnt, DecrFails, Detach, Overwritten, Goto,
        Steady, Types, Callers
  <2> QED BY <2>1, <2>2, BindQuiet, Zenon
<1>9. CASE UNCHANGED <<pc, own, bound>>
  BY <1>9, BindQuiet, Zenon DEF Steady
<1> QED
  BY Zenon, <1>1, <1>2, <1>3, <1>5, <1>7, <1>8, <1>9
  DEF Next, Step, Delete, vars, procvars, xsk_umem__create, CreateFails, SocketFails,
      xsk_socket__update_xskmap

\* A umem is contended until its sockets are closed.
LEMMA ContendedStays ==
  ASSUME TypeInv, UmemInv, [Next]_vars, NEW x \in Sockets, Umem[x] \in contended
  PROVE  Umem[x] \in contended' \/ pc'[x] = "closed"
<1>0. Types /\ Umem[x] \in Umems
  BY NamesAssumption, Zenon DEF TypeInv
<1> USE <1>0
<1>1. ASSUME NEW u \in Umems, xsk_umem__delete(u), Umem[x] = u PROVE pc'[x] = "closed"
  <2>1. umem[u].refcount = 0 /\ pc' = pc
    BY <1>1, Zenon DEF xsk_umem__delete, Unused
  <2> QED BY SMTT(40), <1>1, <2>1, UmemHeld
<1>2. ASSUME NEW u \in Umems, Crash(u), Umem[x] = u PROVE pc'[x] = "closed"
  BY <1>2, ZenonT(60) DEF Crash, SocketsOf, Callers
<1>3. \/ contended \subseteq contended'
      \/ \E u \in Umems : /\ xsk_umem__delete(u) \/ Crash(u)
                          /\ contended' = contended \ {u}
  BY ZenonT(60)
  DEF Next, Step, Setup, Delete, vars, procvars, xsk_umem__create, xsk_umem__delete, Crash,
      Create, CreateFails, SocketFails, xsk_socket__update_xskmap, Lookup, ReadRefcnt,
      IncrRefcnt, Attach, UpdateMap, LookupMisses, GivesUp, FailsCounted, SetupFails, Abandon,
      Overwritten, xsk_delete_map_entry, DecrRefcnt, DecrFails, Detach, Close
<1> QED BY <1>1, <1>2, <1>3, Zenon

\* A socket that is left alone keeps what it has.
LEMMA OwnOn ==
  ASSUME NEW s \in Sockets, Own(s), Umem[s] \in contended => Umem[s] \in contended',
         pc'[s] = pc[s], xdp_prog'[s] = xdp_prog[s], map'[s] = map[s],
         map[s] # None /\ lost[map[s]] > 0 => lost'[map[s]] > 0
  PROVE  Own(s)'
BY Zenon DEF Own

\* Nobody is closed that was not, and no umem stops being contended.
LEMMA AloneOn ==
  ASSUME NEW s \in Sockets, NEW t \in Sockets, Alone(s, t),
         pc[s] = "closed" => pc'[s] = "closed", pc[t] = "closed" => pc'[t] = "closed",
         Umem[s] \in contended => Umem[s] \in contended' \/ pc'[s] = "closed"
  PROVE  Alone(s, t)'
BY Zenon DEF Alone

\* Every step keeps what sockets have that contend with no other.
LEMMA NextOwn ==
  ASSUME TypeInv, TypeInv', AttachInv, UmemInv, OwnInv, [Next]_vars, NEW x \in Sockets
  PROVE  Own(x)'
<1>0. /\ Types /\ Own(x) /\ Holds(x) /\ Holds(x)' /\ x \in Callers
      /\ None \notin Progs /\ Sockets \cap Controls = {}
  BY NamesAssumption, Zenon DEF TypeInv, OwnInv, Callers
<1> USE <1>0
<1>1. map[x] # None /\ lost[map[x]] > 0 => lost'[map[x]] > 0
  BY LostStays, Zenon DEF Types
<1> USE <1>1
<1>2. CASE pc'[x] = "closed"
  <2>1. Holds(x)' => Own(x)'
    BY <1>2, Zenon DEF Own, Holds, Deleting
  <2> QED BY <2>1, Zenon
<1>3. ASSUME pc'[x] # "closed"
      PROVE  Umem[x] \in contended => Umem[x] \in contended'
  BY <1>3, ContendedStays, Zenon
<1>4. CASE pc'[x] = pc[x] /\ xdp_prog'[x] = xdp_prog[x] /\ map'[x] = map[x]
  BY <1>2, <1>3, <1>4, OwnOn, Zenon
<1>5. ASSUME Create(x) PROVE Own(x)'
  <2>1. xdp_prog'[x] = None /\ map'[x] = None
    BY <1>5, Zenon DEF Create, CanCreate, callvars, Holds, Deleting
  <2>2. \/ x \in Inhibit /\ pc'[x] = "open"
        \/ x \notin Inhibit /\ pc'[x] = "lookup"
    BY <1>5, Zenon DEF Create, Goto, Types
  <2> QED BY <2>1, <2>2, Zenon DEF Own, Deleting
<1>6. ASSUME NEW c \in Controls, xsk_socket__update_xskmap(x, c) PROVE Own(x)'
  <2>1. c \in Callers /\ Stays(c)
    BY Zenon DEF AttachInv, Callers
  <2>2. /\ pc[x] = "open" /\ UNCHANGED <<pc, xdp_prog, lost, contended>> /\ x \in Inhibit
        /\ map'[x] = map[c] /\ map[c] # None
    BY <1>6, Zenon DEF xsk_socket__update_xskmap, procvars, Types
  <2> QED BY <2>1, <2>2, Zenon DEF Own, Stays
<1>7. ASSUME Setup(x) PROVE Own(x)'
  <2>1. pc[x] \in Running
    BY <1>7, ZenonT(60)
    DEF Setup, Lookup, ReadRefcnt, IncrRefcnt, Attach, UpdateMap, LookupMisses, GivesUp,
        FailsCounted, Running
  <2>2. x \notin Inhibit
    BY <2>1, Zenon DEF Holds, Running, Deleting
  <2>3. CASE UpdateMap(x)
    <3>1. xdp_prog'[x] # None /\ map'[x] = xdp_prog'[x]
      BY <2>3, Zenon DEF UpdateMap, Holds, Types
    <3> QED BY <2>2, <3>1, Zenon DEF Own
  <2>4. CASE ~ UpdateMap(x)
    <3>1. pc'[x] \in Running \cup {"closed"}
      BY <1>7, <2>4, ZenonT(60)
      DEF Setup, Lookup, ReadRefcnt, IncrRefcnt, Attach, LookupMisses, GivesUp, FailsCounted,
          SetupFails, Goto, Types, Running
    <3> QED BY <2>2, <3>1, Zenon DEF Own, Running, Deleting
  <2> QED BY <2>3, <2>4, Zenon
<1>8. ASSUME Delete(x) PROVE Own(x)'
  <2>1. CASE Overwritten(x)
    BY <2>1, Zenon DEF Overwritten, procvars, Own
  <2>2. CASE Close(x)
    BY <1>2, <2>2, Zenon DEF Close, Goto, Types
  <2>3. ASSUME ~ Overwritten(x), ~ Close(x) PROVE Own(x)'
    <3>1. /\ UNCHANGED <<xdp_prog, map, contended>> /\ xdp_prog[x] # None
          /\ pc[x] \in {"open"} \cup Deleting
      BY <1>8, <2>3, ZenonT(60)
      DEF Delete, xsk_delete_map_entry, ReadRefcnt, DecrRefcnt, DecrFails, Detach, procvars,
          callvars, Holds, Deleting
    <3> QED BY <3>1, Zenon DEF Own
  <2> QED BY <2>1, <2>2, <2>3, Zenon
<1>9. ASSUME ~ Create(x), \A c \in Controls : ~ xsk_socket__update_xskmap(x, c), ~ Setup(x),
             ~ Delete(x), pc'[x] # "closed"
      PROVE  pc'[x] = pc[x] /\ xdp_prog'[x] = xdp_prog[x] /\ map'[x] = map[x]
  <2> USE <1>9
  <2>1. CASE UNCHANGED <<pc, xdp_prog, map>>
    BY <2>1, Zenon
  <2>2. ASSUME NEW u \in Umems, Crash(u)
        PROVE  pc'[x] = pc[x] /\ xdp_prog'[x] = xdp_prog[x] /\ map'[x] = map[x]
    BY <2>2, Zenon DEF Crash
  <2>3. ASSUME NEW s \in Sockets, Create(s)
        PROVE  pc'[x] = pc[x] /\ xdp_prog'[x] = xdp_prog[x] /\ map'[x] = map[x]
    BY <2>3, Zenon DEF Create, Goto, callvars, Types
  <2>4. ASSUME NEW s \in Sockets, NEW c \in Controls, xsk_socket__update_xskmap(s, c)
        PROVE  pc'[x] = pc[x] /\ xdp_prog'[x] = xdp_prog[x] /\ map'[x] = map[x]
    BY <2>4, Zenon DEF xsk_socket__update_xskmap, Types
  <2>5. ASSUME NEW p \in Callers, Setup(p)
        PROVE  pc'[x] = pc[x] /\ xdp_prog'[x] = xdp_prog[x] /\ map'[x] = map[x]
    <3> USE <2>5
    <3>1. x # p
      BY Zenon
    <3>2. CASE SetupFails(p)
      BY <3>1, <3>2, Zenon DEF SetupFails, Goto, Types
    <3>3. CASE ~ SetupFails(p)
      BY <3>1, <3>3, AttachLocal, ZenonT(60)
      DEF Setup, Lookup, ReadRefcnt, IncrRefcnt, UpdateMap, LookupMisses, GivesUp,
          FailsCounted, Goto, callvars, Types
    <3> QED BY <3>2, <3>3, Zenon
  <2>6. ASSUME NEW s \in Sockets, Delete(s)
        PROVE  pc'[x] = pc[x] /\ xdp_prog'[x] = xdp_prog[x] /\ map'[x] = map[x]
    <3>1. x # s
      BY <2>6, Zenon
    <3> QED BY <2>6, <3>1, ZenonT(60)
        DEF Delete, Overwritten, xsk_delete_map_entry, ReadRefcnt, DecrRefcnt, DecrFails,
            Detach, Close, Goto, callvars, Types
  <2> QED
    BY ZenonT(60), <2>1, <2>2, <2>3, <2>4, <2>5, <2>6
    DEF Next, Step, vars, callvars, xsk_umem__create, xsk_umem__delete, CreateFails, SocketFails
<1> QED BY <1>2, <1>4, <1>5, <1>6, <1>7, <1>8, <1>9, ZenonT(60)

\* A socket that joins another on a context contends for it, or neither loads the
\* program.
LEMMA NextAlone ==
  ASSUME TypeInv, UmemInv, OwnInv, [Next]_vars, NEW x \in Sockets, NEW y \in Sockets
  PROVE  Alone(x, y)'
<1>0. Types /\ Alone(x, y) /\ Alone(y, x) /\ Umem[x] \in Umems
  BY NamesAssumption, Zenon DEF TypeInv, OwnInv
<1> USE <1>0
<1>1. ASSUME NEW s \in Sockets, Create(s) PROVE Alone(x, y)'
  <2> SUFFICES ASSUME x # y, pc'[x] # "closed", pc'[y] # "closed", Umem[x] = Umem[y],
                      Queue[x] = Queue[y], Umem[x] \notin contended'
               PROVE  x \in Inhibit /\ y \in Inhibit
    BY Zenon DEF Alone
  <2>1. /\ \A t \in Sockets \ {s} : pc'[t] = pc[t]
        /\ pc[s] = "closed"
    BY <1>1, Zenon DEF Create, CanCreate, Goto, Types, Callers
  <2>2. /\ Umem[x] \notin contended
        /\ Umem[x] = Umem[s] => ~ Contends(s)
    BY <1>1, Zenon DEF Create
  <2>3. CASE x # s /\ y # s
    BY <2>1, <2>2, <2>3, Zenon DEF Alone
  <2>4. ASSUME NEW t \in Sockets, t # s, pc[t] # "closed", Umem[t] = Umem[s],
               Queue[t] = Queue[s], ~ Contends(s)
        PROVE  s \in Inhibit /\ t \in Inhibit
    BY <2>4, Zenon DEF Contends, InUse, SocketsOf
  <2> QED BY <2>1, <2>2, <2>3, <2>4, ZenonT(60)
<1>2. ASSUME \A s \in Sockets : ~ Create(s)
      PROVE  /\ pc[x] = "closed" => pc'[x] = "closed"
             /\ pc[y] = "closed" => pc'[y] = "closed"
  <2> SUFFICES ASSUME NEW t \in Sockets, pc[t] = "closed" PROVE pc'[t] = "closed"
    BY Zenon
  <2>1. CASE UNCHANGED pc
    BY <2>1, Zenon
  <2>2. ASSUME NEW u \in Umems, Crash(u) PROVE pc'[t] = "closed"
    BY <2>2, Zenon DEF Crash, Callers
  <2>3. ASSUME NEW p \in Callers, pc[p] # "closed", \E l : pc' = [pc EXCEPT ![p] = l]
        PROVE  pc'[t] = "closed"
    BY <2>3, Zenon DEF Types, Callers
  <2>4. ASSUME NEW p \in Callers, Setup(p) PROVE pc'[t] = "closed"
    <3>1. pc[p] # "closed" /\ \E l : pc' = [pc EXCEPT ![p] = l]
      BY <2>4, ZenonT(60)
      DEF Setup, Lookup, ReadRefcnt, IncrRefcnt, Attach, UpdateMap, LookupMisses, GivesUp,
          FailsCounted, SetupFails, Goto
    <3> QED BY <2>3, <3>1, Zenon
  <2>5. ASSUME NEW p \in Sockets, Delete(p) PROVE pc'[t] = "closed"
    <3>1. UNCHANGED pc \/ (pc[p] # "closed" /\ \E l : pc' = [pc EXCEPT ![p] = l])
      BY <2>5, ZenonT(60)
      DEF Delete, Overwritten, xsk_delete_map_entry, ReadRefcnt, DecrRefcnt, DecrFails,
          Detach, Close, Goto
    <3> QED BY <2>1, <2>3, <3>1, Zenon DEF Callers
  <2> QED
    BY ZenonT(60), <1>2, <2>1, <2>2, <2>4, <2>5
    DEF Next, Step, vars, xsk_umem__create, xsk_umem__delete, CreateFails, SocketFails,
        xsk_socket__update_xskmap
<1>3. Umem[x] \in contended => Umem[x] \in contended' \/ pc'[x] = "closed"
  BY ContendedStays, Zenon
<1> QED BY <1>1, <1>2, <1>3, AloneOn, ZenonT(60)

\* Two sockets on one queue have one context; neither loads the program for it, or
\* they contend for it.
LEMMA OneContext ==
  ASSUME BindInv, OwnInv, NEW s \in Sockets, NEW t \in Sockets, s # t, pc[s] # "closed",
         pc[t] # "closed", Queue[s] = Queue[t],
         Umem[s] \notin contended
  PROVE  s \in Inhibit /\ t \in Inhibit
<1>1. bound[Fd(s)] = Queue[s] /\ bound[Fd(t)] = Queue[s]
  BY Zenon DEF BindInv, Bound
<1>2. Queue[s] # None
  BY FdFacts, NamesAssumption, Zenon
<1>3. OneUmem(Fd(s), Fd(t))
  BY FdFacts, Zenon DEF BindInv
<1>4. UmemOfFd(Fd(s)) = UmemOfFd(Fd(t))
  BY <1>1, <1>2, <1>3, Zenon DEF OneUmem
<1>5. Umem[s] = Umem[t]
  BY <1>4, FdFacts, Zenon
<1> QED BY <1>5, Zenon DEF OwnInv, Alone

\* An open socket that loads the program has its map.
LEMMA MapOfOpen ==
  ASSUME TypeInv, OwnInv, NEW t \in Sockets, t \notin Inhibit, pc[t] = "open",
         Umem[t] \notin contended
  PROVE  map[t] \in Progs
<1>1. Own(t) /\ map[t] \in Progs \cup {None} /\ xdp_prog[t] \in Progs \cup {None}
  BY Zenon DEF TypeInv, Types, Callers, OwnInv
<1> QED BY <1>1, Zenon DEF Own

\* An entry stays right if its socket and the binding do.
LEMMA EntryKept ==
  ASSUME NEW g, NEW q, EntryOk(g, q), NEW f, f = xsks_map'[g][q],
         f # None => /\ xsks_map[g][q] = f
                     /\ bound'[f] = bound[f]
                     /\ f \in Sockets => own'[f] = own[f] /\ pc'[f] \in {"open"} \cup Deleting
  PROVE  EntryOk(g, q)'
<1> SUFFICES ASSUME f # None
             PROVE  /\ bound'[f] = q
                    /\ f \in Sockets => own'[f] /\ pc'[f] \in {"open"} \cup Deleting
  BY Zenon DEF EntryOk
<1>1. bound[f] = q /\ (f \in Sockets => own[f])
  BY Zenon DEF EntryOk
<1> QED BY <1>1, Zenon

\* A socket stays served if nobody else enters its queue.
LEMMA ServedKept ==
  ASSUME NEW s \in Sockets, Served(s),
         Umem[s] \in contended => Umem[s] \in contended' \/ pc'[s] = "closed",
         pc'[s] # "closed" /\ s \notin Inhibit /\ Umem[s] \notin contended =>
           /\ pc[s] # "closed" /\ own'[s] = own[s]
           /\ \A g \in Progs : xsks_map'[g][Queue[s]] \in {None, xsks_map[g][Queue[s]]}
           /\ pc'[s] = "open" =>
                /\ pc[s] = "open" /\ map'[s] = map[s]
                /\ xsks_map'[map[s]][Queue[s]] = xsks_map[map[s]][Queue[s]]
  PROVE  Served(s)'
<1> SUFFICES ASSUME s \notin Inhibit, pc'[s] # "closed", Umem[s] \notin contended'
             PROVE  /\ \A g \in Progs : xsks_map'[g][Queue[s]] \in {None, Fd(s)'}
                    /\ pc'[s] = "open" => xsks_map'[map'[s]][Queue[s]] = Fd(s)'
  BY Zenon DEF Served
<1>1. Umem[s] \notin contended /\ pc[s] # "closed" /\ Fd(s)' = Fd(s)
  BY Zenon DEF Fd
<1>2. /\ \A g \in Progs : xsks_map[g][Queue[s]] \in {None, Fd(s)}
      /\ pc[s] = "open" => xsks_map[map[s]][Queue[s]] = Fd(s)
  BY <1>1, Zenon DEF Served
<1>3. ASSUME NEW g \in Progs PROVE xsks_map'[g][Queue[s]] \in {None, Fd(s)'}
  BY <1>1, <1>2, Zenon
<1>4. ASSUME pc'[s] = "open" PROVE xsks_map'[map'[s]][Queue[s]] = Fd(s)'
  BY <1>1, <1>2, <1>4, Zenon
<1> QED BY <1>3, <1>4, Zenon

\* An entry is the fd of a socket that is open, or of the umem.
LEMMA EntryFacts ==
  ASSUME MapInv, NEW g \in Progs, NEW q \in Queues, NEW f, f = xsks_map[g][q], f # None
  PROVE  /\ bound[f] = q
         /\ f \in Sockets => own[f] /\ pc[f] \in {"open"} \cup Deleting
BY Zenon DEF MapInv, EntryOk

\* Steps that leave the maps, and what they are about, alone.
Calm ==
    /\ UNCHANGED <<xsks_map, bound, own, contended>>
    /\ \A t \in Sockets :
         /\ Umem[t] \notin contended => map'[t] = map[t]
         /\ pc[t] = "closed" <=> pc'[t] = "closed"
         /\ pc[t] = "open" <=> pc'[t] = "open"
         /\ pc[t] \in Deleting => pc'[t] \in Deleting

\* A step that opens and deletes no socket keeps the maps.
LEMMA MapCalm ==
  ASSUME MapInv, Calm
  PROVE  MapInv'
<1>1. ASSUME NEW g \in Progs, NEW q \in Queues PROVE EntryOk(g, q)'
  <2> DEFINE f == xsks_map[g][q]
  <2>1. EntryOk(g, q) /\ f = xsks_map'[g][q]
    BY Zenon DEF MapInv, Calm
  <2>2. f # None => /\ bound'[f] = bound[f]
                    /\ f \in Sockets => own'[f] = own[f] /\ pc'[f] \in {"open"} \cup Deleting
    BY EntryFacts, Zenon DEF Calm
  <2>3. xsks_map[g][q] = f
    BY Zenon
  <2> HIDE DEF f
  <2> QED BY <2>1, <2>2, <2>3, EntryKept, ZenonT(40)
<1>2. ASSUME NEW s \in Sockets PROVE Served(s)'
  <2>1. Served(s) /\ xsks_map' = xsks_map
    BY Zenon DEF MapInv, Calm
  <2>2. \A g \in Progs : xsks_map'[g][Queue[s]] \in {None, xsks_map[g][Queue[s]]}
    BY <2>1, Zenon
  <2> QED BY <2>1, <2>2, ServedKept, Zenon DEF Calm
<1> QED BY <1>1, <1>2, Zenon DEF MapInv

\* Creating a socket keeps the maps.
LEMMA CreateMaps ==
  ASSUME TypeInv, UmemInv, BindInv, MapInv, NEW s \in Sockets, Create(s)
  PROVE  MapInv'
<1> DEFINE u == Umem[s]
           fd == IF umem[u].refcount > 0 THEN s ELSE u
<1>0. /\ Types /\ u \notin Sockets /\ None \notin Queues
  BY FdFacts, NamesAssumption, Zenon DEF TypeInv
<1> USE <1>0
<1>1. /\ pc[s] = "closed" /\ BindOk(s) /\ UNCHANGED <<xsks_map, map>>
      /\ \A t \in Sockets \ {s} : own'[t] = own[t] /\ pc'[t] = pc[t]
      /\ bound' = [bound EXCEPT ![fd] = Queue[s]]
      /\ pc'[s] = "open" => s \in Inhibit
  BY Zenon DEF Create, CanCreate, Goto, Types, Callers, callvars, progvars
<1> USE <1>1
<1>2. ~ (umem[u].refcount > 0) => bound[u] = None
  BY Zenon DEF BindOk
<1>3. ASSUME NEW g \in Progs, NEW q \in Queues PROVE EntryOk(g, q)'
  <2> DEFINE f == xsks_map[g][q]
  <2>1. EntryOk(g, q) /\ f = xsks_map'[g][q]
    BY Zenon DEF MapInv
  <2>2. f # None => /\ bound'[f] = bound[f]
                    /\ f \in Sockets => own'[f] = own[f] /\ pc'[f] \in {"open"} \cup Deleting
    <3> SUFFICES ASSUME f # None
                 PROVE  /\ bound'[f] = bound[f]
                        /\ f \in Sockets => own'[f] = own[f] /\ pc'[f] \in {"open"} \cup Deleting
      BY ZenonT(60)
    <3>1. /\ bound[f] = q /\ f \in Fds
          /\ f \in Sockets => own[f] /\ pc[f] \in {"open"} \cup Deleting
      BY EntryFacts DEF Types
    <3> USE <3>1
    <3>2. f # s
      BY Zenon DEF Deleting
    <3>3. f # fd
      BY <1>2, <3>2, Zenon
    <3> QED BY <3>2, <3>3, Zenon DEF Types
  <2>3. xsks_map[g][q] = f
    BY Zenon
  <2> HIDE <1>0, <1>1 DEF f
  <2> QED BY <2>1, <2>2, <2>3, EntryKept, ZenonT(40)
<1>4. contended' = IF Contends(s) THEN contended \cup {u} ELSE contended
  BY Zenon DEF Create
<1>5. ASSUME NEW t \in Sockets, t # s PROVE Served(t)'
  <2>1. Served(t) /\ pc'[t] = pc[t] /\ own'[t] = own[t]
    BY <1>5, Zenon DEF MapInv
  <2>2. Umem[t] \in contended => Umem[t] \in contended'
    BY <1>4, Zenon
  <2>3. \A g \in Progs : xsks_map'[g][Queue[t]] \in {None, xsks_map[g][Queue[t]]}
    BY Zenon
  <2> QED BY <2>1, <2>2, <2>3, ServedKept, Zenon
<1>6. Served(s)'
  <2> SUFFICES ASSUME s \notin Inhibit, Umem[s] \notin contended'
               PROVE  /\ pc'[s] # "open"
                      /\ \A g \in Progs : xsks_map'[g][Queue[s]] = None
    BY Zenon DEF Served
  <2>1. ~ Contends(s)
    BY <1>4, Zenon
  <2> QED BY <2>1, Zenon DEF Contends
<1> QED BY <1>3, <1>5, <1>6, Zenon DEF MapInv

\* File descriptors are closed, and with them the sockets that had them.
LEMMA MapForgotten ==
  ASSUME TypeInv, OwnInv, MapInv, NEW fs, Release(fs),
         \A g \in Progs : \A q \in Queues :
           xsks_map'[g][q] = IF xsks_map[g][q] \in fs THEN None ELSE xsks_map[g][q],
         NEW D \in SUBSET Sockets,
         \A t \in Sockets \ D : own'[t] = own[t] /\ pc'[t] = pc[t] /\ map'[t] = map[t],
         \A t \in Sockets \ D : pc[t] # "closed" => Fd(t) \notin fs,
         \A t \in D : pc'[t] = "closed" /\ (own[t] => t \in fs),
         \A t \in Sockets : Umem[t] \in contended => Umem[t] \in contended' \/ pc'[t] = "closed"
  PROVE  MapInv'
<1>0. Types
  BY Zenon DEF TypeInv
<1>1. ASSUME NEW g \in Progs, NEW q \in Queues PROVE EntryOk(g, q)'
  <2> DEFINE f == xsks_map'[g][q]
  <2>0. EntryOk(g, q)
    BY Zenon DEF MapInv
  <2>1. CASE f = None
    BY <2>1, Zenon DEF EntryOk
  <2>2. CASE f # None
    <3> USE <2>2
    <3>1. f = xsks_map[g][q] /\ f \notin fs
      BY ZenonT(60)
    <3> USE <3>1
    <3>2. /\ bound[f] = q /\ f \in Fds
          /\ f \in Sockets => own[f] /\ pc[f] \in {"open"} \cup Deleting
      BY SMTT(40), <1>0, EntryFacts DEF Types
    <3> USE <3>2
    <3>3. bound'[f] = bound[f]
      BY ZenonT(40) DEF Release
    <3>4. f \in Sockets => own'[f] = own[f] /\ pc'[f] \in {"open"} \cup Deleting
      BY Zenon
    <3>5. f = xsks_map'[g][q]
      BY Zenon
    <3>6. bound'[f] = q /\ (f \in Sockets => own'[f] /\ pc'[f] \in {"open"} \cup Deleting)
      BY <3>3, <3>4, Zenon
    <3> HIDE DEF f
    <3> QED BY <3>5, <3>6, ZenonT(60) DEF EntryOk
  <2> QED BY <2>1, <2>2, Zenon
<1>2. ASSUME NEW t \in Sockets PROVE Served(t)'
  <2> SUFFICES ASSUME pc'[t] # "closed", t \notin Inhibit, Umem[t] \notin contended'
               PROVE  Served(t)'
    BY ZenonT(40) DEF Served
  <2>1. /\ t \notin D /\ pc'[t] = pc[t] /\ own'[t] = own[t] /\ map'[t] = map[t]
        /\ Umem[t] \notin contended /\ Served(t) /\ Queue[t] \in Queues
    BY NamesAssumption, ZenonT(60) DEF MapInv
  <2> USE <2>1
  <2>2. \A g \in Progs : xsks_map'[g][Queue[t]] \in {None, xsks_map[g][Queue[t]]}
    BY SMTT(40)
  <2>3. ASSUME pc[t] = "open"
        PROVE  xsks_map'[map[t]][Queue[t]] = xsks_map[map[t]][Queue[t]]
    <3>1. xsks_map[map[t]][Queue[t]] = Fd(t) /\ Fd(t) \notin fs
      BY <2>3, Zenon DEF Served
    <3>2. map[t] \in Progs
      BY <2>3, MapOfOpen, ZenonT(60)
    <3> QED BY SMTT(40), <3>1, <3>2
  <2> QED BY <2>2, <2>3, ServedKept, ZenonT(60)
<1> QED BY <1>1, <1>2, Zenon DEF MapInv

\* One socket changes its own entry.
LEMMA MapPut ==
  ASSUME TypeInv, BindInv, OwnInv, MapInv, NEW s \in Sockets, NEW g \in Progs, NEW e,
         pc[s] # "closed", pc'[s] \in {"open"} \cup Deleting,
         xsks_map' = [xsks_map EXCEPT ![g][Queue[s]] = e], UNCHANGED <<own, bound, contended>>,
         \A t \in Sockets \ {s} : pc'[t] = pc[t] /\ map'[t] = map[t],
         \/ e = None /\ pc'[s] # "open"
         \/ e = Fd(s) /\ (s \in Inhibit \/ (pc'[s] = "open" /\ map'[s] = g))
  PROVE  MapInv'
<1>0. /\ Types /\ Queue[s] \in Queues /\ e \in Fds \cup {None}
      /\ None \notin Sockets /\ None \notin Umems
  BY FdFacts, NamesAssumption, ZenonT(60) DEF TypeInv
<1> USE <1>0
<1>1. \A h \in Progs : \A r \in Queues :
        xsks_map'[h][r] = IF h = g /\ r = Queue[s] THEN e ELSE xsks_map[h][r]
  <2>1. xsks_map \in [Progs -> [Queues -> Fds \cup {None}]]
    BY Zenon DEF Types
  <2>2. Queue[s] \in Queues /\ e \in Fds \cup {None}
    BY Zenon
  <2> HIDE <1>0
  <2> QED BY <2>1, <2>2, PutEntry, SMTT(30)
<1> USE <1>1
<1>2. ASSUME NEW h \in Progs, NEW r \in Queues, h # g \/ r # Queue[s] PROVE EntryOk(h, r)'
  <2> USE <1>2
  <2> DEFINE f == xsks_map[h][r]
  <2>1. EntryOk(h, r) /\ f = xsks_map'[h][r] /\ xsks_map[h][r] = f
    BY DEF MapInv
  <2>2. f # None => /\ bound'[f] = bound[f]
                    /\ f \in Sockets => own'[f] = own[f] /\ pc'[f] \in {"open"} \cup Deleting
    BY EntryFacts, Zenon
  <2> HIDE <1>0, <1>1 DEF f
  <2> QED BY <2>1, <2>2, EntryKept, ZenonT(40)
<1>3. EntryOk(g, Queue[s])'
  <2>1. xsks_map'[g][Queue[s]] = e
    OBVIOUS
  <2>2. CASE e = None
    BY <2>1, <2>2, Zenon DEF EntryOk
  <2>3. CASE e = Fd(s)
    <3> USE <2>3
    <3>1. bound'[e] = Queue[s]
      BY Zenon DEF BindInv, Bound
    <3>2. e \in Sockets => own'[e] /\ pc'[e] \in {"open"} \cup Deleting
      BY FdFacts, Zenon
    <3> QED BY <2>1, <3>1, <3>2, ZenonT(40) DEF EntryOk
  <2> QED BY <2>2, <2>3, ZenonT(60)
<1>4. ASSUME NEW t \in Sockets, t # s PROVE Served(t)'
  <2> USE <1>4
  <2> SUFFICES ASSUME pc'[t] # "closed", t \notin Inhibit, Umem[t] \notin contended'
               PROVE  Served(t)'
    BY Zenon DEF Served
  <2>1. /\ pc'[t] = pc[t] /\ map'[t] = map[t] /\ own'[t] = own[t]
        /\ Umem[t] \notin contended /\ Served(t) /\ Queue[t] \in Queues
    BY NamesAssumption, Zenon DEF MapInv
  <2> USE <2>1
  <2>2. Queue[t] # Queue[s]
    BY OneContext, Zenon
  <2>3. \A h \in Progs : xsks_map'[h][Queue[t]] = xsks_map[h][Queue[t]]
    BY SMTT(40), <2>2
  <2>4. pc[t] = "open" => map[t] \in Progs
    BY MapOfOpen, ZenonT(60)
  <2> HIDE <1>0, <1>1
  <2> QED BY <2>3, <2>4, ServedKept, ZenonT(60)
<1>5. Served(s)'
  <2> SUFFICES ASSUME s \notin Inhibit, Umem[s] \notin contended
               PROVE  /\ \A h \in Progs : xsks_map'[h][Queue[s]] \in {None, Fd(s)'}
                      /\ pc'[s] = "open" => xsks_map'[map'[s]][Queue[s]] = Fd(s)'
    BY Zenon DEF Served
  <2>1. /\ Served(s) /\ Fd(s)' = Fd(s) /\ e \in {None, Fd(s)}
        /\ pc'[s] = "open" => e = Fd(s) /\ map'[s] = g
    BY Zenon DEF MapInv, Fd
  <2>2. ASSUME NEW h \in Progs PROVE xsks_map'[h][Queue[s]] \in {None, Fd(s)}
    <3>1. xsks_map[h][Queue[s]] \in {None, Fd(s)}
      BY <2>1, Zenon DEF Served
    <3> QED BY SMTT(40), <2>1, <3>1
  <2>3. pc'[s] = "open" => xsks_map'[map'[s]][Queue[s]] = Fd(s)
    BY <2>1
  <2> QED BY <2>1, <2>2, <2>3, Zenon
<1> QED BY <1>2, <1>3, <1>4, <1>5, Zenon DEF MapInv

\* An attached program starts with an empty map.
LEMMA AttachMaps ==
  ASSUME TypeInv, OwnInv, MapInv, NEW p \in Callers, Attach(p)
  PROVE  MapInv'
<1>0. Types
  BY Zenon DEF TypeInv
<1> USE <1>0
<1>1. PICK h \in Progs : Fresh(h) /\ AttachCopy(p, h)
  BY Zenon DEF Attach
<1>2. /\ xsks_map' = [xsks_map EXCEPT ![h] = [q \in Queues |-> None]]
      /\ UNCHANGED <<map, bound, own, contended>>
  BY <1>1, Zenon DEF Attach, AttachCopy, procvars
<1> USE <1>2
<1>3. /\ pc[p] = "attach" /\ pc'[p] = "map"
      /\ \A t \in Callers \ {p} : pc'[t] = pc[t]
  BY Zenon DEF Attach, Goto, Types
<1> USE <1>3
<1>4. /\ \A q \in Queues : xsks_map'[h][q] = None
      /\ \A g \in Progs \ {h} : xsks_map'[g] = xsks_map[g]
  BY Zenon DEF Types
<1> USE <1>4
<1>5. ASSUME NEW g \in Progs, NEW q \in Queues PROVE EntryOk(g, q)'
  <2>1. CASE g = h
    BY <2>1, Zenon DEF EntryOk
  <2>2. CASE g # h
    <3> DEFINE f == xsks_map[g][q]
    <3>1. EntryOk(g, q) /\ f = xsks_map'[g][q] /\ xsks_map[g][q] = f
      BY <2>2, ZenonT(60) DEF MapInv
    <3>2. f # None => /\ bound'[f] = bound[f]
                      /\ f \in Sockets => own'[f] = own[f] /\ pc'[f] \in {"open"} \cup Deleting
      BY EntryFacts DEF Callers, Deleting
    <3> HIDE <1>0, <1>2, <1>3, <1>4 DEF f
    <3> QED BY <3>1, <3>2, EntryKept, ZenonT(40)
  <2> QED BY <2>1, <2>2, Zenon
<1>6. ASSUME NEW t \in Sockets PROVE Served(t)'
  <2> SUFFICES ASSUME pc'[t] # "closed", t \notin Inhibit, Umem[t] \notin contended
               PROVE  Served(t)'
    BY Zenon DEF Served
  <2>1. /\ pc[t] # "closed" /\ Served(t) /\ Queue[t] \in Queues
        /\ pc'[t] = "open" => pc[t] = "open"
    BY NamesAssumption, Zenon DEF MapInv, Callers
  <2>2. \A g \in Progs : xsks_map'[g][Queue[t]] \in {None, xsks_map[g][Queue[t]]}
    BY <2>1, Zenon
  <2>3. ASSUME pc'[t] = "open"
        PROVE  xsks_map'[map[t]][Queue[t]] = xsks_map[map[t]][Queue[t]]
    <3>1. map[t] # h
      BY <1>1, ZenonT(40) DEF Fresh, Callers
    <3>2. map[t] \in Progs
      BY <2>1, <2>3, MapOfOpen, ZenonT(60)
    <3> QED BY <3>1, <3>2, Zenon
  <2> QED BY <2>1, <2>2, <2>3, ServedKept, ZenonT(60)
<1> QED BY <1>5, <1>6, Zenon DEF MapInv

\* Every step keeps the entries of the maps right.
LEMMA NextMapInv ==
  ASSUME TypeInv, UmemInv, BindInv, OwnInv, MapInv, [Next]_vars
  PROVE  MapInv'
<1>0. Types /\ None \notin Progs /\ Sockets \cap Controls = {}
  BY NamesAssumption, Zenon DEF TypeInv
<1> USE <1>0
<1>00. \A t \in Sockets : Umem[t] \in contended => Umem[t] \in contended' \/ pc'[t] = "closed"
  BY ContendedStays, Zenon
<1>1. ASSUME NEW fs, Forget(fs)
      PROVE  \A g \in Progs : \A q \in Queues :
               xsks_map'[g][q] = IF xsks_map[g][q] \in fs THEN None ELSE xsks_map[g][q]
  BY <1>1, Zenon DEF Forget
<1>2. ASSUME NEW u \in Umems, xsk_umem__delete(u) PROVE MapInv'
  <2>1. /\ umem[u].refcount = 0 /\ Release({u}) /\ Forget({u})
        /\ UNCHANGED <<pc, own, map>>
    BY <1>2, Zenon DEF xsk_umem__delete, Unused, callvars
  <2> USE <2>1
  <2>2. ASSUME NEW s \in Sockets, pc[s] # "closed" PROVE Fd(s) \notin {u}
    <3>1. Umem[s] # u
      BY SMTT(40), <2>2, UmemHeld
    <3> QED BY <3>1, FdFacts, NamesAssumption, ZenonT(40)
  <2>3. \A t \in Sockets \ {} : own'[t] = own[t] /\ pc'[t] = pc[t] /\ map'[t] = map[t]
    BY Zenon
  <2>4. {} \in SUBSET Sockets
    BY Zenon
  <2>5. \A g \in Progs : \A q \in Queues :
          xsks_map'[g][q] = IF xsks_map[g][q] \in {u} THEN None ELSE xsks_map[g][q]
    BY <1>1, Zenon
  <2> QED BY <1>00, <2>2, <2>3, <2>4, <2>5, MapForgotten, ZenonT(40)
<1>3. ASSUME NEW u \in Umems, Crash(u) PROVE MapInv'
  <2> USE <1>3
  <2> DEFINE D == SocketsOf(u)
             fs == D \cup {u}
  <2>1. Release(fs) /\ Forget(fs)
    BY Zenon DEF Crash
  <2>2. ASSUME NEW t \in Sockets \ D
        PROVE  own'[t] = own[t] /\ pc'[t] = pc[t] /\ map'[t] = map[t] /\ Fd(t) \notin fs
    <3> USE <2>2
    <3>1. pc'[t] = pc[t] /\ map'[t] = map[t]
      BY ZenonT(40) DEF Crash, Callers
    <3>2. own'[t] = own[t]
      BY Zenon DEF Crash, Types
    <3> QED BY <3>1, <3>2, FdFacts, NamesAssumption, ZenonT(40) DEF SocketsOf
  <2>3. ASSUME NEW t \in D PROVE pc'[t] = "closed" /\ (own[t] => t \in fs)
    BY <2>3, Zenon DEF Crash, SocketsOf, Callers
  <2>5. D \in SUBSET Sockets
    BY Zenon DEF SocketsOf
  <2>6. \A g \in Progs : \A q \in Queues :
          xsks_map'[g][q] = IF xsks_map[g][q] \in fs THEN None ELSE xsks_map[g][q]
    BY <1>1, <2>1, ZenonT(40)
  <2> HIDE <1>0, <1>3 DEF D, fs
  <2>7. \A t \in Sockets \ D : own'[t] = own[t] /\ pc'[t] = pc[t] /\ map'[t] = map[t]
    BY <2>2, Zenon
  <2>8. \A t \in Sockets \ D : pc[t] # "closed" => Fd(t) \notin fs
    BY <2>2, Zenon
  <2>9. \A t \in D : pc'[t] = "closed" /\ (own[t] => t \in fs)
    BY <2>3, Zenon
  <2> QED BY <2>1, <2>5, <2>6, <2>7, <2>8, <2>9, <1>00, MapForgotten, ZenonT(40)
<1>4. ASSUME NEW s \in Sockets, pc[s] # "closed", pc' = [pc EXCEPT ![s] = "closed"],
             \A t \in Sockets \ {s} : own'[t] = own[t] /\ map'[t] = map[t],
             NEW fs, fs = IF own[s] THEN {s} ELSE {}, Release(fs),
             \A g \in Progs : \A q \in Queues :
               xsks_map'[g][q] = IF xsks_map[g][q] \in fs THEN None ELSE xsks_map[g][q]
      PROVE  MapInv'
  <2> USE <1>4
  <2> DEFINE D == {s}
  <2>1. \A t \in Sockets \ D : /\ own'[t] = own[t] /\ pc'[t] = pc[t] /\ map'[t] = map[t]
                                 /\ Fd(t) \notin fs
    BY FdFacts, Zenon DEF Types, Callers
  <2>2. \A t \in D : pc'[t] = "closed" /\ (own[t] => t \in fs)
    BY Zenon DEF Types, Callers
  <2>4. D \in SUBSET Sockets
    BY Zenon
  <2>5. \A t \in Sockets \ D : own'[t] = own[t] /\ pc'[t] = pc[t] /\ map'[t] = map[t]
    BY <2>1, Zenon
  <2>6. \A t \in Sockets \ D : pc[t] # "closed" => Fd(t) \notin fs
    BY <2>1, Zenon
  <2>7. /\ Release(fs)
        /\ \A g \in Progs : \A q \in Queues :
             xsks_map'[g][q] = IF xsks_map[g][q] \in fs THEN None ELSE xsks_map[g][q]
    BY Zenon
  <2> HIDE <1>0, <1>4 DEF D
  <2> QED BY <1>00, <2>2, <2>4, <2>5, <2>6, <2>7, MapForgotten, ZenonT(40)
<1>5. ASSUME NEW s \in Sockets, Close(s) PROVE MapInv'
  <2> USE <1>5
  <2> DEFINE fs == IF own[s] THEN {s} ELSE {}
  <2>1. /\ pc' = [pc EXCEPT ![s] = "closed"] /\ Release(fs) /\ Forget(fs)
        /\ pc[s] # "closed"
    BY Zenon DEF Close, Goto
  <2>0. fs = IF own[s] THEN {s} ELSE {}
    BY Zenon
  <2> HIDE DEF fs
  <2>2. \A t \in Sockets \ {s} : own'[t] = own[t] /\ map'[t] = map[t]
    BY Zenon DEF Close, Types, Callers
  <2>4. \A g \in Progs : \A q \in Queues :
          xsks_map'[g][q] = IF xsks_map[g][q] \in fs THEN None ELSE xsks_map[g][q]
    BY <1>1, <2>1, Zenon
  <2> QED BY <1>4, <2>0, <2>1, <2>2, <2>4, ZenonT(40)
<1>6. ASSUME NEW s \in Sockets, pc[s] \in Running, SetupFails(s), UNCHANGED xsks_map
      PROVE  MapInv'
  <2> USE <1>6
  <2> DEFINE fs == IF own[s] THEN {s} ELSE {}
  <2>1. /\ pc' = [pc EXCEPT ![s] = "closed"] /\ Release(fs) /\ UNCHANGED <<own, map>>
    BY Zenon DEF SetupFails, Abandon, Goto
  <2>2. pc[s] # "closed" /\ pc[s] # "open" /\ pc[s] \notin Deleting
    BY Zenon DEF Running, Deleting
  <2>3. ASSUME NEW g \in Progs, NEW q \in Queues
        PROVE  xsks_map'[g][q] = IF xsks_map[g][q] \in fs THEN None ELSE xsks_map[g][q]
    <3>1. xsks_map[g][q] # s
      BY SMTT(40), <2>2, EntryFacts, NamesAssumption
    <3> QED BY <3>1, Zenon
  <2>4. \A t \in Sockets \ {s} : own'[t] = own[t] /\ map'[t] = map[t]
    BY <2>1, Zenon
  <2> QED BY <1>4, <2>1, <2>2, <2>3, <2>4, ZenonT(40)
<1>7. ASSUME NEW p \in Callers, Setup(p) PROVE MapInv'
  <2>1. CASE Attach(p)
    BY <2>1, AttachMaps, Zenon
  <2>2. CASE (GivesUp(p) \/ FailsCounted(p)) /\ p \in Sockets
    <3> USE <2>2
    <3>1. pc[p] \in Running /\ SetupFails(p) /\ UNCHANGED xsks_map
      BY Zenon DEF GivesUp, FailsCounted, Running, progvars
    <3> QED BY <1>6, <3>1, Zenon
  <2>3. CASE UpdateMap(p) /\ p \in Sockets
    <3> USE <2>3
    <3>1. /\ pc[p] = "map" /\ xdp_prog[p] \in Progs
      BY Zenon DEF UpdateMap, TypeInv, Holds, Types
    <3>2. /\ xsks_map' = [xsks_map EXCEPT ![xdp_prog[p]][Queue[p]] = Fd(p)]
          /\ UNCHANGED <<own, bound, contended>>
      BY Zenon DEF UpdateMap
    <3>3. /\ pc'[p] = "open" /\ map'[p] = xdp_prog[p]
          /\ \A t \in Sockets \ {p} : pc'[t] = pc[t] /\ map'[t] = map[t]
      BY Zenon DEF UpdateMap, Goto, Types, Callers
    <3> QED BY ZenonT(60), <3>1, <3>2, <3>3, MapPut
  <2>4. CASE (GivesUp(p) \/ FailsCounted(p) \/ UpdateMap(p)) /\ p \notin Sockets
    <3> USE <2>4
    <3>1. UNCHANGED <<own, bound, xsks_map, contended>>
      BY Zenon DEF GivesUp, FailsCounted, SetupFails, UpdateMap, procvars, progvars
    <3>2. \A t \in Sockets : pc'[t] = pc[t] /\ map'[t] = map[t]
      BY Zenon DEF GivesUp, FailsCounted, SetupFails, UpdateMap, Goto, Types, Callers
    <3> QED BY <3>1, <3>2, MapCalm, ZenonT(40) DEF Calm
  <2>5. CASE \/ Lookup(p) \/ ReadRefcnt(p, "incr", "incr2") \/ IncrRefcnt(p)
             \/ LookupMisses(p)
    <3> USE <2>5
    <3>1. UNCHANGED <<own, bound, xsks_map, map, contended>>
      BY ZenonT(60) DEF Lookup, ReadRefcnt, IncrRefcnt, LookupMisses, procvars, progvars, callvars
    <3>2. \A t \in Sockets : /\ pc[t] = "open" <=> pc'[t] = "open"
                             /\ pc[t] = "closed" <=> pc'[t] = "closed"
                             /\ pc[t] \in Deleting => pc'[t] \in Deleting
      BY ZenonT(40) DEF Lookup, ReadRefcnt, IncrRefcnt, LookupMisses, Goto, Types, Callers, Deleting
    <3> QED BY <3>1, <3>2, MapCalm, ZenonT(40) DEF Calm
  <2> QED BY <1>7, <2>1, <2>2, <2>3, <2>4, <2>5, ZenonT(40) DEF Setup
<1>8. ASSUME NEW s \in Sockets, xsk_delete_map_entry(s) PROVE MapInv'
  <2> USE <1>8
  <2>1. pc[s] = "open" /\ map[s] \in Progs
    BY Zenon DEF xsk_delete_map_entry, TypeInv, Holds, Types, Callers
  <2>2. /\ xsks_map' = [xsks_map EXCEPT ![map[s]][Queue[s]] = None]
        /\ UNCHANGED <<own, bound, contended>>
    BY Zenon DEF xsk_delete_map_entry, procvars
  <2>3. /\ pc'[s] = "decr"
        /\ \A t \in Sockets \ {s} : pc'[t] = pc[t] /\ map'[t] = map[t]
    BY DEF xsk_delete_map_entry, Goto, Types, Callers, callvars
  <2> QED BY <2>1, <2>2, <2>3, MapPut, ZenonT(40) DEF Deleting
<1>9. ASSUME NEW s \in Sockets, NEW c \in Controls, xsk_socket__update_xskmap(s, c)
      PROVE  MapInv'
  <2> USE <1>9
  <2>1. pc[s] = "open" /\ s \in Inhibit /\ map[c] \in Progs
    BY Zenon DEF xsk_socket__update_xskmap, Types, Callers
  <2>2. /\ xsks_map' = [xsks_map EXCEPT ![map[c]][Queue[s]] = Fd(s)]
        /\ UNCHANGED <<own, bound, pc, contended>>
    BY Zenon DEF xsk_socket__update_xskmap, procvars
  <2>3. \A t \in Sockets \ {s} : map'[t] = map[t]
    BY Zenon DEF xsk_socket__update_xskmap, Types, Callers
  <2> QED BY <2>1, <2>2, <2>3, MapPut, ZenonT(60)
<1>10. ASSUME NEW s \in Sockets,
              \/ ReadRefcnt(s, "decr", "decr2") \/ DecrRefcnt(s) \/ DecrFails(s) \/ Detach(s)
              \/ Overwritten(s)
       PROVE  MapInv'
  <2> USE <1>10
  <2>1. UNCHANGED <<own, bound, xsks_map, contended>>
    BY DEF ReadRefcnt, DecrRefcnt, DecrFails, Detach, Overwritten, procvars, callvars, progvars
  <2>2. \A t \in Sockets : Umem[t] \notin contended => map'[t] = map[t]
    <3>1. CASE Overwritten(s)
      BY <3>1, Zenon DEF Overwritten, Types, Callers
    <3>2. CASE ReadRefcnt(s, "decr", "decr2") \/ DecrRefcnt(s) \/ DecrFails(s) \/ Detach(s)
      BY <3>2, Zenon DEF ReadRefcnt, DecrRefcnt, DecrFails, Detach, callvars
    <3> QED BY <3>1, <3>2, Zenon
  <2>3. \A t \in Sockets : /\ pc[t] = "open" <=> pc'[t] = "open"
                           /\ pc[t] = "closed" <=> pc'[t] = "closed"
                           /\ pc[t] \in Deleting => pc'[t] \in Deleting
    BY ZenonT(40)
    DEF ReadRefcnt, DecrRefcnt, DecrFails, Detach, Overwritten, Goto, Types, Callers, Deleting
  <2> QED BY <2>1, <2>2, <2>3, MapCalm, ZenonT(40) DEF Calm
<1>11. ASSUME NEW s \in Sockets, Create(s) PROVE MapInv'
  BY <1>11, CreateMaps, Zenon
<1>12. CASE UNCHANGED <<pc, own, bound, xsks_map, map, contended>>
  BY <1>12, MapCalm, Zenon DEF Calm
<1> QED
  BY ZenonT(40), <1>2, <1>3, <1>5, <1>7, <1>8, <1>9, <1>10, <1>11, <1>12
  DEF Next, Step, Delete, vars, procvars, callvars, progvars, xsk_umem__create, CreateFails,
      SocketFails

\* Bindings, contexts and entries are right at all times.
LEMMA SocketMaps == Spec => [](BindInv /\ OwnInv /\ MapInv)
<1>1. ASSUME TypeInv, TypeInv', AttachInv, UmemInv, BindInv, OwnInv, MapInv, [Next]_vars
      PROVE  BindInv' /\ OwnInv' /\ MapInv'
  <2>1. BindInv' /\ MapInv'
    BY <1>1, NextBindInv, NextMapInv, Zenon
  <2>2. ASSUME NEW s \in Sockets PROVE Own(s)'
    BY <1>1, NextOwn, Zenon
  <2>3. ASSUME NEW s \in Sockets, NEW t \in Sockets PROVE Alone(s, t)'
    BY <1>1, NextAlone, Zenon
  <2> QED BY <2>1, <2>2, <2>3, Zenon DEF OwnInv
<1> QED BY <1>1, InitBindInv, SocketCounts, SocketAttached, SocketUmems, PTL DEF Spec

\* LiveIsServed: an open socket on a umem whose sockets do not contend for a
\* context gets the packets of its queue, whoever else attaches, detaches, fails,
\* dies or contends on another umem meanwhile: its program stays on the device
\* with its fd in xsks_map, and no other program diverts the queue.
THEOREM SocketLiveIsServed == Spec => []LiveIsServed
<1>1. ASSUME TypeInv, CountInv, AttachInv, BindInv, OwnInv, MapInv PROVE LiveIsServed
  <2> USE <1>1
  <2> SUFFICES ASSUME NEW s \in Sockets, pc[s] = "open", map[s] # None, map[s] \notin torn,
                      Umem[s] \notin contended
               PROVE  /\ map[s] \in attached /\ refcnt[map[s]] > 0
                      /\ s \notin Inhibit =>
                           /\ xsks_map[map[s]][Queue[s]] = Fd(s)
                           /\ \A g \in attached :
                                refcnt[g] > 0 => xsks_map[g][Queue[s]] \in {None, Fd(s)}
    BY Zenon DEF LiveIsServed
  <2>0. /\ Types /\ Holds(s) /\ s \in Callers /\ map[s] \in Progs /\ Queue[s] \in Queues
        /\ Counts(map[s]) /\ Gone(map[s]) /\ Own(s) /\ Served(s)
    BY NamesAssumption, Zenon
    DEF TypeInv, Types, Callers, CountInv, AttachInv, OwnInv, MapInv
  <2> USE <2>0
  <2>1. refcnt[map[s]] > 0
    <3>1. CASE s \in Inhibit
      <4>1. lost[map[s]] > 0 /\ lost[map[s]] \in Nat
        BY <3>1, Zenon DEF Own, Types
      <4>2. Cardinality(Users(map[s])) \in Nat
        BY UsersFinite, Zenon
      <4> QED BY SMTT(40), <4>1, <4>2 DEF Counts
    <3>2. CASE s \notin Inhibit
      <4>1. Counted(s, map[s])
        BY <3>2, ZenonT(60) DEF Own, Counted
      <4> QED BY <4>1, CountedIsUsed, ZenonT(40)
    <3> QED BY <3>1, <3>2, ZenonT(60)
  <2>2. map[s] \in attached
    BY <2>1 DEF Gone
  <2>3. s \notin Inhibit =>
          /\ xsks_map[map[s]][Queue[s]] = Fd(s)
          /\ \A g \in attached : xsks_map[g][Queue[s]] \in {None, Fd(s)}
    BY Zenon DEF Served, Types
  <2> QED BY <2>1, <2>2, <2>3, ZenonT(60)
<1> QED BY <1>1, SocketCounts, SocketAttached, SocketMaps, PTL
=============================================================================
