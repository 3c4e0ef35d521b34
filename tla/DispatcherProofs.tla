-------------------------- MODULE DispatcherProofs --------------------------
(***************************************************************************)
(* For any number of processes and any retry bound: the dispatcher         *)
(* protocol is well typed; until somebody calls libxdp_clean_references    *)
(* the attached dispatcher is pinned; retries and failures leave no pin    *)
(* directory behind; and loads and unloads, beside cleaners, crashes and   *)
(* the ip tool, change the set of programs on the interface as             *)
(* HookContents says.                                                      *)
(***************************************************************************)
EXTENDS Dispatcher, TLAPS

\* What a process knows at each pc; a dispatcher it has built is named after the
\* attempt it is in.
LocalInv ==
    \A p \in Procs :
      /\ new[p] # NONE => new[p] = <<p, retry[p]>>
      /\ pc[p] \in {"pin", "unpin_new"} => new[p] # NONE
      /\ pc[p] \in {"query", "open", "read", "use"} => new[p] = NONE
      /\ pc[p] \in {"read", "unpin_old"} => mp[p].id \in Ids
      /\ pc[p] = "open" => qid[p] # NONE
      /\ mp[p].id = LEGACY => mp[p].legacy
      /\ stage[p] = "attach" => p \in Attachers
      /\ pc[p] \in {"clean", "check", "remove"} => p \in Cleaners
      /\ p \in Cleaners => pc[p] \in {"clean", "check", "remove", "done", "crashed"}
      /\ pc[p] = "remove" => victim[p] \in Ids

\* The types of the protocol's variables with what they need to be inductive.
TypeInv == ProtocolOK /\ LocalInv

\* Ids of dispatchers are main programs, and neither "none" nor the script's program.
LEMMA IdFacts ==
  /\ \A p \in Procs : \A k \in 0..MAX_RETRY : <<p, k>> \in Ids
  /\ NONE \notin Ids /\ LEGACY \notin Ids /\ NONE \notin Mains
  /\ Ids \subseteq Mains /\ LEGACY \in Mains
BY NamesAssumption, Zenon DEF Ids, Mains

\* Types and the local facts hold before any process has started.
LEMMA InitTypeInv == Init => TypeInv
BY IdFacts, BoundsAssumption, ProcsAssumption, NamesAssumption
   DEF Init, TypeInv, ProtocolOK, LocalInv, NoMp, Pcs, Stages, Results, Procs

\* What the shared parts of actions do to the types.
LEMMA StartQueryType ==
  ASSUME ProtocolOK, NEW p \in Procs, StartQuery(p)
  PROVE  /\ pc' = [pc EXCEPT ![p] = "query"]
         /\ qid' \in [Procs -> Mains \cup {NONE}]
         /\ qretry' \in [Procs -> 0..MAX_RETRY]
         /\ mp' \in [Procs -> [id : Mains \cup {NONE}, progs : SUBSET Attachers,
                               legacy : BOOLEAN]]
         /\ new' \in [Procs -> Ids \cup {NONE}]
BY BoundsAssumption DEF StartQuery, ProtocolOK, NoMp, Goto

\* Building the next dispatcher gives it an id and a set of components.
LEMMA GenerateType ==
  ASSUME ProtocolOK, NEW p \in Procs, NEW S \in SUBSET Attachers, Generate(p, S)
  PROVE  /\ progs' \in [Ids -> SUBSET Attachers]
         /\ new' \in [Procs -> Ids \cup {NONE}]
         /\ pc' = [pc EXCEPT ![p] = "pin"]
         /\ ret' = ret
<1>1. retry[p] \in 0..MAX_RETRY
  BY Zenon DEF ProtocolOK
<1>2. <<p, retry[p]>> \in Ids
  BY <1>1, IdFacts, Zenon
<1> QED
  BY <1>2, Zenon DEF Generate, ProtocolOK, Goto

\* Starting over, or giving up when the retries are used up, keeps the types.
LEMMA TryAgainType ==
  ASSUME ProtocolOK, NEW p \in Procs, TryAgain(p)
  PROVE  /\ pc' \in [Procs -> Pcs]
         /\ qid' \in [Procs -> Mains \cup {NONE}]
         /\ qretry' \in [Procs -> 0..MAX_RETRY]
         /\ mp' \in [Procs -> [id : Mains \cup {NONE}, progs : SUBSET Attachers,
                               legacy : BOOLEAN]]
         /\ new' \in [Procs -> Ids \cup {NONE}]
         /\ retry' \in [Procs -> 0..MAX_RETRY]
         /\ ret' \in [Procs -> Results]
<1>1. CASE retry[p] = MAX_RETRY
  BY <1>1, Zenon DEF TryAgain, Return, Goto, ProtocolOK, Pcs, Results
<1>2. CASE retry[p] # MAX_RETRY
  <2>1. StartQuery(p) /\ retry' = [retry EXCEPT ![p] = @ + 1] /\ ret' = ret
    BY <1>2, Zenon DEF TryAgain
  <2>2. retry \in [Procs -> 0..MAX_RETRY] /\ retry[p] \in 0..MAX_RETRY
    BY Zenon DEF ProtocolOK
  <2>3. retry[p] + 1 \in 0..MAX_RETRY
    BY <1>2, <2>2, BoundsAssumption
  <2> QED
    BY <2>1, <2>2, <2>3, StartQueryType, Zenon DEF ProtocolOK, Pcs
<1> QED
  BY <1>1, <1>2, Zenon

\* It keeps what is known of a process's locals as well.
LEMMA TryAgainLocal ==
  ASSUME ProtocolOK, LocalInv, NEW p \in Procs, TryAgain(p), UNCHANGED <<stage, victim>>,
         pc[p] \in {"swap", "unpin_new"}
  PROVE  LocalInv'
<1>d. /\ DOMAIN pc = Procs /\ DOMAIN new = Procs /\ DOMAIN mp = Procs
      /\ DOMAIN qid = Procs /\ DOMAIN retry = Procs
  BY Zenon DEF ProtocolOK
<1>1. CASE retry[p] = MAX_RETRY
  <2>1. pc' = [pc EXCEPT ![p] = "done"] /\ UNCHANGED <<qid, mp, new, retry>>
    BY <1>1, Zenon DEF TryAgain, Return, Goto
  <2> QED BY <1>d, <2>1, Zenon DEF LocalInv
<1>2. CASE retry[p] # MAX_RETRY
  <2>1. /\ pc'[p] = "query" /\ new'[p] = NONE /\ mp'[p].id = NONE
        /\ \A q \in Procs \ {p} :
             /\ pc'[q] = pc[q] /\ new'[q] = new[q] /\ mp'[q] = mp[q]
             /\ qid'[q] = qid[q] /\ retry'[q] = retry[q]
    BY <1>d, <1>2 DEF TryAgain, StartQuery, Goto, NoMp
  <2>2. NONE # LEGACY
    BY IdFacts, Zenon
  <2> QED BY <2>1, <2>2 DEF LocalInv
<1> QED BY <1>1, <1>2, Zenon

\* Unpinning leaves directories and pins of dispatchers.
LEMMA UnpinType ==
  ASSUME ProtocolOK, NEW d, Unpin(d)
  PROVE  /\ dirs' \subseteq Ids /\ links' \in [Ids -> SUBSET Attachers]
         /\ pinned' \in [Ids -> SUBSET Attachers]
<1>0. /\ dirs \subseteq Ids /\ links \in [Ids -> SUBSET Attachers]
      /\ pinned \in [Ids -> SUBSET Attachers]
  BY Zenon DEF ProtocolOK
<1>1. CASE RemoveDir(d)
  BY ZenonT(60), <1>0, <1>1 DEF RemoveDir
<1>2. ASSUME NEW L \in SUBSET links[d], links' = [links EXCEPT ![d] = L],
             pinned' = [pinned EXCEPT ![d] = @ \ (links[d] \ L)], dirs' = dirs
      PROVE  /\ dirs' \subseteq Ids /\ links' \in [Ids -> SUBSET Attachers]
             /\ pinned' \in [Ids -> SUBSET Attachers]
  BY ZenonT(60), <1>0, <1>2
<1> QED
  BY <1>1, <1>2, Zenon DEF Unpin

\* A process that only moves on keeps what is known of it.
LEMMA MoveLocal ==
  ASSUME ProtocolOK, LocalInv, NEW p \in Procs, NEW l, pc' = [pc EXCEPT ![p] = l],
         pc[p] \in {"open", "swap"}, l \in {"query", "use", "unpin_old", "done"},
         l \in {"query", "use"} => new[p] = NONE, l = "unpin_old" => mp[p].id \in Ids,
         UNCHANGED <<stage, qid, mp, new, retry, victim>>
  PROVE  LocalInv'
<1>1. p \notin Cleaners /\ pc'[p] = l /\ \A x \in Procs \ {p} : pc'[x] = pc[x]
  BY Zenon DEF LocalInv, ProtocolOK
<1>2. ASSUME NEW x \in Procs, x # p
      PROVE  /\ new'[x] # NONE => new'[x] = <<x, retry'[x]>>
             /\ pc'[x] \in {"pin", "unpin_new"} => new'[x] # NONE
             /\ pc'[x] \in {"query", "open", "read", "use"} => new'[x] = NONE
             /\ pc'[x] \in {"read", "unpin_old"} => mp'[x].id \in Ids
             /\ pc'[x] = "open" => qid'[x] # NONE
             /\ mp'[x].id = LEGACY => mp'[x].legacy
             /\ stage'[x] = "attach" => x \in Attachers
             /\ pc'[x] \in {"clean", "check", "remove"} => x \in Cleaners
             /\ x \in Cleaners => pc'[x] \in {"clean", "check", "remove", "done", "crashed"}
             /\ pc'[x] = "remove" => victim'[x] \in Ids
  BY <1>1, <1>2, ZenonT(60) DEF LocalInv
<1>3. /\ new'[p] # NONE => new'[p] = <<p, retry'[p]>>
      /\ pc'[p] \in {"query", "open", "read", "use"} => new'[p] = NONE
      /\ pc'[p] \in {"read", "unpin_old"} => mp'[p].id \in Ids
      /\ mp'[p].id = LEGACY => mp'[p].legacy
      /\ stage'[p] = "attach" => p \in Attachers
  BY <1>1, ZenonT(60) DEF LocalInv
<1>4. pc'[p] \notin {"pin", "unpin_new", "open", "clean", "check", "remove"}
  BY <1>1, ZenonT(60)
<1> QED BY <1>1, <1>2, <1>3, <1>4, ZenonT(60) DEF LocalInv

\* Every step of every process keeps the types.
LEMMA NextTypeInv == TypeInv /\ [Next]_vars => TypeInv'
<1> SUFFICES ASSUME TypeInv, [Next]_vars PROVE TypeInv'
  BY Zenon
<1> USE IdFacts, BoundsAssumption
<1> USE DEF TypeInv, ProtocolOK, Pcs, Stages, Results, NoMp, Goto, Return
<1>1. ASSUME NEW p \in Procs, Query(p) PROVE TypeInv'
  BY <1>1 DEF LocalInv, Query, QueryId, kernel, bpffs, clean
<1>2. ASSUME NEW p \in Procs, Open(p) PROVE TypeInv'
  <2>1. mp' \in [Procs -> [id : Mains \cup {NONE}, progs : SUBSET Attachers,
                           legacy : BOOLEAN]]
    BY <1>2, Zenon DEF Open
  <2>2. ProtocolOK'
    BY <1>2, <2>1, Zenon DEF Open, kernel, bpffs, clean
  <2>3. qid[p] # NONE /\ (qid[p] = LEGACY \/ qid[p] \in Ids)
    BY <1>2, ZenonT(60) DEF Open, LocalInv, Mains
  <2>4. /\ mp'[p].id = qid[p] /\ mp'[p].legacy = (qid[p] = LEGACY)
        /\ pc[p] = "open" /\ pc'[p] = IF qid[p] = LEGACY THEN "use" ELSE "read"
        /\ \A q \in Procs \ {p} : mp'[q] = mp[q] /\ pc'[q] = pc[q]
        /\ UNCHANGED <<stage, qid, new, retry, victim>>
    BY <1>2, Zenon DEF Open, clean
  <2>5. ASSUME NEW q \in Procs \ {p}
        PROVE  /\ pc'[q] \in {"read", "unpin_old"} => mp'[q].id \in Ids
               /\ mp'[q].id = LEGACY => mp'[q].legacy
    BY <2>4, Zenon DEF LocalInv
  <2>6. /\ pc'[p] \in {"read", "unpin_old"} => mp'[p].id \in Ids
        /\ mp'[p].id = LEGACY => mp'[p].legacy
        /\ pc[p] = "open" /\ pc'[p] \in {"use", "read"}
    <3> HIDE DEF TypeInv
    <3> QED BY <2>3, <2>4, Zenon
  <2> HIDE DEF ProtocolOK
  <2>7. LocalInv'
    BY <2>4, <2>5, <2>6 DEF LocalInv
  <2> QED BY <2>2, <2>7, Zenon
<1>3. ASSUME NEW p \in Procs, OpenRetry(p) PROVE TypeInv'
  <2>1. LocalInv'
    <3>1. /\ pc[p] = "open" /\ UNCHANGED <<stage, qid, mp, new, retry, victim>>
          /\ new[p] = NONE
      BY <1>3, Zenon DEF LocalInv, OpenRetry, clean
    <3>2. \/ pc' = [pc EXCEPT ![p] = "use"]
          \/ pc' = [pc EXCEPT ![p] = "query"]
      BY <1>3, Zenon DEF OpenRetry
    <3> HIDE DEF ProtocolOK
    <3> QED BY <3>1, <3>2, MoveLocal, ZenonT(60)
  <2>2. qretry' \in [Procs -> 0..MAX_RETRY]
    <3>1. qretry \in [Procs -> 0..MAX_RETRY] /\ qretry[p] \in 0..MAX_RETRY
      BY Zenon
    <3> HIDE DEF TypeInv
    <3>2. qretry[p] # MAX_RETRY => qretry[p] + 1 \in 0..MAX_RETRY
      BY <3>1
    <3> QED BY <1>3, <3>1, <3>2, Zenon DEF OpenRetry
  <2>3. ProtocolOK'
    BY <1>3, <2>2, ZenonT(60) DEF OpenRetry, kernel, bpffs, clean
  <2> QED BY <2>1, <2>3, Zenon
<1>4. ASSUME NEW p \in Procs, Read(p) PROVE TypeInv'
  BY <1>4 DEF LocalInv, Read, kernel, bpffs, clean
<1>5. ASSUME NEW p \in Procs, AttachMulti(p) PROVE TypeInv'
  <2>1. LocalInv'
    BY <1>5 DEF LocalInv, AttachMulti, Generate, kernel, bpffs, clean
  <2>2. mp[p].progs \cup {p} \in SUBSET Attachers
    BY <1>5, Zenon DEF AttachMulti, LocalInv
  <2>3. CASE Generate(p, mp[p].progs \cup {p})
    <3>1. /\ progs' \in [Ids -> SUBSET Attachers]
          /\ new' \in [Procs -> Ids \cup {NONE}]
          /\ pc' = [pc EXCEPT ![p] = "pin"]
          /\ ret' = ret
      <4> HIDE DEF ProtocolOK
      <4> QED BY <2>2, <2>3, GenerateType, Zenon
    <3> QED
      BY <1>5, <2>1, <3>1, Zenon DEF AttachMulti, kernel, bpffs, clean
  <2>4. CASE Return(p, "E2BIG") /\ UNCHANGED <<progs, new>>
    BY <1>5, <2>1, <2>4, Zenon DEF AttachMulti, kernel, bpffs, clean
  <2>5. CASE Return(p, "EBUSY") /\ UNCHANGED <<progs, new>>
    BY <1>5, <2>1, <2>5, Zenon DEF AttachMulti, kernel, bpffs, clean
  <2> QED BY <1>5, <2>1, <2>3, <2>4, <2>5, Zenon DEF AttachMulti
<1>6. ASSUME NEW p \in Procs, FindProgram(p) PROVE TypeInv'
  <2>1. LocalInv'
    BY <1>6 DEF LocalInv, FindProgram, StartQuery, kernel, bpffs, clean
  <2>2. CASE Target[p] \in mp[p].progs \/ mp[p].id = Target[p]
    <3>1. StartQuery(p)
      BY <1>6, <2>2, Zenon DEF FindProgram
    <3>2. /\ pc' = [pc EXCEPT ![p] = "query"]
          /\ qid' \in [Procs -> Mains \cup {NONE}]
          /\ qretry' \in [Procs -> 0..MAX_RETRY]
          /\ mp' \in [Procs -> [id : Mains \cup {NONE}, progs : SUBSET Attachers,
                                legacy : BOOLEAN]]
          /\ new' \in [Procs -> Ids \cup {NONE}]
      <4> HIDE DEF ProtocolOK
      <4> QED BY <3>1, StartQueryType, Zenon
    <3> QED
      BY <1>6, <2>1, <2>2, <3>2, ZenonT(60) DEF FindProgram, kernel, bpffs, clean
  <2>3. CASE ~ (Target[p] \in mp[p].progs \/ mp[p].id = Target[p])
    BY <1>6, <2>1, <2>3, ZenonT(60) DEF FindProgram, kernel, bpffs, clean
  <2> QED BY <2>2, <2>3, Zenon
<1>7. ASSUME NEW p \in Procs, DetachMulti(p) PROVE TypeInv'
  <2>1. LocalInv'
    BY <1>7 DEF LocalInv, DetachMulti, Generate, kernel, bpffs, clean
  <2>2. mp[p].progs \ {Target[p]} \in SUBSET Attachers
    BY Zenon
  <2>3. CASE Generate(p, mp[p].progs \ {Target[p]})
    <3>1. /\ progs' \in [Ids -> SUBSET Attachers]
          /\ new' \in [Procs -> Ids \cup {NONE}]
          /\ pc' = [pc EXCEPT ![p] = "pin"]
          /\ ret' = ret
      <4> HIDE DEF ProtocolOK
      <4> QED BY <2>2, <2>3, GenerateType, Zenon
    <3> QED
      BY <1>7, <2>1, <3>1, Zenon DEF DetachMulti, kernel, bpffs, clean
  <2>4. CASE Goto(p, "swap") /\ UNCHANGED <<progs, new, ret>>
    BY <1>7, <2>1, <2>4, Zenon DEF DetachMulti, kernel, bpffs, clean
  <2>5. CASE Return(p, "ENOENT") /\ UNCHANGED <<progs, new>>
    BY <1>7, <2>1, <2>5, Zenon DEF DetachMulti, kernel, bpffs, clean
  <2> QED BY <1>7, <2>3, <2>4, <2>5, Zenon DEF DetachMulti
<1>8. ASSUME NEW p \in Procs, DetachAll(p) PROVE TypeInv'
  <2>1. ProtocolOK'
    BY <1>8, Zenon DEF DetachAll, kernel, bpffs, clean
  <2>2. LocalInv'
    BY <1>8 DEF LocalInv, DetachAll, kernel, bpffs, clean
  <2> QED BY <2>1, <2>2, Zenon
<1>9. ASSUME NEW p \in Procs, Pin(p) PROVE TypeInv'
  BY SMTT(40), <1>9 DEF LocalInv, Pin, kernel, bpffs, clean
<1>10. ASSUME NEW p \in Procs, PinFails(p) PROVE TypeInv'
  BY <1>10 DEF LocalInv, PinFails, kernel, bpffs, clean
<1>11. ASSUME NEW p \in Procs, Swap(p) PROVE TypeInv'
  <2>1. LocalInv'
    <3>1. pc[p] = "swap" /\ UNCHANGED <<stage, qid, mp, new, retry, victim>>
      BY <1>11, Zenon DEF Swap, clean
    <3>2. \/ pc' = [pc EXCEPT ![p] = "done"]
          \/ /\ pc' = [pc EXCEPT ![p] = "unpin_old"]
             /\ mp[p].id # NONE /\ ~ mp[p].legacy
      BY <1>11, Zenon DEF Swap
    <3>3. mp[p].id \in Mains \cup {NONE} /\ (mp[p].id = LEGACY => mp[p].legacy)
      BY DEF LocalInv
    <3>4. mp[p].id # NONE /\ ~ mp[p].legacy => mp[p].id \in Ids
      BY <3>3, Zenon DEF Mains
    <3> HIDE DEF ProtocolOK
    <3> QED BY <3>1, <3>2, <3>4, MoveLocal, ZenonT(60)
  <2>2. hook' \in Mains \cup {NONE}
    BY <1>11, Zenon DEF Swap
  <2>3. CASE mp[p].id = NONE \/ mp[p].legacy
    BY <1>11, <2>1, <2>2, <2>3, Zenon DEF Swap, kernel, bpffs, clean
  <2>4. CASE ~ (mp[p].id = NONE \/ mp[p].legacy)
    BY <1>11, <2>1, <2>2, <2>4, Zenon DEF Swap, kernel, bpffs, clean
  <2> QED BY <2>3, <2>4, Zenon
<1>12. ASSUME NEW p \in Procs, SwapFails(p) PROVE TypeInv'
  <2>1. LocalInv'
    <3>1. pc[p] = "swap" /\ UNCHANGED <<stage, victim>>
      BY <1>12, Zenon DEF SwapFails, clean
    <3>2. CASE TryAgain(p)
      <4> HIDE DEF ProtocolOK
      <4> QED BY <3>1, <3>2, TryAgainLocal, Zenon
    <3>3. CASE pc' = [pc EXCEPT ![p] = "done"] /\ UNCHANGED <<qid, mp, new, retry>>
      BY <3>1, <3>3 DEF LocalInv
    <3>4. CASE /\ pc' = [pc EXCEPT ![p] = "unpin_new"] /\ new[p] # NONE
               /\ UNCHANGED <<qid, mp, new, retry>>
      BY <3>1, <3>4 DEF LocalInv
    <3> QED BY <1>12, <3>2, <3>3, <3>4, Zenon DEF SwapFails
  <2>2. CASE TryAgain(p)
    <3>1. /\ pc' \in [Procs -> Pcs]
          /\ qid' \in [Procs -> Mains \cup {NONE}]
          /\ qretry' \in [Procs -> 0..MAX_RETRY]
          /\ mp' \in [Procs -> [id : Mains \cup {NONE}, progs : SUBSET Attachers,
                                legacy : BOOLEAN]]
          /\ new' \in [Procs -> Ids \cup {NONE}]
          /\ retry' \in [Procs -> 0..MAX_RETRY]
          /\ ret' \in [Procs -> Results]
      <4> HIDE DEF ProtocolOK
      <4> QED BY <2>2, TryAgainType, Zenon
    <3> QED
      BY <1>12, <2>1, <3>1, Zenon DEF SwapFails, kernel, bpffs, clean
  <2>3. CASE Return(p, "EAGAIN") /\ UNCHANGED <<qid, qretry, mp, new, retry>>
    BY <1>12, <2>1, <2>3, Zenon DEF SwapFails, kernel, bpffs, clean
  <2>4. CASE Goto(p, "unpin_new") /\ UNCHANGED <<qid, qretry, mp, new, retry, ret>>
    BY <1>12, <2>1, <2>4, Zenon DEF SwapFails, kernel, bpffs, clean
  <2> QED BY <1>12, <2>2, <2>3, <2>4, Zenon DEF SwapFails
<1>13. ASSUME NEW p \in Procs, UnpinNew(p) PROVE TypeInv'
  <2>1. LocalInv'
    <3>1. pc[p] = "unpin_new" /\ UNCHANGED <<stage, victim>>
      BY <1>13, Zenon DEF UnpinNew, clean
    <3>2. CASE TryAgain(p)
      <4> HIDE DEF ProtocolOK
      <4> QED BY <3>1, <3>2, TryAgainLocal, Zenon
    <3>3. CASE pc' = [pc EXCEPT ![p] = "done"] /\ UNCHANGED <<qid, mp, new, retry>>
      BY <3>1, <3>3 DEF LocalInv
    <3> QED BY <1>13, <3>2, <3>3, Zenon DEF UnpinNew
  <2>u. /\ dirs' \subseteq Ids /\ links' \in [Ids -> SUBSET Attachers]
        /\ pinned' \in [Ids -> SUBSET Attachers]
    <3>1. Unpin(new[p])
      BY <1>13, Zenon DEF UnpinNew
    <3> HIDE DEF ProtocolOK
    <3> QED BY <3>1, UnpinType, Zenon
  <2>2. CASE TryAgain(p)
    <3>1. /\ pc' \in [Procs -> Pcs]
          /\ qid' \in [Procs -> Mains \cup {NONE}]
          /\ qretry' \in [Procs -> 0..MAX_RETRY]
          /\ mp' \in [Procs -> [id : Mains \cup {NONE}, progs : SUBSET Attachers,
                                legacy : BOOLEAN]]
          /\ new' \in [Procs -> Ids \cup {NONE}]
          /\ retry' \in [Procs -> 0..MAX_RETRY]
          /\ ret' \in [Procs -> Results]
      <4> HIDE DEF ProtocolOK
      <4> QED BY <2>2, TryAgainType, Zenon
    <3> QED
      BY <1>13, <2>1, <2>u, <3>1, Zenon DEF UnpinNew, kernel, clean
  <2>3. CASE Return(p, "EBUSY") /\ UNCHANGED <<qid, qretry, mp, new, retry>>
    BY <1>13, <2>1, <2>u, <2>3, Zenon DEF UnpinNew, kernel, clean
  <2> QED BY <1>13, <2>2, <2>3, Zenon DEF UnpinNew
<1>14. ASSUME NEW p \in Procs, UnpinOld(p) PROVE TypeInv'
  <2>1. /\ dirs' \subseteq Ids /\ links' \in [Ids -> SUBSET Attachers]
        /\ pinned' \in [Ids -> SUBSET Attachers]
    <3>1. Unpin(mp[p].id)
      BY <1>14, Zenon DEF UnpinOld
    <3> HIDE DEF ProtocolOK
    <3> QED BY <3>1, UnpinType, Zenon
  <2>2. LocalInv'
    BY <1>14, SMTT(40) DEF LocalInv, UnpinOld, clean
  <2>3. ret' \in [Procs -> Results] /\ pc' \in [Procs -> Pcs]
    BY <1>14, Zenon DEF UnpinOld
  <2> QED BY <1>14, <2>1, <2>2, <2>3, Zenon DEF UnpinOld, kernel, clean
<1>15. ASSUME NEW p \in Procs, CleanStart(p) PROVE TypeInv'
  BY <1>15 DEF LocalInv, CleanStart, kernel, bpffs, clean
<1>16. ASSUME NEW p \in Procs, CleanCheck(p) PROVE TypeInv'
  <2>1. LocalInv'
    BY <1>16 DEF LocalInv, CleanCheck, QueryId, kernel, bpffs, clean
  <2>2. PICK d \in todo[p] :
          /\ QueryId(p)
          /\ \/ todo' = [todo EXCEPT ![p] = @ \ {d}] /\ UNCHANGED <<pc, victim>>
             \/ /\ victim' = [victim EXCEPT ![p] = d]
                /\ Goto(p, "remove")
                /\ UNCHANGED todo
    BY <1>16, Zenon DEF CleanCheck
  <2>3. qid' \in [Procs -> Mains \cup {NONE}]
    BY <2>2, Zenon DEF QueryId
  <2>4. CASE todo' = [todo EXCEPT ![p] = @ \ {d}] /\ UNCHANGED <<pc, victim>>
    BY <1>16, <2>1, <2>3, <2>4, Zenon DEF CleanCheck, kernel, bpffs, clean
  <2>5. CASE /\ victim' = [victim EXCEPT ![p] = d]
             /\ Goto(p, "remove")
             /\ UNCHANGED todo
    BY <1>16, <2>1, <2>3, <2>5, Zenon DEF CleanCheck, kernel, bpffs, clean
  <2> QED BY <2>2, <2>4, <2>5, Zenon
<1>17. ASSUME NEW p \in Procs, CleanRemove(p) PROVE TypeInv'
  BY <1>17, ZenonT(60) DEF LocalInv, CleanRemove, RemoveDir, kernel, bpffs, clean
<1>18. ASSUME NEW p \in Procs, CleanEnd(p) PROVE TypeInv'
  BY <1>18 DEF LocalInv, CleanEnd, kernel, bpffs, clean
<1>19. ASSUME NEW p \in Procs, Crash(p) PROVE TypeInv'
  BY <1>19 DEF LocalInv, Crash, kernel, bpffs, clean
<1>20. ASSUME NEW p \in Procs, CrashPinning(p) PROVE TypeInv'
  BY SMTT(40), <1>20 DEF LocalInv, CrashPinning, kernel, bpffs, clean
<1>23. ASSUME NEW p \in Procs, CrashUnpinning(p) PROVE TypeInv'
  BY <1>23 DEF LocalInv, CrashUnpinning, kernel, bpffs, clean
<1>24. ASSUME NEW p \in Procs, CleanFails(p) \/ CleanCrash(p) PROVE TypeInv'
  <2>0. RemoveSome(p)
    BY <1>24, Zenon DEF CleanFails, CleanCrash
  <2>1. /\ links' \in [Ids -> SUBSET Attachers] /\ pinned' \in [Ids -> SUBSET Attachers]
        /\ lock' = NONE /\ pc[p] = "remove"
        /\ UNCHANGED <<kernel, dirs, stage, qid, qretry, mp, base, new, retry, clean>>
    <3>1. PICK L \in SUBSET links[victim[p]], P \in SUBSET pinned[victim[p]] :
            /\ links' = [links EXCEPT ![victim[p]] = L]
            /\ pinned' = [pinned EXCEPT ![victim[p]] = P]
      BY <2>0, Zenon DEF RemoveSome
    <3>2. L \in SUBSET Attachers /\ P \in SUBSET Attachers
      BY <2>0 DEF RemoveSome, LocalInv
    <3> QED BY <2>0, <3>1, <3>2, Zenon DEF RemoveSome
  <2>2. /\ ret' \in [Procs -> Results] /\ pc' \in [Procs -> Pcs]
        /\ pc' = [pc EXCEPT ![p] = "done"] \/ pc' = [pc EXCEPT ![p] = "crashed"]
    BY <1>24, ZenonT(60) DEF CleanFails, CleanCrash
  <2>3. LocalInv'
    BY <2>1, <2>2, SMTT(40) DEF LocalInv, clean
  <2> QED BY <2>1, <2>2, <2>3, Zenon DEF kernel, clean
<1>21. ASSUME IpAttach \/ IpOff PROVE TypeInv'
  BY <1>21 DEF LocalInv, IpAttach, IpOff, kernel, bpffs, clean
<1>22. ASSUME UNCHANGED vars PROVE TypeInv'
  BY <1>22, Zenon DEF LocalInv, vars
<1> QED
  BY ZenonT(60), <1>1, <1>2, <1>3, <1>4, <1>5, <1>6, <1>7, <1>8, <1>9, <1>10, <1>11, <1>12,
     <1>13, <1>14, <1>15, <1>16, <1>17, <1>18, <1>19, <1>20, <1>21, <1>22, <1>23,
     <1>24, Zenon
     DEF Next, Process, CrashAnywhere, Step

\* Every variable keeps its type, for every number of processes and every bound:
\* retry_counter never passes MAX_RETRY, and nobody holds an id of a program that
\* was never loaded.
THEOREM DispatcherTypeOK == Spec => []TypeOK
<1>1. Init => ips \in 0..MaxIp
  BY BoundsAssumption DEF Init
<1>2. ips \in 0..MaxIp /\ [Next]_vars => (ips \in 0..MaxIp)'
  BY BoundsAssumption DEF Next, Process, CrashAnywhere, IpAttach, IpOff, vars
<1>3. TypeInv /\ ips \in 0..MaxIp => TypeOK
  BY Zenon DEF TypeInv, TypeOK
<1> QED
  BY <1>1, <1>2, <1>3, InitTypeInv, NextTypeInv, PTL DEF Spec

-----------------------------------------------------------------------------
(* Who can know of a dispatcher. *)

\* Attempt k of process p has not put its dispatcher on the interface.
Unattached(p, k) ==
    \/ k > retry[p]
    \/ /\ k = retry[p]
       /\ pc[p] \in {"query", "open", "read", "use", "pin", "swap", "unpin_new"}

\* Nobody has seen a dispatcher that was never attached.
UnseenInv ==
    \A p \in Procs : \A k \in 0..MAX_RETRY :
      Unattached(p, k) =>
        /\ hook # <<p, k>>
        /\ \A q \in Procs : qid[q] # <<p, k>> /\ mp[q].id # <<p, k>>

\* A step of p: the other processes stay where they are, p learns no id it could
\* not see, and no attempt becomes unattached again.
OnlyMoves(p) ==
    \A q \in Procs \ {p} :
      /\ pc'[q] = pc[q] /\ new'[q] = new[q] /\ mp'[q] = mp[q]
      /\ retry'[q] = retry[q] /\ qid'[q] = qid[q]
      /\ stage'[q] = stage[q] /\ ret'[q] = ret[q]
Looks(p) ==
    /\ qid'[p] \in {qid[p], hook, NONE}
    /\ mp'[p].id \in {mp[p].id, qid[p], NONE}
Progress(p) ==
    \A k \in 0..MAX_RETRY : Unattached(p, k)' => Unattached(p, k)

\* What p does, crashing included.
Acts(p) ==
    Step(p) \/ Crash(p) \/ CrashPinning(p) \/ CrashUnpinning(p) \/ CleanCrash(p)

\* A step of a process touches the shared state only in the ways the proofs below
\* rely on, and goes forward.
LEMMA ActsMoves ==
  ASSUME TypeInv, NEW p \in Procs, Acts(p)
  PROVE  OnlyMoves(p) /\ Looks(p) /\ Progress(p)
<1> USE DEF Goto, Return
<1>0. /\ DOMAIN pc = Procs /\ DOMAIN qid = Procs /\ DOMAIN mp = Procs
      /\ DOMAIN new = Procs /\ DOMAIN retry = Procs /\ DOMAIN stage = Procs
      /\ DOMAIN ret = Procs /\ retry[p] \in 0..MAX_RETRY /\ MAX_RETRY \in Nat
  BY BoundsAssumption, Zenon DEF TypeInv, ProtocolOK
<1>1. CASE Query(p) \/ Open(p) \/ OpenRetry(p) \/ Read(p)
  <2>1. OnlyMoves(p)
    BY <1>0, <1>1, Zenon DEF Query, Open, OpenRetry, Read, QueryId, OnlyMoves
  <2>2. Looks(p)
    BY <1>0, <1>1 DEF Query, Open, OpenRetry, Read, QueryId, Looks
  <2>3. Progress(p)
    BY <1>0, <1>1, Zenon DEF Query, Open, OpenRetry, Read, Progress, Unattached
  <2> QED BY <2>1, <2>2, <2>3, Zenon
<1>2. CASE AttachMulti(p) \/ DetachMulti(p)
  <2>1. OnlyMoves(p)
    BY <1>0, <1>2, Zenon DEF AttachMulti, DetachMulti, Generate, OnlyMoves
  <2>2. Looks(p)
    BY <1>0, <1>2, Zenon DEF AttachMulti, DetachMulti, Generate, Looks
  <2>3. Progress(p)
    BY <1>0, <1>2, Zenon DEF AttachMulti, DetachMulti, Generate, Progress, Unattached
  <2> QED BY <2>1, <2>2, <2>3, Zenon
<1>3. CASE FindProgram(p) \/ DetachAll(p)
  <2>1. OnlyMoves(p)
    BY <1>0, <1>3, Zenon DEF FindProgram, DetachAll, StartQuery, OnlyMoves
  <2>2. Looks(p)
    BY <1>0, <1>3 DEF FindProgram, DetachAll, StartQuery, NoMp, Looks
  <2>3. Progress(p)
    BY <1>0, <1>3, Zenon DEF FindProgram, DetachAll, StartQuery, Progress, Unattached
  <2> QED BY <2>1, <2>2, <2>3, Zenon
<1>4. CASE Pin(p) \/ PinFails(p) \/ Swap(p) \/ UnpinOld(p)
  <2>1. OnlyMoves(p)
    BY <1>0, <1>4 DEF Pin, PinFails, Swap, UnpinOld, OnlyMoves
  <2>2. Looks(p)
    BY <1>0, <1>4, Zenon DEF Pin, PinFails, Swap, UnpinOld, Looks
  <2>3. Progress(p)
    BY <1>0, <1>4, Zenon DEF Pin, PinFails, Swap, UnpinOld, Progress, Unattached
  <2> QED BY <2>1, <2>2, <2>3, Zenon
<1>5. CASE SwapFails(p) \/ UnpinNew(p)
  <2>1. OnlyMoves(p)
    BY <1>0, <1>5, ZenonT(60) DEF SwapFails, UnpinNew, TryAgain, StartQuery, OnlyMoves
  <2>2. Looks(p)
    <3>1. qid'[p] \in {qid[p], NONE} /\ mp'[p] \in {mp[p], NoMp}
      BY <1>0, <1>5, Zenon DEF SwapFails, UnpinNew, TryAgain, StartQuery
    <3>2. NoMp.id = NONE
      BY Zenon DEF NoMp
    <3> QED BY <3>1, <3>2, Zenon DEF Looks
  <2>3. Progress(p)
    BY <1>0, <1>5, SMTT(30) DEF SwapFails, UnpinNew, TryAgain, StartQuery, Progress, Unattached
  <2> QED BY <2>1, <2>2, <2>3, Zenon
<1>6. CASE CleanStart(p) \/ CleanCheck(p) \/ CleanRemove(p) \/ CleanEnd(p) \/ CleanFails(p)
  <2>1. OnlyMoves(p)
    BY <1>0, <1>6, Zenon DEF CleanStart, CleanCheck, CleanRemove, CleanEnd, CleanFails,
    RemoveSome, QueryId, OnlyMoves
  <2>2. Looks(p)
    BY <1>0, <1>6 DEF CleanStart, CleanCheck, CleanRemove, CleanEnd, CleanFails,
    RemoveSome, QueryId, Looks
  <2>3. Progress(p)
    BY <1>0, <1>6, Zenon DEF CleanStart, CleanCheck, CleanRemove, CleanEnd, CleanFails,
    RemoveSome, Progress, Unattached
  <2> QED BY <2>1, <2>2, <2>3, Zenon
<1>7. CASE Crash(p) \/ CrashPinning(p) \/ CrashUnpinning(p) \/ CleanCrash(p)
  <2>1. /\ pc' = [pc EXCEPT ![p] = "crashed"]
        /\ UNCHANGED <<stage, qid, mp, new, retry, ret>>
    BY <1>7, Zenon DEF Crash, CrashPinning, CrashUnpinning, CleanCrash, RemoveSome
  <2>2. OnlyMoves(p) /\ Looks(p)
    BY <1>0, <2>1, Zenon DEF OnlyMoves, Looks
  <2>3. Progress(p)
    BY <1>0, <2>1, Zenon DEF Progress, Unattached
  <2> QED BY <2>1, <2>2, <2>3, Zenon
<1> QED
  BY <1>1, <1>2, <1>3, <1>4, <1>5, <1>6, <1>7, Zenon DEF Acts, Step

\* Only the ip tool and Swap change what is on the interface.
LEMMA HookKept ==
  ASSUME NEW p \in Procs, Acts(p), ~ Swap(p)
  PROVE  hook' = hook
<1>1. CASE \/ Query(p) \/ Open(p) \/ OpenRetry(p) \/ Read(p) \/ FindProgram(p)
           \/ AttachMulti(p) \/ DetachMulti(p) \/ DetachAll(p)
  BY <1>1, Zenon DEF Query, Open, OpenRetry, Read, FindProgram, AttachMulti, DetachMulti,
  DetachAll, kernel
<1>2. CASE Pin(p) \/ PinFails(p) \/ SwapFails(p) \/ UnpinNew(p) \/ UnpinOld(p)
  BY <1>2, Zenon DEF Pin, PinFails, SwapFails, UnpinNew, UnpinOld, kernel
<1>3. CASE CleanStart(p) \/ CleanCheck(p) \/ CleanRemove(p) \/ CleanEnd(p) \/ CleanFails(p)
  BY <1>3 DEF CleanStart, CleanCheck, CleanRemove, CleanEnd, CleanFails, RemoveSome, kernel
<1>4. CASE Crash(p) \/ CrashPinning(p) \/ CrashUnpinning(p) \/ CleanCrash(p)
  BY <1>4, Zenon DEF Crash, CrashPinning, CrashUnpinning, CleanCrash, RemoveSome, kernel
<1> QED
  BY <1>1, <1>2, <1>3, <1>4, Zenon DEF Acts, Step

\* A step that swaps nothing in leaves unattached dispatchers known to their makers only.
LEMMA UnseenStep ==
  ASSUME UnseenInv, NEW p \in Procs, OnlyMoves(p), Looks(p), Progress(p),
         hook' \in {hook, NONE, LEGACY}
  PROVE  UnseenInv'
<1> SUFFICES ASSUME NEW r \in Procs, NEW k \in 0..MAX_RETRY, Unattached(r, k)'
             PROVE  /\ hook' # <<r, k>>
                    /\ \A q \in Procs : qid'[q] # <<r, k>> /\ mp'[q].id # <<r, k>>
  BY Zenon DEF UnseenInv
<1>1. Unattached(r, k)
  <2>1. CASE r = p
    BY <2>1, Zenon DEF Progress
  <2>2. CASE r # p
    BY <2>2, Zenon DEF OnlyMoves, Unattached
  <2> QED BY <2>1, <2>2, Zenon
<1>2. /\ hook # <<r, k>> /\ NONE # <<r, k>> /\ LEGACY # <<r, k>>
      /\ \A q \in Procs : qid[q] # <<r, k>> /\ mp[q].id # <<r, k>>
  BY <1>1, IdFacts, Zenon DEF UnseenInv
<1>3. ASSUME NEW q \in Procs PROVE qid'[q] # <<r, k>> /\ mp'[q].id # <<r, k>>
  <2>1. CASE q = p
    <3>1. qid[p] # <<r, k>> /\ mp[p].id # <<r, k>>
      BY <1>2, Zenon
    <3>2. qid'[p] = qid[p] \/ qid'[p] = hook \/ qid'[p] = NONE
      BY Zenon DEF Looks
    <3>3. mp'[p].id = mp[p].id \/ mp'[p].id = qid[p] \/ mp'[p].id = NONE
      BY Zenon DEF Looks
    <3>4. qid'[p] # <<r, k>>
      BY <1>2, <3>1, <3>2, Zenon
    <3>5. mp'[p].id # <<r, k>>
      BY <1>2, <3>1, <3>3, Zenon
    <3> QED BY <2>1, <3>4, <3>5, Zenon
  <2>2. CASE q # p
    BY <1>2, <2>2, Zenon DEF OnlyMoves
  <2> QED BY <2>1, <2>2, Zenon
<1> QED
  BY <1>2, <1>3

\* What a process has built is its own, and unknown to others until attached.
LEMMA OwnUnseen ==
  ASSUME TypeInv, UnseenInv, NEW p \in Procs, new[p] # NONE
  PROVE  /\ new[p] \in Ids
         /\ \A q \in Procs \ {p} : new[q] # new[p]
         /\ pc[p] \in {"pin", "swap", "unpin_new"} =>
              hook # new[p] /\ \A q \in Procs : mp[q].id # new[p]
<1>1. new[p] = <<p, retry[p]>> /\ retry[p] \in 0..MAX_RETRY /\ new[p] \in Ids
  BY Zenon DEF TypeInv, ProtocolOK, LocalInv
<1>2. ASSUME NEW q \in Procs \ {p} PROVE new[q] # new[p]
  <2>1. new[q] # NONE => new[q] = <<q, retry[q]>>
    BY Zenon DEF TypeInv, LocalInv
  <2> QED BY <1>1, <2>1
<1>3. pc[p] \in {"pin", "swap", "unpin_new"} => Unattached(p, retry[p])
  BY Zenon DEF Unattached
<1> QED
  BY <1>1, <1>2, <1>3, Zenon DEF UnseenInv

\* The same for what it is about to build.
LEMMA NextUnseen ==
  ASSUME TypeInv, UnseenInv, NEW p \in Procs, pc[p] = "use"
  PROVE  /\ <<p, retry[p]>> \in Ids
         /\ hook # <<p, retry[p]>>
         /\ \A q \in Procs : mp[q].id # <<p, retry[p]>> /\ new[q] # <<p, retry[p]>>
<1>1. Unattached(p, retry[p]) /\ retry[p] \in 0..MAX_RETRY
  BY Zenon DEF Unattached, TypeInv, ProtocolOK
<1>2. hook # <<p, retry[p]>> /\ \A q \in Procs : mp[q].id # <<p, retry[p]>>
  BY <1>1, Zenon DEF UnseenInv
<1>3. ASSUME NEW q \in Procs PROVE new[q] # <<p, retry[p]>>
  <2>1. new[q] # NONE => new[q] = <<q, retry[q]>>
    BY Zenon DEF TypeInv, LocalInv
  <2>2. new[p] = NONE
    BY Zenon DEF TypeInv, LocalInv
  <2>3. <<p, retry[p]>> # NONE
    BY <1>1, IdFacts, Zenon
  <2> QED BY <2>1, <2>2, <2>3
<1> QED
  BY <1>1, <1>2, <1>3, IdFacts, Zenon

\* At first nothing has been attached.
LEMMA InitUnseenInv == Init => UnseenInv
BY IdFacts DEF Init, UnseenInv, NoMp, Ids

\* Every step keeps dispatchers that were never attached private.
LEMMA NextUnseenInv == TypeInv /\ UnseenInv /\ [Next]_vars => UnseenInv'
<1> SUFFICES ASSUME TypeInv, UnseenInv, [Next]_vars PROVE UnseenInv'
  BY Zenon
<1>1. ASSUME NEW p \in Procs, Acts(p), ~ Swap(p) PROVE UnseenInv'
  BY <1>1, ActsMoves, HookKept, UnseenStep, Zenon
<1>2. ASSUME NEW p \in Procs, Swap(p) PROVE UnseenInv'
  <2>1. OnlyMoves(p) /\ Looks(p) /\ Progress(p)
    BY <1>2, ActsMoves, Zenon DEF Acts, Step
  <2>2. hook' = new[p] /\ UNCHANGED <<qid, mp, retry>>
    BY <1>2, Zenon DEF Swap
  <2>3. CASE new[p] = NONE
    BY <2>1, <2>2, <2>3, UnseenStep, Zenon
  <2>4. CASE new[p] # NONE
    <3>1. new[p] = <<p, retry[p]>>
      BY <2>4, Zenon DEF TypeInv, LocalInv
    <3> SUFFICES ASSUME NEW r \in Procs, NEW k \in 0..MAX_RETRY, Unattached(r, k)'
                 PROVE  /\ hook' # <<r, k>>
                        /\ \A q \in Procs : qid'[q] # <<r, k>> /\ mp'[q].id # <<r, k>>
      BY Zenon DEF UnseenInv
    <3>2. ~ (r = p /\ k = retry[p])
      <4>1. pc'[p] \in {"done", "unpin_old"} /\ retry[p] \in Nat /\ k \in Nat
        BY <1>2, BoundsAssumption DEF Swap, Goto, Return, TypeInv, ProtocolOK
      <4> QED BY <2>2, <4>1 DEF Unattached
    <3>3. Unattached(r, k)
      <4>1. CASE r = p
        BY <2>1, <4>1, Zenon DEF Progress
      <4>2. CASE r # p
        BY <2>1, <4>2, Zenon DEF OnlyMoves, Unattached
      <4> QED BY <4>1, <4>2, Zenon
    <3>4. hook' # <<r, k>>
      BY <2>2, <3>1, <3>2
    <3> QED BY <2>2, <3>3, <3>4, Zenon DEF UnseenInv
  <2> QED BY <2>3, <2>4, Zenon
<1>3. ASSUME IpAttach \/ IpOff PROVE UnseenInv'
  <2>1. hook' \in {NONE, LEGACY} /\ UNCHANGED <<pc, retry, qid, mp>>
    BY <1>3, Zenon DEF IpAttach, IpOff
  <2> QED BY <2>1, IdFacts, Zenon DEF UnseenInv, Unattached
<1>4. ASSUME UNCHANGED vars PROVE UnseenInv'
  BY <1>4, Zenon DEF vars, UnseenInv, Unattached
<1> QED
  BY <1>1, <1>2, <1>3, <1>4, Zenon DEF Next, Process, CrashAnywhere, Acts

-----------------------------------------------------------------------------
(* Pins, as long as no cleaner has started. *)

\* What a process unpins is not attached and still pinned, what it swaps in is
\* pinned, and a dispatcher whose pins it did not find is not attached any more.
SafeAt(p) ==
    /\ pc[p] = "unpin_old" => hook # mp[p].id /\ Whole(mp[p].id)
    /\ pc[p] = "swap" /\ new[p] # NONE => Whole(new[p])
    /\ mp[p].legacy /\ mp[p].id \in Ids => hook # mp[p].id

\* No two processes have replaced the same dispatcher.
ReplacedOnce ==
    \A p \in Procs : \A q \in Procs \ {p} :
      pc[p] = "unpin_old" /\ pc[q] = "unpin_old" => mp[p].id # mp[q].id

PinInv ==
    /\ lock = NONE
    /\ \A p \in Procs : SafeAt(p)
    /\ ReplacedOnce
    /\ hook \in Ids => Whole(hook)

NoCleaning == \A c \in Cleaners : pc[c] = "clean"

\* At first nobody is about to swap or to unpin.
LEMMA InitPinInv == Init => PinInv
BY IdFacts DEF Init, PinInv, SafeAt, ReplacedOnce, Whole, NoMp

\* A step of p that changes components and pins of d alone, where d is not
\* attached and of no concern to the others.
LEMMA PinStep ==
  ASSUME TypeInv, PinInv, NEW p \in Procs, OnlyMoves(p),
         SafeAt(p)', pc'[p] # "unpin_old", lock' = NONE, hook' = hook,
         NEW d, hook # d,
         \A q \in Procs \ {p} : pc[q] = "swap" => new[q] # d,
         \A q \in Procs \ {p} : pc[q] = "unpin_old" => mp[q].id # d,
         \A e \in Ids \ {d} : Whole(e) => Whole(e)'
  PROVE  PinInv'
<1>1. ASSUME NEW q \in Procs PROVE SafeAt(q)'
  <2>1. CASE q = p
    BY <2>1, Zenon
  <2>2. CASE q # p
    <3>1. pc'[q] = pc[q] /\ new'[q] = new[q] /\ mp'[q] = mp[q] /\ SafeAt(q)
      BY <2>2, Zenon DEF PinInv, OnlyMoves
    <3>2. pc[q] = "swap" /\ new[q] # NONE => Whole(new[q])'
      <4> SUFFICES ASSUME pc[q] = "swap", new[q] # NONE PROVE Whole(new[q])'
        BY Zenon
      <4>1. new[q] \in Ids \ {d}
        BY <2>2, Zenon DEF TypeInv, ProtocolOK
      <4> QED BY <3>1, <4>1, Zenon DEF SafeAt
    <3>3. pc[q] = "unpin_old" => hook # mp[q].id /\ Whole(mp[q].id)'
      <4> SUFFICES ASSUME pc[q] = "unpin_old" PROVE hook # mp[q].id /\ Whole(mp[q].id)'
        BY Zenon
      <4>1. mp[q].id \in Ids \ {d}
        BY <2>2, Zenon DEF TypeInv, LocalInv
      <4> QED BY <3>1, <4>1, Zenon DEF SafeAt
    <3> QED BY <3>1, <3>2, <3>3, Zenon DEF SafeAt, Whole
  <2> QED BY <2>1, <2>2, Zenon
<1>2. hook \in Ids => Whole(hook)'
  BY Zenon DEF PinInv
<1>3. ReplacedOnce'
  BY DEF ReplacedOnce, OnlyMoves, PinInv
<1> QED
  BY <1>1, <1>2, <1>3, Zenon DEF PinInv, Whole

\* A step of p that touches neither pins nor interface.
LEMMA QuietStep ==
  ASSUME TypeInv, PinInv, NEW p \in Procs, OnlyMoves(p), SafeAt(p)',
         pc'[p] # "unpin_old", UNCHANGED <<hook, progs, dirs, links, pinned, lock>>
  PROVE  PinInv'
<1>1. ASSUME NEW q \in Procs PROVE SafeAt(q)'
  <2>1. CASE q # p
    BY SMTT(40), <2>1 DEF PinInv, SafeAt, Whole, OnlyMoves
  <2> QED BY <2>1, ZenonT(60)
<1>2. ReplacedOnce'
  BY DEF ReplacedOnce, OnlyMoves, PinInv
<1> QED
  BY <1>1, <1>2, Zenon DEF PinInv, Whole

\* While no cleaner has started no process is inside one.
LEMMA NoCleaner ==
  ASSUME TypeInv, NoCleaning, NoCleaning', NEW p \in Procs,
         \/ CleanStart(p) \/ CleanCheck(p) \/ CleanRemove(p) \/ CleanEnd(p)
         \/ CleanFails(p) \/ CleanCrash(p)
  PROVE  FALSE
<1>1. p \in Cleaners /\ pc[p] = "clean" /\ DOMAIN pc = Procs
  BY Zenon DEF CleanStart, CleanCheck, CleanRemove, CleanEnd, CleanFails, CleanCrash,
  RemoveSome, TypeInv, LocalInv, ProtocolOK, NoCleaning
<1>2. pc'[p] = "check"
  BY <1>1, Zenon DEF CleanStart, CleanCheck, CleanRemove, CleanEnd, CleanFails,
  CleanCrash, RemoveSome, Goto
<1> QED
  BY <1>1, <1>2, Zenon DEF NoCleaning

\* Unpinning one dispatcher leaves the pins of the others alone.
LEMMA UnpinOthers ==
  ASSUME TypeInv, NEW d, Unpin(d), progs' = progs
  PROVE  \A e \in Ids \ {d} : /\ Whole(e) => Whole(e)'
                             /\ links'[e] = links[e]
<1>1. /\ dirs' = dirs \/ dirs' = dirs \ {d}
      /\ \E L, P : links' = [links EXCEPT ![d] = L] /\ pinned' = [pinned EXCEPT ![d] = P]
  BY Zenon DEF Unpin, RemoveDir
<1>2. DOMAIN links = Ids /\ DOMAIN pinned = Ids
  BY Zenon DEF TypeInv, ProtocolOK
<1> QED
  BY <1>1, <1>2, Zenon DEF Whole

\* As long as no cleaner has started, no step unpins the attached dispatcher.
LEMMA NextPinInv ==
  ASSUME NoCleaning, NoCleaning', TypeInv, UnseenInv, PinInv, [Next]_vars
  PROVE  PinInv'
<1> USE DEF Goto, Return
<1>0. /\ DOMAIN pc = Procs /\ DOMAIN mp = Procs /\ DOMAIN new = Procs
      /\ DOMAIN progs = Ids /\ DOMAIN links = Ids /\ DOMAIN pinned = Ids
      /\ \A q \in Procs : new[q] \in Ids \cup {NONE}
  BY Zenon DEF TypeInv, ProtocolOK
<1>m. ASSUME NEW p \in Procs, Acts(p) PROVE OnlyMoves(p)
  BY <1>m, ActsMoves, Zenon
<1>n. ~ NoMp.legacy
  BY Zenon DEF NoMp
<1>1. ASSUME NEW p \in Procs,
             Query(p) \/ OpenRetry(p) \/ PinFails(p) \/ Crash(p) \/ DetachAll(p)
      PROVE  PinInv'
  <2>1. OnlyMoves(p)
    BY <1>1, <1>m, Zenon DEF Acts, Step
  <2>2. /\ UNCHANGED <<hook, progs, dirs, links, pinned, mp, new>>
        /\ pc'[p] # "unpin_old"
    BY <1>0, <1>1, Zenon DEF Query, OpenRetry, PinFails, Crash, DetachAll, kernel, bpffs
  <2>3. lock' = lock
    BY <1>1, Zenon DEF Query, OpenRetry, PinFails, Crash, DetachAll, PinInv
  <2>4. pc'[p] = "swap" => new[p] = NONE
    BY <1>0, <1>1, Zenon DEF Query, OpenRetry, PinFails, Crash, DetachAll, TypeInv, LocalInv
  <2>5. SafeAt(p)'
    BY <2>2, <2>4, Zenon DEF SafeAt, PinInv
  <2> QED BY <2>1, <2>2, <2>3, <2>5, QuietStep, Zenon
<1>2. ASSUME NEW p \in Procs, Open(p) \/ FindProgram(p) PROVE PinInv'
  <2>1. OnlyMoves(p)
    BY <1>2, <1>m, Zenon DEF Acts, Step
  <2>2. /\ UNCHANGED <<hook, progs, dirs, links, pinned, lock>>
        /\ pc'[p] \notin {"unpin_old", "swap"}
    BY <1>0, <1>2, Zenon DEF Open, FindProgram, StartQuery, kernel, bpffs
  <2>3. mp'[p].legacy => mp'[p] = mp[p] \/ mp'[p].id = LEGACY
    <3>1. CASE Open(p)
      BY <1>0, <3>1, Zenon DEF Open
    <3>2. CASE FindProgram(p)
      <4>1. mp' = mp \/ mp'[p] = NoMp
        BY <1>0, <3>2, Zenon DEF FindProgram, StartQuery
      <4> QED BY <1>n, <4>1, Zenon
    <3> QED BY <1>2, <3>1, <3>2, Zenon
  <2>4. SafeAt(p)'
    BY <2>2, <2>3, IdFacts, Zenon DEF SafeAt, PinInv
  <2> QED BY <2>1, <2>2, <2>4, QuietStep, Zenon
<1>3. ASSUME NEW p \in Procs, Read(p) PROVE PinInv'
  <2>1. OnlyMoves(p)
    BY <1>3, <1>m, Zenon DEF Acts, Step
  <2>2. /\ UNCHANGED <<hook, progs, dirs, links, pinned, lock>>
        /\ pc'[p] = "use" /\ mp'[p].id = mp[p].id
    BY <1>0, <1>3, Zenon DEF Read, kernel, bpffs
  <2>3. mp'[p].legacy =>
          ~ (mp[p].id \in dirs /\ progs[mp[p].id] \subseteq pinned[mp[p].id])
    BY <1>0, <1>3, Zenon DEF Read
  <2>4. SafeAt(p)'
    BY <2>2, <2>3, Zenon DEF SafeAt, PinInv, Whole
  <2> QED BY <2>1, <2>2, <2>4, QuietStep, Zenon
<1>4. ASSUME NEW p \in Procs, SwapFails(p) PROVE PinInv'
  <2>1. OnlyMoves(p)
    BY <1>4, <1>m, Zenon DEF Acts, Step
  <2>2. /\ UNCHANGED <<hook, progs, dirs, links, pinned, lock>>
        /\ pc'[p] \notin {"unpin_old", "swap"}
        /\ mp'[p] = mp[p] \/ mp'[p] = NoMp
    BY <1>0, <1>4, Zenon DEF SwapFails, TryAgain, StartQuery, kernel, bpffs
  <2>3. SafeAt(p)'
    BY <1>n, <2>2, Zenon DEF SafeAt, PinInv
  <2> QED BY <2>1, <2>2, <2>3, QuietStep, Zenon
<1>5. ASSUME NEW p \in Procs, AttachMulti(p) \/ DetachMulti(p) PROVE PinInv'
  <2>1. OnlyMoves(p)
    BY <1>5, <1>m, Zenon DEF Acts, Step
  <2> DEFINE d == <<p, retry[p]>>
  <2>2. hook # d /\ \A q \in Procs : mp[q].id # d /\ new[q] # d
    <3>1. pc[p] = "use"
      BY <1>5, Zenon DEF AttachMulti, DetachMulti
    <3> QED BY <3>1, NextUnseen, Zenon
  <2>3. /\ hook' = hook /\ lock' = NONE /\ UNCHANGED <<dirs, links, pinned, mp>>
        /\ pc'[p] # "unpin_old"
    BY <1>0, <1>5, Zenon DEF AttachMulti, DetachMulti, Generate, bpffs, PinInv
  <2>4. \A e \in Ids \ {d} : Whole(e) => Whole(e)'
    BY <1>0, <1>5, Zenon DEF AttachMulti, DetachMulti, Generate, bpffs, Whole
  <2>5. pc'[p] = "swap" => new'[p] = NONE
    BY <1>0, <1>5, Zenon DEF AttachMulti, DetachMulti, Generate, TypeInv, LocalInv
  <2>6. SafeAt(p)'
    BY <2>3, <2>5, ZenonT(60) DEF SafeAt, PinInv
  <2> HIDE DEF d
  <2> QED BY <2>1, <2>2, <2>3, <2>4, <2>6, PinStep, Zenon
<1>6. ASSUME NEW p \in Procs, Pin(p) PROVE PinInv'
  <2>1. OnlyMoves(p)
    BY <1>6, <1>m, Zenon DEF Acts, Step
  <2>2. /\ new[p] \in Ids /\ hook # new[p] /\ \A q \in Procs \ {p} : new[q] # new[p]
        /\ \A q \in Procs : mp[q].id # new[p]
    BY <1>6, OwnUnseen, Zenon DEF Pin, TypeInv, LocalInv
  <2>3. hook' = hook /\ lock' = NONE /\ mp' = mp /\ new' = new /\ pc'[p] = "swap"
    BY <1>0, <1>6, Zenon DEF Pin, PinInv, kernel
  <2>4. Whole(new[p])'
    BY <1>0, <1>6, <2>2, Zenon DEF Pin, Whole, kernel
  <2>5. SafeAt(p)'
    BY <2>3, <2>4, Zenon DEF SafeAt, PinInv, Whole
  <2>6. \A e \in Ids \ {new[p]} : Whole(e) => Whole(e)'
    BY <1>0, <1>6, <2>2, Zenon DEF Pin, Whole, kernel
  <2> QED BY <2>1, <2>2, <2>3, <2>5, <2>6, PinStep
<1>7. ASSUME NEW p \in Procs, UnpinNew(p) PROVE PinInv'
  <2>1. OnlyMoves(p)
    BY <1>7, <1>m, Zenon DEF Acts, Step
  <2>2. /\ new[p] \in Ids /\ hook # new[p] /\ \A q \in Procs \ {p} : new[q] # new[p]
        /\ \A q \in Procs : mp[q].id # new[p]
    BY <1>7, OwnUnseen, Zenon DEF UnpinNew, TypeInv, LocalInv
  <2>3. /\ hook' = hook /\ lock' = NONE /\ pc'[p] \notin {"unpin_old", "swap"}
        /\ mp'[p] = mp[p] \/ mp'[p] = NoMp
    BY <1>0, <1>7, Zenon DEF UnpinNew, Unpin, TryAgain, StartQuery, PinInv, kernel
  <2>4. SafeAt(p)'
    BY <1>n, <2>3, Zenon DEF SafeAt, PinInv
  <2>5. \A e \in Ids \ {new[p]} : Whole(e) => Whole(e)'
    BY <1>7, UnpinOthers, Zenon DEF UnpinNew, kernel
  <2> QED BY <2>1, <2>2, <2>3, <2>4, <2>5, PinStep
<1>8. ASSUME NEW p \in Procs, UnpinOld(p) PROVE PinInv'
  <2>1. OnlyMoves(p)
    BY <1>8, <1>m, Zenon DEF Acts, Step
  <2>2. mp[p].id \in Ids /\ hook # mp[p].id
    BY <1>8, Zenon DEF UnpinOld, TypeInv, LocalInv, PinInv, SafeAt
  <2>3. /\ \A q \in Procs \ {p} : pc[q] = "swap" => new[q] # mp[p].id
        /\ \A q \in Procs \ {p} : pc[q] = "unpin_old" => mp[q].id # mp[p].id
    <3>1. \A q \in Procs \ {p} : pc[q] = "swap" => new[q] # mp[p].id
      BY <2>2, OwnUnseen, IdFacts, Zenon
    <3> QED BY <1>8, <3>1, Zenon DEF UnpinOld, PinInv, ReplacedOnce
  <2>4. hook' = hook /\ lock' = NONE /\ mp' = mp /\ pc'[p] = "done"
    BY <1>0, <1>8, Zenon DEF UnpinOld, Unpin, PinInv, kernel
  <2>5. SafeAt(p)'
    BY <2>4, Zenon DEF SafeAt, PinInv
  <2>6. \A e \in Ids \ {mp[p].id} : Whole(e) => Whole(e)'
    BY <1>8, UnpinOthers, Zenon DEF UnpinOld, kernel
  <2> HIDE DEF TypeInv, PinInv
  <2> QED BY <2>1, <2>2, <2>3, <2>4, <2>5, <2>6, PinStep, Zenon
<1>9. ASSUME NEW p \in Procs, CrashPinning(p) PROVE PinInv'
  <2>1. OnlyMoves(p)
    BY <1>9, <1>m, Zenon DEF Acts
  <2>2. /\ hook # new[p] /\ \A q \in Procs \ {p} : new[q] # new[p]
        /\ \A q \in Procs : mp[q].id # new[p]
    BY <1>9, OwnUnseen, Zenon DEF CrashPinning, TypeInv, LocalInv
  <2>3. hook' = hook /\ lock' = NONE /\ mp' = mp /\ pc'[p] = "crashed" /\ progs' = progs
    BY <1>0, <1>9, Zenon DEF CrashPinning, PinInv, kernel
  <2>4. SafeAt(p)'
    BY <2>3, Zenon DEF SafeAt, PinInv
  <2>5. /\ dirs' = dirs \cup {new[p]}
        /\ \E L, P : /\ links' = [links EXCEPT ![new[p]] = L]
                     /\ pinned' = [pinned EXCEPT ![new[p]] = P]
    BY <1>9, Zenon DEF CrashPinning
  <2>6. \A e \in Ids \ {new[p]} : Whole(e) => Whole(e)'
    BY <1>0, <2>3, <2>5, Zenon DEF Whole
  <2> DEFINE d == new[p]
  <2>7. /\ hook # d /\ \A e \in Ids \ {d} : Whole(e) => Whole(e)'
        /\ \A q \in Procs \ {p} : pc[q] = "swap" => new[q] # d
        /\ \A q \in Procs \ {p} : pc[q] = "unpin_old" => mp[q].id # d
    BY <2>2, <2>6, Zenon
  <2>8. pc'[p] # "unpin_old"
    BY <2>3
  <2> HIDE DEF d, TypeInv, PinInv
  <2> QED BY <2>1, <2>3, <2>4, <2>7, <2>8, PinStep, ZenonT(60)
<1>13. ASSUME NEW p \in Procs, CrashUnpinning(p) PROVE PinInv'
  <2>1. OnlyMoves(p)
    BY <1>13, <1>m, Zenon DEF Acts
  <2> DEFINE d == IF pc[p] = "unpin_old" THEN mp[p].id ELSE new[p]
  <2>2. /\ d \in Ids /\ hook # d
        /\ \A q \in Procs \ {p} : pc[q] = "swap" => new[q] # d
        /\ \A q \in Procs \ {p} : pc[q] = "unpin_old" => mp[q].id # d
    <3>1. CASE pc[p] = "unpin_old"
      <4>1. mp[p].id \in Ids /\ hook # mp[p].id
        BY <3>1, Zenon DEF TypeInv, LocalInv, PinInv, SafeAt
      <4>2. \A q \in Procs \ {p} : pc[q] = "swap" => new[q] # mp[p].id
        BY <4>1, OwnUnseen, IdFacts, Zenon
      <4> QED BY <3>1, <4>1, <4>2, Zenon DEF PinInv, ReplacedOnce
    <3>2. CASE pc[p] # "unpin_old"
      <4>1. new[p] # NONE /\ pc[p] = "unpin_new"
        BY <1>13, <3>2, Zenon DEF CrashUnpinning, TypeInv, LocalInv
      <4> QED BY <3>2, <4>1, OwnUnseen, Zenon
    <3> QED BY <3>1, <3>2, Zenon
  <2>3. /\ hook' = hook /\ lock' = NONE /\ mp' = mp /\ pc'[p] = "crashed"
        /\ dirs' = dirs /\ progs' = progs
    BY <1>0, <1>13, Zenon DEF CrashUnpinning, PinInv, kernel
  <2>4. SafeAt(p)'
    BY <2>3, Zenon DEF SafeAt, PinInv
  <2>5. \E L, P : links' = [links EXCEPT ![d] = L] /\ pinned' = [pinned EXCEPT ![d] = P]
    BY <1>13, Zenon DEF CrashUnpinning
  <2> HIDE DEF d
  <2>6. \A e \in Ids \ {d} : Whole(e) => Whole(e)'
    BY <1>0, <2>3, <2>5, Zenon DEF Whole
  <2> HIDE DEF TypeInv, PinInv
  <2> QED BY <2>1, <2>2, <2>3, <2>4, <2>6, PinStep, ZenonT(60)
<1>10. ASSUME NEW p \in Procs, Swap(p) PROVE PinInv'
  <2>1. OnlyMoves(p)
    BY <1>10, <1>m, Zenon DEF Acts, Step
  <2>2. /\ hook' = new[p] /\ lock' = NONE /\ hook = mp[p].id /\ pc[p] = "swap"
        /\ UNCHANGED <<progs, dirs, links, pinned, mp, new>>
        /\ pc'[p] \in {"done", "unpin_old"}
        /\ pc'[p] = "unpin_old" => mp[p].id # NONE /\ ~ mp[p].legacy
    BY <1>0, <1>10, Zenon DEF Swap, bpffs, PinInv
  <2>3. new[p] # NONE => /\ new[p] \in Ids /\ Whole(new[p])
                         /\ \A q \in Procs : mp[q].id # new[p]
    BY <2>2, OwnUnseen, Zenon DEF PinInv, SafeAt
  <2>4. pc'[p] = "unpin_old" => mp[p].id \in Ids /\ Whole(mp[p].id)
    <3> SUFFICES ASSUME pc'[p] = "unpin_old" PROVE mp[p].id \in Ids /\ Whole(mp[p].id)
      BY Zenon
    <3>1. mp[p].id \in Mains \cup {NONE} /\ (mp[p].id = LEGACY => mp[p].legacy)
      BY Zenon DEF TypeInv, ProtocolOK, LocalInv
    <3>2. mp[p].id \in Ids
      BY <2>2, <3>1, Zenon DEF Mains
    <3> QED BY <2>2, <3>2, Zenon DEF PinInv
  <2>5. ASSUME NEW q \in Procs PROVE SafeAt(q)'
    <3>1. mp[q].id \in Ids => mp[q].id # new[p]
      BY <2>3, IdFacts, Zenon
    <3>2. mp[q].legacy /\ mp[q].id \in Ids => hook' # mp[q].id
      BY <2>2, <3>1, Zenon
    <3>3. pc'[q] = "unpin_old" => hook' # mp[q].id /\ Whole(mp[q].id)
      <4>1. CASE q = p
        BY <2>2, <2>4, <3>1, <4>1, Zenon
      <4>2. CASE q # p
        <5>1. pc'[q] = pc[q] /\ SafeAt(q) /\ (pc[q] = "unpin_old" => mp[q].id \in Ids)
          BY <2>1, <4>2, Zenon DEF OnlyMoves, PinInv, TypeInv, LocalInv
        <5> QED BY <2>2, <3>1, <5>1, Zenon DEF SafeAt
      <4> QED BY <4>1, <4>2, Zenon
    <3>4. pc'[q] = "swap" /\ new[q] # NONE => Whole(new[q])
      <4>1. CASE q # p
        BY <2>1, <4>1, Zenon DEF OnlyMoves, PinInv, SafeAt
      <4> QED BY <2>2, <4>1, Zenon
    <3> QED BY <2>2, <3>2, <3>3, <3>4, Zenon DEF SafeAt, Whole
  <2>6. ReplacedOnce'
    <3> SUFFICES ASSUME NEW r \in Procs, NEW q \in Procs \ {r},
                        pc'[r] = "unpin_old", pc'[q] = "unpin_old"
                 PROVE  mp[r].id # mp[q].id
      BY <2>2, Zenon DEF ReplacedOnce
    <3>1. \A s \in Procs \ {p} : pc'[s] = "unpin_old" =>
                                   pc[s] = "unpin_old" /\ mp[s].id # mp[p].id
      BY <2>1, <2>2 DEF OnlyMoves, PinInv, SafeAt
    <3> QED BY <3>1, Zenon DEF PinInv, ReplacedOnce
  <2>7. hook' \in Ids => Whole(hook)'
    BY <2>2, <2>3, IdFacts, Zenon DEF Whole
  <2> QED BY <2>2, <2>5, <2>6, <2>7, Zenon DEF PinInv
<1>11. ASSUME IpAttach \/ IpOff PROVE PinInv'
  <2>1. hook' \notin Ids
    BY <1>11, IdFacts, Zenon DEF IpAttach, IpOff
  <2>2. UNCHANGED <<progs, dirs, links, pinned, lock, pc, mp, new>>
    BY <1>11, Zenon DEF IpAttach, IpOff, bpffs
  <2>3. ASSUME NEW q \in Procs PROVE SafeAt(q)'
    <3>1. pc[q] = "unpin_old" => mp[q].id \in Ids
      BY Zenon DEF TypeInv, LocalInv
    <3> QED BY <2>1, <2>2, <3>1, Zenon DEF PinInv, SafeAt, Whole
  <2> QED BY <2>1, <2>2, <2>3, Zenon DEF PinInv, ReplacedOnce
<1>12. ASSUME UNCHANGED vars PROVE PinInv'
  BY <1>12, Zenon DEF vars, PinInv, SafeAt, ReplacedOnce, Whole
<1> QED
  BY Zenon, <1>1, <1>2, <1>3, <1>4, <1>5, <1>6, <1>7, <1>8, <1>9, <1>10, <1>11, <1>12,
     <1>13, NoCleaner DEF Next, Process, CrashAnywhere, Step

\* Who has entered libxdp_clean_references never is before it again.
LEMMA NoCleaningBefore == TypeInv /\ [Next]_vars /\ NoCleaning' => NoCleaning
<1> SUFFICES ASSUME TypeInv, [Next]_vars, NEW c \in Cleaners, pc'[c] = "clean"
             PROVE  pc[c] = "clean"
  BY Zenon DEF NoCleaning
<1> USE DEF Goto, Return
<1>0. DOMAIN pc = Procs /\ c \in Procs
  BY Zenon DEF TypeInv, ProtocolOK, Procs
<1>1. ASSUME NEW p \in Procs, Step(p) PROVE pc[c] = "clean"
  <2>1. CASE Query(p) \/ Open(p) \/ OpenRetry(p) \/ Read(p)
    BY <1>0, <2>1, ZenonT(60) DEF Query, Open, OpenRetry, Read
  <2>2. CASE AttachMulti(p) \/ FindProgram(p) \/ DetachMulti(p) \/ DetachAll(p)
    BY <1>0, <2>2 DEF AttachMulti, FindProgram, DetachMulti, DetachAll, Generate,
    StartQuery
  <2>3. CASE Pin(p) \/ PinFails(p) \/ Swap(p) \/ UnpinOld(p)
    BY <1>0, <2>3, ZenonT(60) DEF Pin, PinFails, Swap, UnpinOld
  <2>4. CASE SwapFails(p) \/ UnpinNew(p)
    BY <1>0, <2>4 DEF SwapFails, UnpinNew, TryAgain, StartQuery
  <2>5. CASE CleanStart(p) \/ CleanCheck(p) \/ CleanRemove(p) \/ CleanEnd(p) \/ CleanFails(p)
    BY <1>0, <2>5, Zenon DEF CleanStart, CleanCheck, CleanRemove, CleanEnd, CleanFails
  <2> QED BY <1>1, <2>1, <2>2, <2>3, <2>4, <2>5, Zenon DEF Step
<1>2. ASSUME NEW p \in Procs,
             Crash(p) \/ CrashPinning(p) \/ CrashUnpinning(p) \/ CleanCrash(p)
      PROVE  pc[c] = "clean"
  BY <1>0, <1>2, Zenon DEF Crash, CrashPinning, CrashUnpinning, CleanCrash
<1>3. ASSUME IpAttach \/ IpOff \/ UNCHANGED vars PROVE pc[c] = "clean"
  BY <1>3, Zenon DEF IpAttach, IpOff, vars
<1> QED
  BY <1>1, <1>2, <1>3, Zenon DEF Next, Process, CrashAnywhere

\* The invariants together.
DispatcherInv == TypeInv /\ UnseenInv /\ (NoCleaning => PinInv)

\* The invariants together hold at first.
LEMMA InitDispatcherInv == Init => DispatcherInv
BY InitTypeInv, InitUnseenInv, InitPinInv, Zenon DEF DispatcherInv

\* Every step keeps them together.
LEMMA NextDispatcherInv == DispatcherInv /\ [Next]_vars => DispatcherInv'
<1> SUFFICES ASSUME DispatcherInv, [Next]_vars PROVE DispatcherInv'
  BY Zenon
<1>1. TypeInv' /\ UnseenInv'
  BY NextTypeInv, NextUnseenInv, Zenon DEF DispatcherInv
<1>2. ASSUME NoCleaning' PROVE PinInv'
  <2>1. NoCleaning
    BY <1>2, NoCleaningBefore, Zenon DEF DispatcherInv
  <2> QED BY <1>2, <2>1, NextPinInv, Zenon DEF DispatcherInv
<1> QED
  BY <1>1, <1>2, Zenon DEF DispatcherInv

\* Until somebody calls libxdp_clean_references, the attached dispatcher has all
\* its components pinned, whoever crashes where and whatever the ip tool does.
THEOREM DispatcherPinnedUntilCleaned == Spec => []PinnedUntilCleaned
<1>1. DispatcherInv => PinnedUntilCleaned
  BY Zenon DEF DispatcherInv, PinInv, AttachedIsPinned, PinnedUntilCleaned, NoCleaning
<1> QED
  BY <1>1, InitDispatcherInv, NextDispatcherInv, PTL DEF Spec

-----------------------------------------------------------------------------
(* Retries and failures leave no pin directory behind. *)

Quiet ==
    /\ ips = 0
    /\ \A p \in Procs : pc[p] # "crashed"
    /\ \A c \in Cleaners : pc[c] = "done" => ret[c] = "ok"

\* The pins of d are p's to remove, or about to be those of the interface.
Owes(p, d) ==
    \/ pc[p] \in {"swap", "unpin_new"} /\ new[p] = d
    \/ pc[p] = "unpin_old" /\ mp[p].id = d

\* Every directory is complete and is that of the attached dispatcher or somebody
\* owes its removal; and who did not find a directory did not overlook one.
Tidy ==
    /\ \A d \in dirs : d = hook \/ \E p \in Procs : Owes(p, d)
    /\ \A d \in dirs : Whole(d)
    /\ \A p \in Procs : mp[p].legacy => mp[p].id \notin dirs

LeakInv == Quiet => Tidy

\* Steps of p that pin and attach nothing.
LEMMA TidyStep ==
  ASSUME Tidy, NEW p \in Procs, OnlyMoves(p), hook' = hook, dirs' \subseteq dirs,
         \A d \in dirs' : Whole(d)',
         \A d \in dirs' : Owes(p, d) => Owes(p, d)',
         mp'[p].legacy => mp'[p].id \notin dirs'
  PROVE  Tidy'
<1>1. ASSUME NEW d \in dirs' PROVE d = hook \/ \E q \in Procs : Owes(q, d)'
  <2>1. d = hook \/ \E q \in Procs : Owes(q, d)
    BY Zenon DEF Tidy
  <2>2. \A q \in Procs : Owes(q, d) => Owes(q, d)'
    BY DEF OnlyMoves, Owes
  <2> QED BY <2>1, <2>2, Zenon
<1>2. \A q \in Procs : mp'[q].legacy => mp'[q].id \notin dirs'
  BY Zenon DEF Tidy, OnlyMoves
<1> QED
  BY <1>1, <1>2 DEF Tidy

\* Without crashes and the script now, there were none a step ago.
LEMMA QuietBefore ==
  ASSUME TypeInv, TypeOK, [Next]_vars, Quiet'
  PROVE  Quiet
<1>0. DOMAIN pc = Procs /\ ips \in Nat
  BY BoundsAssumption DEF TypeInv, ProtocolOK, TypeOK
<1>1. ASSUME NEW p \in Procs, Process(p) \/ CrashAnywhere(p) PROVE Quiet
  <2>1. OnlyMoves(p) /\ ips' = ips
    BY <1>1, ActsMoves, Zenon DEF Acts, Process, CrashAnywhere
  <2>2. pc[p] \notin {"crashed", "done"}
    <3>1. CASE Query(p)
      BY <3>1, Zenon DEF Query
    <3>2. CASE Open(p)
      BY <3>2, Zenon DEF Open
    <3>3. CASE OpenRetry(p)
      BY <3>3, Zenon DEF OpenRetry
    <3>4. CASE Read(p)
      BY <3>4, Zenon DEF Read
    <3>5. CASE AttachMulti(p)
      BY <3>5, Zenon DEF AttachMulti
    <3>6. CASE FindProgram(p)
      BY <3>6, Zenon DEF FindProgram
    <3>7. CASE DetachMulti(p)
      BY <3>7, Zenon DEF DetachMulti
    <3>8. CASE DetachAll(p)
      BY <3>8, Zenon DEF DetachAll
    <3>9. CASE Pin(p)
      BY <3>9, Zenon DEF Pin
    <3>10. CASE PinFails(p)
      BY <3>10, Zenon DEF PinFails
    <3>11. CASE Swap(p)
      BY <3>11, Zenon DEF Swap
    <3>12. CASE SwapFails(p)
      BY <3>12, Zenon DEF SwapFails
    <3>13. CASE UnpinNew(p)
      BY <3>13, Zenon DEF UnpinNew
    <3>14. CASE UnpinOld(p)
      BY <3>14, Zenon DEF UnpinOld
    <3>15. CASE CleanStart(p)
      BY <3>15, Zenon DEF CleanStart
    <3>16. CASE CleanCheck(p)
      BY <3>16, Zenon DEF CleanCheck
    <3>17. CASE CleanRemove(p)
      BY <3>17, Zenon DEF CleanRemove
    <3>18. CASE CleanEnd(p)
      BY <3>18, Zenon DEF CleanEnd
    <3>19. CASE Crash(p)
      BY <3>19, Zenon DEF Crash
    <3>20. CASE CrashPinning(p) \/ CrashUnpinning(p)
      BY <3>20, Zenon DEF CrashPinning, CrashUnpinning
    <3>21. CASE CleanFails(p) \/ CleanCrash(p)
      BY <3>21, Zenon DEF CleanFails, CleanCrash, RemoveSome
    <3> QED
      BY ZenonT(60), <1>1, <3>1, <3>2, <3>3, <3>4, <3>5, <3>6, <3>7, <3>8, <3>9, <3>10,
         <3>11, <3>12, <3>13, <3>14, <3>15, <3>16, <3>17, <3>18, <3>19,
         <3>20, <3>21
         DEF Process, CrashAnywhere, Step
  <2>3. Cleaners \subseteq Procs
    BY ZenonT(60) DEF Procs
  <2> QED BY <2>1, <2>2, <2>3, Zenon DEF Quiet, OnlyMoves
<1>2. CASE IpAttach \/ IpOff
  BY <1>0, <1>2 DEF IpAttach, IpOff, Quiet
<1>3. CASE UNCHANGED vars
  BY <1>3, Zenon DEF vars, Quiet
<1> QED
  BY <1>1, <1>2, <1>3, Zenon DEF Next

\* xdp_multiprog__detach builds no dispatcher.
AllBuildsNothing == \A p \in Procs : stage[p] = "all" => new[p] = NONE

\* An unload of everything never builds a dispatcher.
LEMMA NextAllBuildsNothing ==
  ASSUME TypeInv, AllBuildsNothing, [Next]_vars
  PROVE  AllBuildsNothing'
<1>0. DOMAIN stage = Procs /\ DOMAIN new = Procs
  BY Zenon DEF TypeInv, ProtocolOK
<1>1. ASSUME NEW p \in Procs, Acts(p) PROVE AllBuildsNothing'
  <2>1. stage'[p] = "all" => new'[p] = NONE
    <3>1. CASE AttachMulti(p)
      BY <3>1, Zenon DEF AttachMulti
    <3>2. CASE DetachMulti(p)
      BY <3>2, Zenon DEF DetachMulti
    <3>3. CASE FindProgram(p)
      BY <1>0, <3>3, Zenon DEF FindProgram, AllBuildsNothing
    <3>4. CASE SwapFails(p)
      BY <1>0, <3>4, Zenon DEF SwapFails, TryAgain, StartQuery, AllBuildsNothing
    <3>5. CASE UnpinNew(p)
      BY <1>0, <3>5, Zenon DEF UnpinNew, TryAgain, StartQuery, AllBuildsNothing
    <3>6. CASE Query(p) \/ Open(p) \/ OpenRetry(p) \/ Read(p) \/ DetachAll(p)
      BY <3>6, Zenon DEF Query, Open, OpenRetry, Read, DetachAll, AllBuildsNothing
    <3>7. CASE \/ Pin(p) \/ PinFails(p) \/ Swap(p) \/ UnpinOld(p) \/ Crash(p)
               \/ CrashPinning(p) \/ CrashUnpinning(p)
      BY <3>7, Zenon DEF Pin, PinFails, Swap, UnpinOld, Crash, CrashPinning,
      CrashUnpinning, AllBuildsNothing
    <3>8. CASE \/ CleanStart(p) \/ CleanCheck(p) \/ CleanRemove(p) \/ CleanEnd(p)
               \/ CleanFails(p) \/ CleanCrash(p)
      BY <3>8, Zenon DEF CleanStart, CleanCheck, CleanRemove, CleanEnd, CleanFails,
      CleanCrash, RemoveSome, AllBuildsNothing
    <3> QED
      BY <1>1, <3>1, <3>2, <3>3, <3>4, <3>5, <3>6, <3>7, <3>8, Zenon DEF Acts, Step
  <2>2. OnlyMoves(p)
    BY <1>1, ActsMoves, Zenon
  <2> QED BY <2>1, <2>2, Zenon DEF OnlyMoves, AllBuildsNothing
<1>2. CASE IpAttach \/ IpOff
  BY <1>2, Zenon DEF IpAttach, IpOff, AllBuildsNothing
<1>3. CASE UNCHANGED vars
  BY <1>3, Zenon DEF vars, AllBuildsNothing
<1> QED
  BY <1>1, <1>2, <1>3, Zenon DEF Next, Process, CrashAnywhere, Acts

\* Every directory keeps an owner: the hook, or a process that will remove it.
LEMMA NextLeakInv ==
  ASSUME TypeInv, TypeOK, UnseenInv, AllBuildsNothing, LeakInv, [Next]_vars
  PROVE  LeakInv'
<1> SUFFICES ASSUME Quiet' PROVE Tidy'
  BY Zenon DEF LeakInv
<1> USE DEF Goto, Return
<1>0. /\ DOMAIN pc = Procs /\ DOMAIN mp = Procs /\ DOMAIN new = Procs
      /\ DOMAIN progs = Ids /\ DOMAIN pinned = Ids /\ DOMAIN links = Ids
      /\ dirs \subseteq Ids
      /\ \A q \in Procs : new[q] \in Ids \cup {NONE}
  BY Zenon DEF TypeInv, ProtocolOK
<1>t. Tidy
  BY QuietBefore, Zenon DEF LeakInv
<1>f. /\ \A d \in dirs : Whole(d)
      /\ \A q \in Procs : mp[q].legacy => mp[q].id \notin dirs
  BY <1>t, Zenon DEF Tidy
<1>m. ASSUME NEW p \in Procs, Acts(p) PROVE OnlyMoves(p)
  BY <1>m, ActsMoves, Zenon
<1>n. ~ NoMp.legacy
  BY Zenon DEF NoMp
<1>1. ASSUME NEW p \in Procs,
             \/ Query(p) \/ OpenRetry(p) \/ FindProgram(p) \/ DetachAll(p)
             \/ PinFails(p) \/ CleanStart(p) \/ CleanCheck(p) \/ CleanEnd(p)
      PROVE  Tidy'
  <2>1. OnlyMoves(p)
    BY <1>1, <1>m, Zenon DEF Acts, Step
  <2>2. /\ UNCHANGED <<hook, progs, dirs, links, pinned>>
        /\ pc[p] \notin {"swap", "unpin_new", "unpin_old"}
    BY <1>1, Zenon DEF Query, OpenRetry, FindProgram, DetachAll, PinFails, CleanStart,
    CleanCheck, CleanEnd, kernel, bpffs
  <2>3. mp'[p] = mp[p] \/ mp'[p] = NoMp
    BY <1>0, <1>1, Zenon DEF Query, OpenRetry, FindProgram, StartQuery, DetachAll,
    PinFails, CleanStart, CleanCheck, CleanEnd
  <2>4. \A d \in dirs' : Owes(p, d) => Owes(p, d)'
    BY <2>2, Zenon DEF Owes
  <2> HIDE DEF NoMp
  <2>5. mp'[p].legacy => mp'[p].id \notin dirs'
    BY <1>f, <1>n, <2>2, <2>3, Zenon
  <2>6. /\ dirs' \subseteq dirs /\ hook' = hook
        /\ \A d \in dirs' : Whole(d)'
    BY <1>f, <2>2, Zenon DEF Whole
  <2> QED BY <1>t, <2>1, <2>4, <2>5, <2>6, TidyStep, Zenon
<1>2. ASSUME NEW p \in Procs, Open(p) \/ Read(p) PROVE Tidy'
  <2>1. OnlyMoves(p)
    BY <1>2, <1>m, Zenon DEF Acts, Step
  <2>2. /\ UNCHANGED <<hook, progs, dirs, links, pinned>>
        /\ pc[p] \notin {"swap", "unpin_new", "unpin_old"}
    BY <1>2, Zenon DEF Open, Read, kernel, bpffs
  <2>3. \A d \in dirs' : Owes(p, d) => Owes(p, d)'
    BY <2>2, Zenon DEF Owes
  <2>4. mp'[p].legacy => mp'[p].id \notin dirs'
    <3>1. CASE Open(p)
      <4>1. mp'[p].legacy => mp'[p].id = LEGACY
        BY <1>0, <3>1, Zenon DEF Open
      <4> QED BY <1>0, <2>2, <4>1, IdFacts, Zenon
    <3>2. CASE Read(p)
      <4>1. mp'[p].id = mp[p].id
        BY <1>0, <3>2, Zenon DEF Read
      <4>2. mp'[p].legacy =>
              ~ (mp[p].id \in dirs /\ progs[mp[p].id] \subseteq pinned[mp[p].id])
        BY <1>0, <3>2, Zenon DEF Read
      <4> QED BY <1>f, <2>2, <4>1, <4>2, Zenon DEF Whole
    <3> QED BY <1>2, <3>1, <3>2, Zenon
  <2>5. /\ dirs' \subseteq dirs /\ hook' = hook
        /\ \A d \in dirs' : Whole(d)'
    BY <1>f, <2>2, Zenon DEF Whole
  <2> QED BY <1>t, <2>1, <2>3, <2>4, <2>5, TidyStep, Zenon
<1>3. ASSUME NEW p \in Procs, AttachMulti(p) \/ DetachMulti(p) PROVE Tidy'
  <2>1. OnlyMoves(p)
    BY <1>3, <1>m, Zenon DEF Acts, Step
  <2>2. UNCHANGED <<hook, dirs, links, pinned, mp>> /\ pc[p] = "use"
    BY <1>3, Zenon DEF AttachMulti, DetachMulti, bpffs
  <2> DEFINE d == <<p, retry[p]>>
  <2>3. d \notin dirs
    <3>1. hook # d /\ \A q \in Procs : mp[q].id # d /\ new[q] # d
      BY <2>2, NextUnseen, ZenonT(60)
    <3> HIDE DEF d
    <3> QED BY <1>t, <3>1, Zenon DEF Tidy, Owes
  <2>4. \A e \in dirs : progs'[e] = progs[e]
    BY <1>0, <1>3, <2>3 DEF AttachMulti, DetachMulti, Generate
  <2>5. \A e \in dirs' : Owes(p, e) => Owes(p, e)'
    BY <2>2, Zenon DEF Owes
  <2>6. /\ dirs' \subseteq dirs /\ hook' = hook
        /\ \A e \in dirs' : Whole(e)'
        /\ mp'[p].legacy => mp'[p].id \notin dirs'
    BY <1>f, <2>2, <2>4, Zenon DEF Whole
  <2> QED BY <1>t, <2>1, <2>5, <2>6, TidyStep, Zenon
<1>4. ASSUME NEW p \in Procs, SwapFails(p) PROVE Tidy'
  <2>1. OnlyMoves(p)
    BY <1>4, <1>m, Zenon DEF Acts, Step
  <2>2. /\ UNCHANGED <<hook, progs, dirs, links, pinned>> /\ pc[p] = "swap"
        /\ mp'[p] = mp[p] \/ mp'[p] = NoMp
        /\ stage[p] # "all" /\ new[p] # NONE => pc'[p] = "unpin_new" /\ new' = new
    BY <1>0, <1>4, Zenon DEF SwapFails, TryAgain, StartQuery, kernel, bpffs
  <2>3. new[p] # NONE => stage[p] # "all"
    BY Zenon DEF AllBuildsNothing
  <2>4. \A d \in dirs' : Owes(p, d) => Owes(p, d)'
    BY <1>0, <2>2, <2>3, IdFacts, Zenon DEF Owes
  <2> HIDE DEF NoMp
  <2>5. mp'[p].legacy => mp'[p].id \notin dirs'
    BY <1>f, <1>n, <2>2, Zenon
  <2>6. /\ dirs' \subseteq dirs /\ hook' = hook
        /\ \A d \in dirs' : Whole(d)'
    BY <1>f, <2>2, Zenon DEF Whole
  <2> QED BY <1>t, <2>1, <2>4, <2>5, <2>6, TidyStep, Zenon
<1>5. ASSUME NEW p \in Procs, UnpinNew(p) \/ UnpinOld(p) \/ CleanRemove(p) PROVE Tidy'
  <2>1. OnlyMoves(p)
    BY <1>5, <1>m, Zenon DEF Acts, Step
  <2> DEFINE d == IF pc[p] = "unpin_new" THEN new[p]
                  ELSE IF pc[p] = "unpin_old" THEN mp[p].id ELSE victim[p]
  <2>2. /\ UNCHANGED <<hook, progs>>
        /\ Unpin(d) \/ RemoveDir(d)
        /\ pc[p] \in {"unpin_new", "unpin_old", "remove"}
    BY <1>5, Zenon DEF UnpinNew, UnpinOld, CleanRemove, kernel
  <2>3. mp'[p] = mp[p] \/ mp'[p] = NoMp
    BY <1>0, <1>5, Zenon DEF UnpinNew, UnpinOld, CleanRemove, TryAgain, StartQuery
  <2>7. dirs' = dirs \ {d}
    BY <1>f, <2>2, Zenon DEF Unpin, RemoveDir
  <2>4. \A e \in dirs' : Owes(p, e) => Owes(p, e)'
    BY <2>2, <2>7, Zenon DEF Owes
  <2> HIDE DEF NoMp, d
  <2>5. mp'[p].legacy => mp'[p].id \notin dirs'
    BY <1>f, <1>n, <2>3, <2>7, Zenon
  <2>8. \E L, P : links' = [links EXCEPT ![d] = L] /\ pinned' = [pinned EXCEPT ![d] = P]
    BY <2>2, Zenon DEF Unpin, RemoveDir
  <2>6. /\ dirs' \subseteq dirs /\ hook' = hook
        /\ \A e \in dirs' : Whole(e)'
    <3>1. \A e \in Ids \ {d} : links'[e] = links[e] /\ pinned'[e] = pinned[e]
      BY <1>0, <2>8, Zenon
    <3>2. \A e \in dirs' : e \in Ids \ {d} /\ e \in dirs /\ Whole(e)
      BY <1>0, <1>f, <2>7, Zenon
    <3>3. \A e \in dirs' : Whole(e)'
      BY <2>2, <3>1, <3>2, Zenon DEF Whole
    <3> QED BY <2>2, <2>7, <3>3, Zenon
  <2> QED BY <1>t, <2>1, <2>4, <2>5, <2>6, TidyStep, Zenon
<1>6. ASSUME NEW p \in Procs, Pin(p) PROVE Tidy'
  <2>1. OnlyMoves(p)
    BY <1>6, <1>m, Zenon DEF Acts, Step
  <2>2. /\ UNCHANGED <<hook, progs, mp, new>> /\ dirs' = dirs \cup {new[p]}
        /\ pinned' = [pinned EXCEPT ![new[p]] = progs[new[p]]]
        /\ links' = [links EXCEPT ![new[p]] = progs[new[p]]]
        /\ pc[p] = "pin" /\ pc'[p] = "swap"
    BY <1>0, <1>6, Zenon DEF Pin, kernel
  <2>3. new[p] \in Ids /\ \A q \in Procs : mp[q].id # new[p]
    BY <2>2, OwnUnseen, Zenon DEF TypeInv, LocalInv
  <2>4. \A q \in Procs : \A d \in dirs : Owes(q, d) => Owes(q, d)'
    BY <2>1, <2>2, Zenon DEF Owes, OnlyMoves
  <2>5. Owes(p, new[p])'
    BY <2>2, Zenon DEF Owes
  <2>6. \A d \in dirs' : Whole(d)'
    BY <1>0, <1>f, <2>2, <2>3, Zenon DEF Whole
  <2>7. \A q \in Procs : mp'[q].legacy => mp'[q].id \notin dirs'
    BY <1>f, <2>2, <2>3, Zenon
  <2>8. \A d \in dirs' : d = hook' \/ \E q \in Procs : Owes(q, d)'
    BY <1>t, <2>2, <2>4, <2>5, Zenon DEF Tidy
  <2> QED BY <2>6, <2>7, <2>8, Zenon DEF Tidy
<1>7. ASSUME NEW p \in Procs, Swap(p) PROVE Tidy'
  <2>1. OnlyMoves(p)
    BY <1>7, <1>m, Zenon DEF Acts, Step
  <2>2. /\ UNCHANGED <<progs, dirs, links, pinned, mp, new>> /\ pc[p] = "swap"
        /\ hook = mp[p].id /\ hook' = new[p]
        /\ ~ (mp[p].id = NONE \/ mp[p].legacy) => pc'[p] = "unpin_old"
    BY <1>0, <1>7, Zenon DEF Swap, bpffs
  <2>3. ASSUME NEW d \in dirs PROVE d = hook' \/ \E q \in Procs : Owes(q, d)'
    <3>1. CASE d = hook
      BY <1>0, <1>f, <2>2, <3>1, IdFacts, Zenon DEF Owes
    <3>2. CASE \E q \in Procs : Owes(q, d)
      <4>1. PICK q \in Procs : Owes(q, d)
        BY <3>2, Zenon
      <4>2. CASE q = p
        BY <2>2, <4>1, <4>2, Zenon DEF Owes
      <4>3. CASE q # p
        BY <2>1, <4>1, <4>3, Zenon DEF Owes, OnlyMoves
      <4> QED BY <4>2, <4>3, Zenon
    <3> QED BY <1>t, <3>1, <3>2, Zenon DEF Tidy
  <2> QED BY <1>f, <2>2, <2>3, Zenon DEF Tidy, Whole
<1>8. ASSUME NEW p \in Procs,
             Crash(p) \/ CrashPinning(p) \/ CrashUnpinning(p) \/ CleanCrash(p)
      PROVE  Tidy'
  BY <1>0, <1>8, Zenon DEF Crash, CrashPinning, CrashUnpinning, CleanCrash, Quiet
<1>11. ASSUME NEW p \in Procs, CleanFails(p) PROVE Tidy'
  <2>1. p \in Cleaners /\ DOMAIN ret = Procs
    BY <1>11, Zenon DEF CleanFails, RemoveSome, TypeInv, LocalInv, ProtocolOK
  <2>2. pc'[p] = "done" /\ ret'[p] = "EFAULT"
    BY <1>0, <1>11, <2>1, Zenon DEF CleanFails
  <2> QED BY <2>1, <2>2, Zenon DEF Quiet
<1>9. ASSUME IpAttach \/ IpOff PROVE Tidy'
  BY <1>9, BoundsAssumption DEF IpAttach, IpOff, Quiet, TypeOK
<1>10. ASSUME UNCHANGED vars PROVE Tidy'
  BY <1>10, <1>t, Zenon DEF vars, Tidy, Owes, Whole
<1> QED
  BY Zenon, <1>1, <1>2, <1>3, <1>4, <1>5, <1>6, <1>7, <1>8, <1>9, <1>10, <1>11
     DEF Next, Process, CrashAnywhere, Step

\* Whatever loses the race for the interface, fails or is retried, and cleaners
\* or not: when all processes have returned, no cleaner failed, and neither a crash
\* nor the ip tool interfered, the only pin directory left is that of the attached
\* dispatcher.
THEOREM DispatcherNoStalePins == Spec => []NoStalePins
<1>1. Init => LeakInv
  BY Zenon DEF Init, LeakInv, Tidy
<1>2. DispatcherInv /\ TypeOK /\ AllBuildsNothing /\ LeakInv /\ [Next]_vars => LeakInv'
  BY NextLeakInv, Zenon DEF DispatcherInv
<1>3. Init => AllBuildsNothing
  BY Zenon DEF Init, AllBuildsNothing
<1>4. DispatcherInv /\ AllBuildsNothing /\ [Next]_vars => AllBuildsNothing'
  BY NextAllBuildsNothing, Zenon DEF DispatcherInv
<1>5. LeakInv => NoStalePins
  <2> SUFFICES ASSUME LeakInv, \A p \in Procs : pc[p] = "done", ips = 0,
                      \A c \in Cleaners : ret[c] = "ok"
               PROVE  dirs \subseteq {hook}
    BY Zenon DEF NoStalePins
  <2> QED BY Zenon DEF LeakInv, Quiet, Tidy, Owes
<1> QED
  BY <1>1, <1>2, <1>3, <1>4, <1>5, InitDispatcherInv, NextDispatcherInv,
     DispatcherTypeOK, PTL DEF Spec

-----------------------------------------------------------------------------
(* The programs on the interface *)

\* What p has read is nothing, or a foreign program, or the components of a
\* dispatcher, which never change once somebody could read them.
SeenAt(p) ==
    /\ pc[p] \in {"query", "open"} => mp[p] = NoMp
    /\ pc[p] \in {"use", "pin", "swap"} =>
         \/ mp[p].legacy /\ mp[p].progs = {}
         \/ ~ mp[p].legacy /\ mp[p].id = NONE /\ mp[p].progs = {}
         \/ ~ mp[p].legacy /\ mp[p].id \in Ids /\ mp[p].progs = progs[mp[p].id]

\* What p is about to put on the interface is what it was asked for, applied to
\* what it has read.
Adds(p) ==
    /\ stage[p] = "attach" /\ ~ mp[p].legacy /\ new[p] # NONE
    /\ progs[new[p]] = mp[p].progs \cup {p}
    /\ ~ Cardinality(mp[p].progs) + 1 > MAX_DISPATCHER_ACTIONS
Removes(p) ==
    /\ stage[p] = "detach" /\ new[p] # NONE
    /\ Target[p] \in mp[p].progs /\ mp[p].progs # {Target[p]}
    /\ progs[new[p]] = mp[p].progs \ {Target[p]}
RemovesLast(p) ==
    /\ stage[p] = "detach" /\ new[p] = NONE
    /\ mp[p].id = Target[p] \/ mp[p].progs = {Target[p]}
RemovesAll(p) == stage[p] = "all" /\ new[p] = NONE /\ mp[p].id # NONE
PlanAt(p) ==
    pc[p] \in {"pin", "swap"} =>
      Adds(p) \/ Removes(p) \/ RemovesLast(p) \/ RemovesAll(p)

StageAt(p) ==
    /\ stage[p] = "attach" => p \in Attachers
    /\ stage[p] \in {"find", "detach"} => p \in Unloaders
    /\ stage[p] = "all" => p \in UnloadAll

ContentsInv ==
    /\ \A p \in Procs : SeenAt(p) /\ PlanAt(p) /\ StageAt(p)
    /\ hook \in Ids => progs[hook] # {}

\* At first no process has read anything.
LEMMA InitContentsInv == Init => ContentsInv
<1> SUFFICES ASSUME Init PROVE ContentsInv
  BY Zenon
<1>1. ASSUME NEW p \in Procs PROVE SeenAt(p) /\ PlanAt(p) /\ StageAt(p)
  BY ProcsAssumption, Zenon DEF Init, SeenAt, PlanAt, StageAt, Procs
<1> QED
  BY <1>1, IdFacts, Zenon DEF Init, ContentsInv

\* Steps of p that build no dispatcher.
LEMMA SameProgs ==
  ASSUME ContentsInv, NEW p \in Procs, OnlyMoves(p), progs' = progs,
         SeenAt(p)', PlanAt(p)', StageAt(p)',
         hook' \in Ids => progs[hook'] # {}
  PROVE  ContentsInv'
<1>1. ASSUME NEW q \in Procs, q # p PROVE SeenAt(q)' /\ PlanAt(q)' /\ StageAt(q)'
  <2>1. /\ pc'[q] = pc[q] /\ new'[q] = new[q] /\ mp'[q] = mp[q] /\ stage'[q] = stage[q]
        /\ progs' = progs
    BY <1>1, Zenon DEF OnlyMoves
  <2>2. SeenAt(q) /\ PlanAt(q) /\ StageAt(q)
    BY Zenon DEF ContentsInv
  <2>3. /\ Adds(q)' = Adds(q) /\ Removes(q)' = Removes(q)
        /\ RemovesLast(q)' = RemovesLast(q) /\ RemovesAll(q)' = RemovesAll(q)
    BY <2>1, Zenon DEF Adds, Removes, RemovesLast, RemovesAll
  <2> QED BY <2>1, <2>2, <2>3, Zenon DEF SeenAt, PlanAt, StageAt
<1> QED
  BY <1>1, Zenon DEF ContentsInv

\* The step of p that builds one.
LEMMA NewProgs ==
  ASSUME TypeInv, UnseenInv, ContentsInv, NEW p \in Procs, pc[p] = "use",
         OnlyMoves(p), NEW S,
         progs' = [progs EXCEPT ![<<p, retry[p]>>] = S],
         SeenAt(p)', PlanAt(p)', StageAt(p)', hook' = hook
  PROVE  ContentsInv'
<1> DEFINE d == <<p, retry[p]>>
<1>1. d \in Ids /\ hook # d /\ \A q \in Procs : mp[q].id # d /\ new[q] # d
  BY NextUnseen, Zenon
<1>2. progs' = [progs EXCEPT ![d] = S] /\ DOMAIN progs = Ids
  BY Zenon DEF TypeInv, ProtocolOK
<1> HIDE DEF d
<1>3. \A e \in Ids : e # d => progs'[e] = progs[e]
  BY <1>2, Zenon
<1>5. ASSUME NEW q \in Procs, q # p PROVE SeenAt(q)' /\ PlanAt(q)' /\ StageAt(q)'
  <2>1. /\ pc'[q] = pc[q] /\ new'[q] = new[q] /\ mp'[q] = mp[q]
        /\ stage'[q] = stage[q]
    BY <1>5, Zenon DEF OnlyMoves
  <2>2. SeenAt(q) /\ PlanAt(q) /\ StageAt(q) /\ new[q] \in Ids \cup {NONE}
    BY Zenon DEF ContentsInv, TypeInv, ProtocolOK
  <2>3. SeenAt(q)'
    BY <1>1, <1>3, <2>1, <2>2, Zenon DEF SeenAt
  <2>4. PlanAt(q)'
    BY <1>1, <1>3, <2>1, <2>2, Zenon DEF PlanAt, Adds, Removes, RemovesLast, RemovesAll
  <2> QED BY <2>1, <2>2, <2>3, <2>4, Zenon DEF StageAt
<1>6. hook' \in Ids => progs'[hook'] # {}
  BY <1>1, <1>3, Zenon DEF ContentsInv
<1> QED
  BY <1>5, <1>6, Zenon DEF ContentsInv

\* What processes have read, and plan to swap in, stays true of the dispatchers.
LEMMA NextContentsInv ==
  ASSUME TypeInv, UnseenInv, ContentsInv, [Next]_vars
  PROVE  ContentsInv'
<1> USE DEF Goto, Return
<1>0. /\ DOMAIN pc = Procs /\ DOMAIN mp = Procs /\ DOMAIN new = Procs
      /\ DOMAIN stage = Procs /\ DOMAIN progs = Ids /\ DOMAIN qid = Procs
      /\ \A q \in Procs : SeenAt(q) /\ PlanAt(q) /\ StageAt(q)
      /\ hook \in Ids => progs[hook] # {}
  BY Zenon DEF TypeInv, ProtocolOK, ContentsInv
<1>m. ASSUME NEW p \in Procs, Acts(p) PROVE OnlyMoves(p)
  BY <1>m, ActsMoves, Zenon
<1>1. ASSUME NEW p \in Procs, Query(p) \/ Open(p) \/ OpenRetry(p) \/ Read(p)
      PROVE  ContentsInv'
  <2>1. OnlyMoves(p)
    BY <1>1, <1>m, Zenon DEF Acts, Step
  <2>2. UNCHANGED <<progs, hook, stage>> /\ pc'[p] \notin {"pin", "swap"}
    BY <1>0, <1>1, Zenon DEF Query, Open, OpenRetry, Read, kernel
  <2>3. PlanAt(p)' /\ StageAt(p)'
    BY <1>0, <2>2, Zenon DEF PlanAt, StageAt
  <2>4. SeenAt(p)'
    <3>1. CASE Query(p) \/ OpenRetry(p)
      <4>1. mp[p] = NoMp /\ mp' = mp
        BY <1>0, <3>1, Zenon DEF Query, OpenRetry, SeenAt
      <4>2. mp'[p] = NoMp /\ pc'[p] \in {"query", "open", "use"}
        BY <1>0, <3>1, <4>1, Zenon DEF Query, OpenRetry
      <4>3. ~ NoMp.legacy /\ NoMp.id = NONE /\ NoMp.progs = {}
        BY DEF NoMp
      <4> QED BY <4>2, <4>3, Zenon DEF SeenAt
    <3>2. CASE Open(p)
      BY <1>0, <3>2, Zenon DEF Open, SeenAt
    <3>3. CASE Read(p)
      <4>1. mp[p].id \in Ids
        BY <3>3, Zenon DEF Read, TypeInv, LocalInv
      <4> QED BY <1>0, <2>2, <3>3, <4>1, Zenon DEF Read, SeenAt
    <3> QED BY <1>1, <3>1, <3>2, <3>3, Zenon
  <2> QED BY <1>0, <2>1, <2>2, <2>3, <2>4, SameProgs, Zenon
<1>2. ASSUME NEW p \in Procs, FindProgram(p) PROVE ContentsInv'
  <2>1. OnlyMoves(p)
    BY <1>2, <1>m, Zenon DEF Acts, Step
  <2>2. /\ UNCHANGED <<progs, hook>> /\ pc'[p] \in {"query", "done"}
        /\ pc'[p] = "query" => mp'[p] = NoMp
        /\ stage[p] = "find" /\ stage'[p] \in {"find", "detach"}
    BY <1>0, <1>2, Zenon DEF FindProgram, StartQuery, kernel
  <2>3. PlanAt(p)' /\ StageAt(p)' /\ SeenAt(p)'
    BY <1>0, <2>2, Zenon DEF PlanAt, StageAt, SeenAt
  <2> QED BY <1>0, <2>1, <2>2, <2>3, SameProgs, Zenon
<1>3. ASSUME NEW p \in Procs, DetachAll(p) \/ Pin(p) PROVE ContentsInv'
  <2>1. OnlyMoves(p)
    BY <1>3, <1>m, Zenon DEF Acts, Step
  <2>2. UNCHANGED <<progs, hook, stage, mp, new>>
    BY <1>3, Zenon DEF DetachAll, Pin, kernel
  <2>3. /\ pc[p] \in {"use", "pin"} /\ pc'[p] \in {"swap", "done"}
    BY <1>0, <1>3, Zenon DEF DetachAll, Pin
  <2>4. StageAt(p)' /\ SeenAt(p)'
    BY <1>0, <2>2, <2>3, Zenon DEF StageAt, SeenAt
  <2>5. PlanAt(p)'
    <3>1. CASE Pin(p)
      BY <1>0, <2>2, <3>1, Zenon DEF Pin, PlanAt, Adds, Removes, RemovesLast, RemovesAll
    <3>2. CASE DetachAll(p)
      BY <1>0, <2>2, <3>2, Zenon DEF DetachAll, PlanAt, RemovesAll, TypeInv, LocalInv
    <3> QED BY <1>3, <3>1, <3>2, Zenon
  <2> QED BY <1>0, <2>1, <2>2, <2>4, <2>5, SameProgs, Zenon
<1>4. ASSUME NEW p \in Procs,
             \/ PinFails(p) \/ UnpinOld(p)
             \/ Crash(p) \/ CrashPinning(p) \/ CrashUnpinning(p)
      PROVE  ContentsInv'
  <2>1. OnlyMoves(p)
    BY <1>4, <1>m, Zenon DEF Acts, Step
  <2>2. UNCHANGED <<progs, hook, stage>> /\ pc'[p] \in {"done", "crashed"}
    BY <1>0, <1>4, Zenon DEF PinFails, UnpinOld, Crash, CrashPinning, CrashUnpinning,
    kernel
  <2>3. PlanAt(p)' /\ StageAt(p)' /\ SeenAt(p)'
    BY <1>0, <2>2, Zenon DEF PlanAt, StageAt, SeenAt
  <2> QED BY <1>0, <2>1, <2>2, <2>3, SameProgs, Zenon
<1>5. ASSUME NEW p \in Procs, SwapFails(p) \/ UnpinNew(p) PROVE ContentsInv'
  <2>1. OnlyMoves(p)
    BY <1>5, <1>m, Zenon DEF Acts, Step
  <2>2. /\ UNCHANGED <<progs, hook, stage>>
        /\ pc'[p] \in {"done", "unpin_new"} \/ (pc'[p] = "query" /\ mp'[p] = NoMp)
    BY <1>0, <1>5, Zenon DEF SwapFails, UnpinNew, TryAgain, StartQuery, kernel
  <2>3. PlanAt(p)' /\ StageAt(p)' /\ SeenAt(p)'
    BY <1>0, <2>2, Zenon DEF PlanAt, StageAt, SeenAt
  <2> QED BY <1>0, <2>1, <2>2, <2>3, SameProgs, Zenon
<1>6. ASSUME NEW p \in Procs,
             \/ CleanStart(p) \/ CleanCheck(p) \/ CleanRemove(p) \/ CleanEnd(p)
             \/ CleanFails(p) \/ CleanCrash(p)
      PROVE  ContentsInv'
  <2>1. OnlyMoves(p)
    BY <1>6, <1>m, Zenon DEF Acts, Step
  <2>2. /\ UNCHANGED <<progs, hook, stage>>
        /\ pc'[p] \in {"check", "remove", "done", "crashed"}
    BY <1>0, <1>6, Zenon DEF CleanStart, CleanCheck, CleanRemove, CleanEnd, CleanFails,
    CleanCrash, RemoveSome, kernel
  <2>3. PlanAt(p)' /\ StageAt(p)' /\ SeenAt(p)'
    BY <1>0, <2>2, Zenon DEF PlanAt, StageAt, SeenAt
  <2> QED BY <1>0, <2>1, <2>2, <2>3, SameProgs, Zenon
<1>7. ASSUME NEW p \in Procs, Swap(p) PROVE ContentsInv'
  <2>1. OnlyMoves(p)
    BY <1>7, <1>m, Zenon DEF Acts, Step
  <2>2. /\ UNCHANGED <<progs, stage>> /\ pc'[p] \in {"done", "unpin_old"}
        /\ hook' = new[p] /\ pc[p] = "swap"
    BY <1>0, <1>7, Zenon DEF Swap
  <2>3. PlanAt(p)' /\ StageAt(p)' /\ SeenAt(p)'
    BY <1>0, <2>2, Zenon DEF PlanAt, StageAt, SeenAt
  <2>4. new[p] # NONE => progs[new[p]] # {}
    BY <1>0, <2>2, Zenon DEF PlanAt, Adds, Removes, RemovesLast, RemovesAll
  <2> QED BY <2>1, <2>2, <2>3, <2>4, IdFacts, SameProgs, Zenon
<1>8. ASSUME NEW p \in Procs, AttachMulti(p) \/ DetachMulti(p) PROVE ContentsInv'
  <2>1. OnlyMoves(p)
    BY <1>8, <1>m, Zenon DEF Acts, Step
  <2> DEFINE d == <<p, retry[p]>>
  <2>2. /\ d \in Ids /\ d # NONE /\ mp[p].id # d /\ pc[p] = "use" /\ new[p] = NONE
    BY <1>8, NextUnseen, IdFacts, Zenon DEF AttachMulti, DetachMulti, TypeInv, LocalInv
  <2>3. UNCHANGED <<hook, stage, mp>>
    BY <1>8, Zenon DEF AttachMulti, DetachMulti
  <2>5. StageAt(p)'
    BY <1>0, <2>3, Zenon DEF StageAt
  <2>6. ASSUME UNCHANGED <<progs, new>>, pc'[p] = "done" \/
                 (pc'[p] = "swap" /\ stage[p] = "detach"
                  /\ (mp[p].id = Target[p] \/ mp[p].progs = {Target[p]}))
        PROVE  ContentsInv'
    <3>1. SeenAt(p)'
      BY <1>0, <2>2, <2>3, <2>6 DEF SeenAt
    <3>2. PlanAt(p)'
      BY <2>2, <2>3, <2>6, Zenon DEF PlanAt, RemovesLast
    <3> QED BY <1>0, <2>1, <2>3, <2>5, <2>6, <3>1, <3>2, SameProgs, ZenonT(60)
  <2>7. ASSUME NEW S, Generate(p, S),
               \/ /\ stage[p] = "attach" /\ ~ mp[p].legacy
                  /\ S = mp[p].progs \cup {p}
                  /\ ~ Cardinality(mp[p].progs) + 1 > MAX_DISPATCHER_ACTIONS
               \/ /\ stage[p] = "detach" /\ Target[p] \in mp[p].progs
                  /\ mp[p].progs # {Target[p]}
                  /\ S = mp[p].progs \ {Target[p]}
        PROVE  ContentsInv'
    <3>1. /\ progs' = [progs EXCEPT ![d] = S] /\ new'[p] = d /\ pc'[p] = "pin"
      BY <1>0, <2>7, Zenon DEF Generate
    <3>2. progs'[d] = S /\ \A e \in Ids : e # d => progs'[e] = progs[e]
      BY <1>0, <2>2, <3>1, Zenon
    <3> HIDE DEF d
    <3>3. SeenAt(p)'
      BY <1>0, <2>2, <2>3, <3>1, <3>2, Zenon DEF SeenAt
    <3>4. PlanAt(p)'
      BY <2>2, <2>3, <2>7, <3>1, <3>2, Zenon DEF PlanAt, Adds, Removes
    <3> USE DEF d
    <3> QED BY <2>1, <2>2, <2>3, <2>5, <2>7, <3>1, <3>3, <3>4, NewProgs, Zenon
  <2>8. CASE AttachMulti(p)
    <3>2. CASE Cardinality(mp[p].progs) + 1 > MAX_DISPATCHER_ACTIONS \/ mp[p].legacy
      BY <1>0, <2>6, <2>8, <3>2, Zenon DEF AttachMulti
    <3>3. CASE ~ (Cardinality(mp[p].progs) + 1 > MAX_DISPATCHER_ACTIONS \/ mp[p].legacy)
      <4>1. Generate(p, mp[p].progs \cup {p}) /\ stage[p] = "attach"
        BY <2>8, <3>3, Zenon DEF AttachMulti
      <4> QED BY <2>7, <3>3, <4>1, Zenon
    <3> QED BY <3>2, <3>3, Zenon
  <2>9. CASE DetachMulti(p)
    <3>2. CASE mp[p].id = Target[p] \/ mp[p].progs = {Target[p]} \/ Target[p] \notin mp[p].progs
      BY <1>0, <2>6, <2>9, <3>2, Zenon DEF DetachMulti
    <3>3. CASE ~ (mp[p].id = Target[p] \/ mp[p].progs = {Target[p]}) /\ Target[p] \in mp[p].progs
      <4>1. Generate(p, mp[p].progs \ {Target[p]}) /\ stage[p] = "detach"
        BY <2>9, <3>3, ZenonT(60) DEF DetachMulti
      <4> QED BY <2>7, <3>3, <4>1, Zenon
    <3> QED BY <3>2, <3>3, Zenon
  <2> QED BY <1>8, <2>8, <2>9, Zenon
<1>9. ASSUME IpAttach \/ IpOff PROVE ContentsInv'
  <2>1. hook' \notin Ids /\ UNCHANGED <<progs, pc, mp, new, stage>>
    BY <1>9, IdFacts, ZenonT(60) DEF IpAttach, IpOff
  <2> QED BY <2>1 DEF ContentsInv, SeenAt, PlanAt, StageAt, Adds, Removes,
    RemovesLast, RemovesAll
<1>10. ASSUME UNCHANGED vars PROVE ContentsInv'
  BY <1>10 DEF vars, ContentsInv, SeenAt, PlanAt, StageAt, Adds, Removes,
  RemovesLast, RemovesAll
<1> QED
  BY ZenonT(60), <1>1, <1>2, <1>3, <1>4, <1>5, <1>6, <1>7, <1>8, <1>9, <1>10
     DEF Next, Process, CrashAnywhere, Step

-----------------------------------------------------------------------------
(* The refinement. *)

\* A step of p changes the status of p alone.
LEMMA StatusMoves ==
  ASSUME NEW p \in Procs, OnlyMoves(p)
  PROVE  [q \in Procs |-> Status(q)]'
           = [[q \in Procs |-> Status(q)] EXCEPT ![p] = Status(p)']
<1>1. ASSUME NEW q \in Procs, q # p PROVE Status(q)' = Status(q)
  BY <1>1, Zenon DEF OnlyMoves, Status
<1> QED
  BY <1>1, Zenon

\* Steps other than the swap leave the programs on the interface alone.
LEMMA LoadedKept ==
  ASSUME TypeInv, UnseenInv, NEW p \in Procs, Acts(p), ~ Swap(p)
  PROVE  /\ hook' = hook /\ Loaded' = Loaded
         /\ hook \in Ids => progs'[hook] = progs[hook]
<1>1. hook' = hook
  BY HookKept, Zenon
<1>2. DOMAIN progs = Ids
  BY Zenon DEF TypeInv, ProtocolOK
<1>3. CASE AttachMulti(p) \/ DetachMulti(p)
  <2>1. pc[p] = "use"
    BY <1>3, Zenon DEF AttachMulti, DetachMulti
  <2>2. hook # <<p, retry[p]>>
    BY <2>1, NextUnseen, Zenon
  <2>3. hook \in Ids => progs'[hook] = progs[hook]
    BY <1>2, <1>3, <2>2, Zenon DEF AttachMulti, DetachMulti, Generate
  <2> QED BY <1>1, <2>3, Zenon DEF Loaded
<1>4. CASE ~ (AttachMulti(p) \/ DetachMulti(p))
  <2>1. progs' = progs
    <3>1. CASE \/ Query(p) \/ Open(p) \/ OpenRetry(p) \/ Read(p) \/ FindProgram(p)
               \/ DetachAll(p) \/ Pin(p) \/ PinFails(p)
      BY <3>1, Zenon DEF Query, Open, OpenRetry, Read, FindProgram, DetachAll, Pin,
      PinFails, kernel
    <3>2. CASE \/ SwapFails(p) \/ UnpinNew(p) \/ UnpinOld(p)
               \/ Crash(p) \/ CrashPinning(p) \/ CrashUnpinning(p)
      BY <3>2, Zenon DEF SwapFails, UnpinNew, UnpinOld, Crash, CrashPinning,
      CrashUnpinning, kernel
    <3>3. CASE \/ CleanStart(p) \/ CleanCheck(p) \/ CleanRemove(p) \/ CleanEnd(p)
               \/ CleanFails(p) \/ CleanCrash(p)
      BY <3>3, Zenon DEF CleanStart, CleanCheck, CleanRemove, CleanEnd, CleanFails,
      CleanCrash, RemoveSome, kernel
    <3> QED BY <1>4, <3>1, <3>2, <3>3, Zenon DEF Acts, Step
  <2> QED BY <1>1, <2>1, Zenon DEF Loaded
<1> QED
  BY <1>3, <1>4, Zenon

\* They pin no link of the attached dispatcher; unpinning an old dispatcher and
\* cleaning are the only ones that may remove some.
LEMMA LinksKept ==
  ASSUME TypeInv, UnseenInv, NEW p \in Procs, Acts(p), hook \in Ids
  PROVE  /\ links'[hook] \subseteq links[hook]
         /\ pc[p] \notin {"unpin_old", "remove"} => links'[hook] = links[hook]
<1>1. DOMAIN links = Ids
  BY Zenon DEF TypeInv, ProtocolOK
<1>2. pc[p] \in {"pin", "unpin_new"} => hook # new[p]
  BY OwnUnseen, Zenon DEF TypeInv, LocalInv
<1>3. CASE \/ Query(p) \/ Open(p) \/ OpenRetry(p) \/ Read(p) \/ FindProgram(p)
           \/ AttachMulti(p) \/ DetachMulti(p) \/ DetachAll(p)
  BY <1>3, Zenon DEF Query, Open, OpenRetry, Read, FindProgram, AttachMulti,
  DetachMulti, DetachAll, bpffs
<1>4. CASE PinFails(p) \/ Swap(p) \/ SwapFails(p) \/ Crash(p)
  BY <1>4, Zenon DEF PinFails, Swap, SwapFails, Crash, bpffs
<1>5. CASE CleanStart(p) \/ CleanCheck(p) \/ CleanEnd(p)
  BY <1>5, Zenon DEF CleanStart, CleanCheck, CleanEnd, bpffs
<1>6. CASE Pin(p) \/ CrashPinning(p)
  <2>1. pc[p] = "pin" /\ \E L : links' = [links EXCEPT ![new[p]] = L]
    BY <1>6, Zenon DEF Pin, CrashPinning
  <2> QED BY <1>1, <1>2, <2>1, Zenon
<1>7. CASE UnpinNew(p)
  <2>1. pc[p] = "unpin_new" /\ Unpin(new[p]) /\ progs' = progs
    BY <1>7, Zenon DEF UnpinNew, kernel
  <2>2. \A e \in Ids \ {new[p]} : links'[e] = links[e]
    BY <2>1, UnpinOthers, Zenon
  <2> QED BY <1>2, <2>1, <2>2, Zenon
<1>8. CASE UnpinOld(p)
  <2>1. pc[p] = "unpin_old" /\ Unpin(mp[p].id)
    BY <1>8, Zenon DEF UnpinOld
  <2>2. \E d : \E L \in SUBSET links[d] : links' = [links EXCEPT ![d] = L]
    BY <2>1, Zenon DEF Unpin, RemoveDir
  <2> QED BY <1>1, <2>1, <2>2, Zenon
<1>9. CASE CrashUnpinning(p)
  <2> DEFINE d == IF pc[p] = "unpin_old" THEN mp[p].id ELSE new[p]
  <2>1. /\ pc[p] \in {"unpin_new", "unpin_old"}
        /\ \E L \in SUBSET links[d] : links' = [links EXCEPT ![d] = L]
    BY <1>9, Zenon DEF CrashUnpinning
  <2>2. pc[p] # "unpin_old" => hook # d
    BY <1>2, <2>1, Zenon
  <2> HIDE DEF d
  <2> QED BY <1>1, <2>1, <2>2, Zenon
<1>10. CASE CleanRemove(p) \/ CleanFails(p) \/ CleanCrash(p)
  <2>1. pc[p] = "remove" /\ \E L \in SUBSET links[victim[p]] :
                              links' = [links EXCEPT ![victim[p]] = L]
    BY <1>10, Zenon DEF CleanRemove, RemoveDir, CleanFails, CleanCrash, RemoveSome
  <2> QED BY <1>1, <2>1, Zenon
<1> QED
  BY <1>3, <1>4, <1>5, <1>6, <1>7, <1>8, <1>9, <1>10, Zenon DEF Acts, Step

\* The process whose descriptors hold the links of dispatcher d.
Maker(q, d) == new[q] = d /\ pc[q] \notin {"done", "crashed"}

\* The maker of the attached dispatcher keeps it as long as it runs, and nobody
\* else becomes one.
LEMMA MakerKept ==
  ASSUME TypeInv, UnseenInv, NEW p \in Procs, Acts(p), ~ Swap(p), hook \in Ids
  PROVE  /\ Maker(p, hook)' => Maker(p, hook)
         /\ pc'[p] \notin {"done", "crashed"} => (Maker(p, hook)' <=> Maker(p, hook))
<1> USE DEF Goto, Return
<1>0. DOMAIN pc = Procs /\ DOMAIN new = Procs /\ hook' = hook /\ hook # NONE
  BY HookKept, IdFacts, Zenon DEF TypeInv, ProtocolOK
<1>1. pc[p] \in {"pin", "swap", "unpin_new"} => new[p] # hook
  BY <1>0, OwnUnseen, Zenon
<1>2. pc[p] \in {"query", "open", "read", "use"} => new[p] # hook
  BY <1>0, Zenon DEF TypeInv, LocalInv
<1>3. pc[p] = "use" => hook # <<p, retry[p]>>
  BY NextUnseen, Zenon
<1>4. CASE Query(p) \/ Open(p) \/ OpenRetry(p) \/ Read(p) \/ DetachAll(p)
  BY <1>0, <1>2, <1>4, Zenon DEF Query, Open, OpenRetry, Read, DetachAll, Maker
<1>5. CASE AttachMulti(p) \/ DetachMulti(p)
  BY <1>0, <1>2, <1>3, <1>5, Zenon DEF AttachMulti, DetachMulti, Generate, Maker
<1>6. CASE FindProgram(p)
  BY <1>0, <1>2, <1>6, Zenon DEF FindProgram, StartQuery, Maker
<1>7. CASE Pin(p) \/ PinFails(p)
  BY <1>0, <1>1, <1>7, Zenon DEF Pin, PinFails, Maker
<1>8. CASE SwapFails(p) \/ UnpinNew(p)
  <2>1. pc[p] \in {"swap", "unpin_new"} /\ new'[p] \in {new[p], NONE}
    BY <1>0, <1>8, Zenon DEF SwapFails, UnpinNew, TryAgain, StartQuery
  <2> QED BY <1>0, <1>1, <2>1, Zenon DEF Maker
<1>9. CASE UnpinOld(p) \/ Crash(p) \/ CrashPinning(p) \/ CrashUnpinning(p) \/ CleanCrash(p)
  <2>1. pc'[p] \in {"done", "crashed"}
    BY <1>0, <1>9, Zenon DEF UnpinOld, Crash, CrashPinning, CrashUnpinning, CleanCrash
  <2> QED BY <2>1, Zenon DEF Maker
<1>10. CASE \/ CleanStart(p) \/ CleanCheck(p) \/ CleanRemove(p) \/ CleanEnd(p)
            \/ CleanFails(p)
  <2>1. new' = new /\ pc[p] \notin {"done", "crashed"}
    BY <1>10, Zenon DEF CleanStart, CleanCheck, CleanRemove, CleanEnd, CleanFails,
    RemoveSome
  <2> QED BY <1>0, <2>1, Zenon DEF Maker
<1> QED
  BY <1>4, <1>5, <1>6, <1>7, <1>8, <1>9, <1>10, Zenon DEF Acts, Step

\* So no step but the swap links a component again that was cut off, and a step
\* that neither ends a process nor removes pins cuts none off.
LEMMA DetachedGrows ==
  ASSUME TypeInv, UnseenInv, NEW p \in Procs, Acts(p), ~ Swap(p)
  PROVE  /\ Detached \subseteq Detached'
         /\ /\ pc[p] \notin {"unpin_old", "remove"}
            /\ pc'[p] \notin {"done", "crashed"}
            => Detached' = Detached
<1>1. hook' = hook /\ (hook \in Ids => progs'[hook] = progs[hook])
  BY LoadedKept, Zenon
<1>2. CASE hook \notin Ids
  BY <1>1, <1>2, Zenon DEF Detached
<1>3. CASE hook \in Ids
  <2>1. \A q \in Procs \ {p} : Maker(q, hook)' <=> Maker(q, hook)
    BY <1>1, ActsMoves, Zenon DEF OnlyMoves, Maker
  <2>2. Maker(p, hook)' => Maker(p, hook)
    BY <1>3, MakerKept, Zenon
  <2>3. (\E q \in Procs : Maker(q, hook)') => (\E q \in Procs : Maker(q, hook))
    BY <2>1, <2>2, Zenon
  <2>4. pc'[p] \notin {"done", "crashed"} =>
          ((\E q \in Procs : Maker(q, hook)') <=> (\E q \in Procs : Maker(q, hook)))
    <3>1. pc'[p] \notin {"done", "crashed"} => (Maker(p, hook)' <=> Maker(p, hook))
      BY <1>3, MakerKept, Zenon
    <3> QED BY <2>1, <3>1, Zenon
  <2>5. /\ links'[hook] \subseteq links[hook]
        /\ pc[p] \notin {"unpin_old", "remove"} => links'[hook] = links[hook]
    BY <1>3, LinksKept, Zenon
  <2>6. /\ Detached = {c \in progs[hook] :
                         ~ (c \in links[hook] \/ \E q \in Procs : Maker(q, hook))}
        /\ Detached' = {c \in progs[hook] :
                          ~ (c \in links'[hook] \/ \E q \in Procs : Maker(q, hook)')}
    BY <1>1, <1>3, Zenon DEF Detached, Linked, Maker
  <2> QED BY <2>3, <2>4, <2>5, <2>6, Zenon
<1> QED
  BY <1>2, <1>3, Zenon

\* A dispatcher whose links are all pinned has no component that is cut off.
LEMMA WholeLinked ==
  ASSUME hook \in Ids => links[hook] = progs[hook]
  PROVE  Detached = {}
BY Zenon DEF Detached, Linked

\* Before the first cleaner starts, and by the step that starts it, nothing is
\* cut off.
LEMMA NoneDetached ==
  ASSUME DispatcherInv, DispatcherInv', NoCleaning, NEW p \in Procs, Acts(p), ~ Swap(p)
  PROVE  Detached = {} /\ Detached' = {}
<1>1. hook \in Ids => links[hook] = progs[hook]
  BY Zenon DEF DispatcherInv, PinInv, Whole
<1>2. Detached = {}
  BY <1>1, WholeLinked, Zenon
<1>3. CASE NoCleaning'
  <2>1. (hook \in Ids => links[hook] = progs[hook])'
    BY <1>3, Zenon DEF DispatcherInv, PinInv, Whole
  <2>2. Detached' = {}
    BY <2>1, Zenon DEF Detached, Linked
  <2> QED BY <1>2, <2>2, Zenon
<1>4. CASE ~ NoCleaning'
  <2>1. TypeInv /\ UnseenInv
    BY Zenon DEF DispatcherInv
  <2>2. p \in Cleaners /\ pc[p] = "clean"
    <3>1. PICK c \in Cleaners : pc'[c] # "clean"
      BY <1>4, Zenon DEF NoCleaning
    <3>2. c \in Procs /\ pc[c] = "clean"
      BY <3>1, Zenon DEF NoCleaning, Procs
    <3>3. c = p
      BY <2>1, <3>1, <3>2, ActsMoves, Zenon DEF OnlyMoves
    <3> QED BY <3>2, <3>3, Zenon
  <2>3. hook' = hook /\ (hook \in Ids => progs'[hook] = progs[hook])
    BY <2>1, LoadedKept, Zenon
  <2>4. hook \in Ids => links'[hook] = links[hook]
    BY <2>1, <2>2, LinksKept, Zenon
  <2>5. hook' \in Ids => links'[hook'] = progs'[hook']
    BY <1>1, <2>3, <2>4, Zenon
  <2>6. Detached' = {}
    BY <2>5, Zenon DEF Detached, Linked
  <2> QED BY <1>2, <2>6, Zenon
<1> QED
  BY <1>3, <1>4, Zenon

\* What these steps do to the status of p.
LEMMA StatusStep ==
  ASSUME DispatcherInv, NEW p \in Procs, Acts(p), ~ Swap(p)
  PROVE  \/ /\ Status(p)' = Status(p)
            /\ pc[p] \notin {"unpin_old", "remove"} /\ pc'[p] \notin {"done", "crashed"}
         \/ Status(p)' = Status(p) /\ Status(p) = "applied" /\ p \in Cleaners
         \/ Status(p) = "pending" /\ Status(p)' \in {"failed", "crashed"}
         \/ Status(p) = "applied" /\ Status(p)' \in {"ok", "crashed"}
         \/ Status(p) = "applied" /\ Status(p)' = "failed" /\ ~ NoCleaning
         \/ Status(p) = "pending" /\ Status(p)' = "applied" /\ p \in Cleaners
<1> USE DEF Goto, Return, Status
<1>0. DOMAIN pc = Procs /\ DOMAIN ret = Procs
  BY Zenon DEF DispatcherInv, TypeInv, ProtocolOK
<1>c. pc[p] \in {"clean", "check", "remove"} => p \in Cleaners
  BY Zenon DEF DispatcherInv, TypeInv, LocalInv
<1>1. CASE Query(p) \/ Open(p) \/ OpenRetry(p) \/ Read(p)
  BY <1>0, <1>1, Zenon DEF Query, Open, OpenRetry, Read
<1>2. CASE AttachMulti(p) \/ DetachMulti(p) \/ FindProgram(p) \/ DetachAll(p)
  BY <1>0, <1>2, Zenon DEF AttachMulti, DetachMulti, FindProgram, DetachAll, Generate,
  StartQuery
<1>3. CASE Pin(p) \/ PinFails(p) \/ SwapFails(p) \/ UnpinNew(p)
  BY <1>0, <1>3, Zenon DEF Pin, PinFails, SwapFails, UnpinNew, TryAgain, StartQuery
<1>4. CASE UnpinOld(p)
  <2>1. NoCleaning => Whole(mp[p].id)
    BY <1>4, Zenon DEF UnpinOld, DispatcherInv, PinInv, SafeAt
  <2>2. /\ pc[p] = "unpin_old" /\ pc'[p] = "done"
        /\ ret'[p] = IF Whole(mp[p].id) \/ new[p] # NONE THEN "ok" ELSE "EUNPIN"
    BY <1>0, <1>4, Zenon DEF UnpinOld
  <2>3. ret'[p] # "ok" => ~ NoCleaning
    BY <2>1, <2>2, Zenon
  <2> QED BY <2>2, <2>3, Zenon
<1>5. CASE CleanStart(p) \/ CleanCheck(p) \/ CleanRemove(p) \/ CleanEnd(p)
  BY <1>0, <1>c, <1>5, Zenon DEF CleanStart, CleanCheck, CleanRemove, CleanEnd
<1>6. CASE CleanFails(p)
  <2>1. pc[p] = "remove" /\ pc'[p] = "done" /\ ret'[p] = "EFAULT"
    BY <1>0, <1>6, Zenon DEF CleanFails, RemoveSome
  <2>2. ~ NoCleaning
    BY <1>c, <2>1, Zenon DEF NoCleaning
  <2> QED BY <2>1, <2>2, Zenon
<1>7. CASE Crash(p) \/ CrashPinning(p) \/ CrashUnpinning(p) \/ CleanCrash(p)
  <2>1. pc'[p] = "crashed" /\ pc[p] \notin {"done", "crashed"}
    BY <1>0, <1>7, Zenon DEF Crash, CrashPinning, CrashUnpinning, CleanCrash, RemoveSome
  <2> QED BY <2>1, Zenon
<1> QED
  BY <1>1, <1>2, <1>3, <1>4, <1>5, <1>6, <1>7, ZenonT(60) DEF Acts, Step

\* The swap applies p's request to what is on the interface now, which is what p
\* has read: the kernel has checked that nobody was faster.
LEMMA SwapApplies ==
  ASSUME TypeInv, ContentsInv, NEW p \in Procs, Swap(p)
  PROVE  /\ Abstract!Allowed(p)
         /\ Loaded' = Abstract!Effect(p)
<1>1. /\ hook = mp[p].id /\ hook' = new[p] /\ progs' = progs /\ pc[p] = "swap"
  BY Zenon DEF Swap
<1>2. /\ SeenAt(p) /\ PlanAt(p) /\ StageAt(p)
      /\ hook \in Ids => progs[hook] # {}
  BY Zenon DEF ContentsInv
<1>3. /\ new[p] \in Ids \cup {NONE} /\ hook \in Ids \cup {LEGACY, NONE}
      /\ hook = LEGACY => mp[p].legacy
      /\ \A d \in Ids : progs[d] \subseteq Attachers
  BY <1>1, Zenon DEF TypeInv, ProtocolOK, LocalInv, Mains
<1>4. Loaded' = IF new[p] \in Ids THEN progs[new[p]] ELSE {}
  BY <1>1, <1>3, IdFacts, NamesAssumption, Zenon DEF Loaded
<1>5. ~ mp[p].legacy => Loaded = mp[p].progs
  BY <1>1, <1>2, <1>3, IdFacts, NamesAssumption, Zenon DEF SeenAt, Loaded
<1>6. mp[p].legacy => mp[p].progs = {}
  BY <1>1, <1>2, Zenon DEF SeenAt
<1>7. hook # NONE => Loaded # {}
  BY <1>2, <1>3, Zenon DEF Loaded
<1>8. LEGACY \notin Attachers
  BY NamesAssumption, Zenon DEF Procs
<1>9. CASE Adds(p)
  <2>1. p \in Attachers /\ new[p] \in Ids /\ Loaded = mp[p].progs
    BY <1>2, <1>3, <1>5, <1>9, Zenon DEF Adds, StageAt
  <2>2. LEGACY \notin Loaded
    BY <1>2, <1>3, <1>8, <1>1, <2>1, <1>9, Zenon DEF SeenAt, Adds
  <2>3. ~ Cardinality(Loaded) + 1 > MAX_DISPATCHER_ACTIONS
    BY <1>9, <2>1, Zenon DEF Adds
  <2>4. Abstract!Cardinality(Loaded) = Cardinality(Loaded)
    BY Zenon DEF Abstract!Cardinality, Cardinality
  <2>5. Abstract!Allowed(p)
    BY <2>1, <2>2, <2>3, <2>4, Zenon DEF Abstract!Allowed
  <2>6. Loaded' = Loaded \cup {p}
    BY <1>4, <1>9, <2>1, Zenon DEF Adds
  <2> QED BY <2>1, <2>5, <2>6, Zenon DEF Abstract!Effect
<1>10. CASE Removes(p)
  <2>1. p \in Unloaders /\ p \notin Attachers /\ new[p] \in Ids /\ Loaded = mp[p].progs
    BY <1>2, <1>3, <1>5, <1>6, <1>10, ProcsAssumption, Zenon DEF Removes, StageAt
  <2> QED
    BY <1>4, <1>10, <2>1, Zenon DEF Removes, Abstract!Allowed, Abstract!Effect
<1>11. CASE RemovesLast(p)
  <2>1. p \in Unloaders /\ p \notin Attachers /\ Loaded' = {}
    BY <1>2, <1>4, <1>11, ProcsAssumption, IdFacts, Zenon DEF RemovesLast, StageAt
  <2>2. Loaded = {Target[p]}
    <3>1. CASE mp[p].id = Target[p]
      <4>1. Target[p] \in Attachers \cup {LEGACY}
        BY <2>1, ProcsAssumption, Zenon
      <4>2. Target[p] \notin Ids \cup {NONE}
        BY <4>1, NamesAssumption, Zenon DEF Procs
      <4> QED BY <1>1, <1>3, <3>1, <4>2, IdFacts, Zenon DEF Loaded
    <3>2. CASE mp[p].progs = {Target[p]}
      BY <1>5, <1>6, <3>2, Zenon
    <3> QED BY <1>11, <3>1, <3>2, Zenon DEF RemovesLast
  <2> QED
    BY <2>1, <2>2, Zenon DEF Abstract!Allowed, Abstract!Effect
<1>12. CASE RemovesAll(p)
  <2>1. p \in UnloadAll /\ p \notin Attachers /\ p \notin Unloaders /\ Loaded' = {}
    BY <1>2, <1>4, <1>12, ProcsAssumption, IdFacts, Zenon DEF RemovesAll, StageAt
  <2>2. Loaded # {}
    BY <1>1, <1>7, <1>12, Zenon DEF RemovesAll
  <2> QED
    BY <2>1, <2>2, Zenon DEF Abstract!Allowed, Abstract!Effect
<1> QED
  BY <1>1, <1>2, <1>9, <1>10, <1>11, <1>12, Zenon DEF PlanAt

\* An initial state maps to the empty set of programs.
LEMMA InitRefines == Init => Abstract!Init
<1> SUFFICES ASSUME Init PROVE Abstract!Init
  BY Zenon
<1>1. Loaded = {} /\ Detached = {}
  BY IdFacts, NamesAssumption, Zenon DEF Init, Loaded, Detached
<1>2. \A p \in Procs : Status(p) = "pending"
  BY Zenon DEF Init, Status
<1> QED
  BY <1>1, <1>2, Zenon DEF Abstract!Init, Abstract!Procs, Procs

\* No cleaner has been at work as long as the requests of all are pending.
LEMMA CleaningBegun == ASSUME TypeInv PROVE ~ NoCleaning => Abstract!Cleaning
<1> SUFFICES ASSUME NEW c \in Cleaners, pc[c] # "clean" PROVE Abstract!Cleaning
  BY Zenon DEF NoCleaning
<1>1. c \in Procs /\ pc[c] \in {"check", "remove", "done", "crashed"}
  BY Zenon DEF TypeInv, LocalInv, Procs
<1>2. Status(c) # "pending"
  BY <1>1, Zenon DEF Status
<1> QED
  BY <1>1, <1>2, Zenon DEF Abstract!Cleaning

\* What is cut off is on the interface.
LEMMA DetachedLoaded == Detached \subseteq Loaded
BY Zenon DEF Detached, Loaded

\* Every step maps to one indivisible change, or to none.
LEMMA NextRefines ==
  ASSUME DispatcherInv, DispatcherInv', ContentsInv, TypeOK, [Next]_vars
  PROVE  [Abstract!Next]_(Abstract!vars)
<1> DEFINE st == [q \in Procs |-> Status(q)]
<1>0. TypeInv /\ UnseenInv
  BY Zenon DEF DispatcherInv
<1>p. Abstract!Procs = Procs /\ Cleaners \subseteq Procs
  BY Zenon DEF Abstract!Procs, Procs
<1>d. (Detached \subseteq Loaded)'
  BY Zenon DEF Detached, Loaded
<1>1. ASSUME NEW p \in Procs, Acts(p), ~ Swap(p)
      PROVE  [Abstract!Next]_(Abstract!vars)
  <2>1. Loaded' = Loaded
    BY <1>0, <1>1, LoadedKept, Zenon
  <2>2. OnlyMoves(p)
    BY <1>0, <1>1, ActsMoves, Zenon
  <2>3. st' = [st EXCEPT ![p] = Status(p)'] /\ st[p] = Status(p)
    BY <2>2, StatusMoves, Zenon
  <2>4. Abstract!CutOff(Detached)
    <3>1. CASE NoCleaning
      <4>1. Detached' = Detached
        BY <1>1, <3>1, NoneDetached, Zenon
      <4> QED BY <4>1, Zenon DEF Abstract!CutOff
    <3>2. CASE ~ NoCleaning
      <4>1. Detached \subseteq Detached' /\ Abstract!Cleaning
        BY <1>0, <1>1, <3>2, DetachedGrows, CleaningBegun, Zenon
      <4> QED BY <1>d, <4>1, Zenon DEF Abstract!CutOff
    <3> QED BY <3>1, <3>2, Zenon
  <2>5. CASE /\ Status(p)' = Status(p)
             /\ pc[p] \notin {"unpin_old", "remove"} /\ pc'[p] \notin {"done", "crashed"}
    <3>1. st' = st /\ DOMAIN st = Procs
      BY <2>3, <2>5, Zenon
    <3>2. Detached' = Detached
      BY <1>0, <1>1, <2>5, DetachedGrows, Zenon
    <3> QED BY <2>1, <3>1, <3>2, Zenon DEF Abstract!vars
  <2>6. CASE Status(p)' = Status(p) /\ Status(p) = "applied" /\ p \in Cleaners
    <3>1. st' = st
      BY <2>3, <2>6, Zenon
    <3>2. Abstract!Clean(p)
      BY <2>1, <2>3, <2>4, <2>6, <3>1, Zenon DEF Abstract!Clean
    <3> QED BY <2>6, <3>2, Zenon DEF Abstract!Next
  <2>7. CASE Status(p) = "pending" /\ Status(p)' = "applied" /\ p \in Cleaners
    <3>1. Abstract!Clean(p)
      BY <2>1, <2>3, <2>4, <2>7, Zenon DEF Abstract!Clean
    <3> QED BY <2>7, <3>1, Zenon DEF Abstract!Next
  <2>8. CASE \/ Status(p) = "pending" /\ Status(p)' \in {"failed", "crashed"}
             \/ Status(p) = "applied" /\ Status(p)' \in {"ok", "crashed"}
             \/ Status(p) = "applied" /\ Status(p)' = "failed" /\ ~ NoCleaning
    <3>1. ~ NoCleaning => Abstract!Cleaning
      BY <1>0, CleaningBegun, Zenon
    <3>2. Abstract!Finish(p)
      BY <2>1, <2>3, <2>4, <2>8, <3>1, Zenon DEF Abstract!Finish
    <3> QED BY <1>p, <3>2, Zenon DEF Abstract!Next
  <2> QED BY <1>1, <2>5, <2>6, <2>7, <2>8, StatusStep, Zenon
<1>2. ASSUME NEW p \in Procs, Swap(p) PROVE [Abstract!Next]_(Abstract!vars)
  <2>1. Abstract!Allowed(p) /\ Loaded' = Abstract!Effect(p)
    BY <1>0, <1>2, SwapApplies, Zenon
  <2>2. OnlyMoves(p)
    BY <1>0, <1>2, ActsMoves, Zenon DEF Acts, Step
  <2>3. st' = [st EXCEPT ![p] = Status(p)'] /\ st[p] = Status(p)
    BY <2>2, StatusMoves, Zenon
  <2>4. Status(p) = "pending" /\ Status(p)' \in {"applied", "ok"}
    <3>1. DOMAIN pc = Procs /\ DOMAIN ret = Procs
      BY <1>0, Zenon DEF TypeInv, ProtocolOK
    <3> QED BY <1>2, <3>1, Zenon DEF Swap, Status, Goto, Return
  <2>5. Abstract!CutOff({})
    <3>1. CASE NoCleaning
      <4>1. NoCleaning'
        <5>1. p \notin Cleaners
          BY <1>0, <1>2, Zenon DEF Swap, TypeInv, LocalInv
        <5> QED BY <1>p, <2>2, <3>1, <5>1, Zenon DEF OnlyMoves, NoCleaning
      <4>2. (hook \in Ids => links[hook] = progs[hook])'
        BY <4>1, Zenon DEF DispatcherInv, PinInv, Whole
      <4>3. Detached' = {}
        BY <4>2, Zenon DEF Detached, Linked
      <4> QED BY <4>3, Zenon DEF Abstract!CutOff
    <3>2. CASE ~ NoCleaning
      <4>1. Abstract!Cleaning
        BY <1>0, <3>2, CleaningBegun, Zenon
      <4> QED BY <1>d, <4>1, Zenon DEF Abstract!CutOff
    <3> QED BY <3>1, <3>2, Zenon
  <2>6. Abstract!Apply(p)
    BY <2>1, <2>3, <2>4, <2>5, Zenon DEF Abstract!Apply
  <2> QED BY <1>p, <2>6, Zenon DEF Abstract!Next
<1>3. ASSUME IpAttach \/ IpOff PROVE [Abstract!Next]_(Abstract!vars)
  <2>1. MaxIp > 0
    BY <1>3, BoundsAssumption DEF IpAttach, IpOff, TypeOK
  <2>2. st' = st
    <3>1. pc' = pc /\ ret' = ret
      BY <1>3, Zenon DEF IpAttach, IpOff
    <3> QED BY <3>1, Zenon DEF Status
  <2>3. (Loaded = {} /\ Loaded' = {LEGACY}) \/ Loaded' = {}
    BY <1>3, IdFacts, NamesAssumption DEF IpAttach, IpOff, Loaded
  <2>4. Detached' = {}
    BY <1>3, IdFacts, Zenon DEF IpAttach, IpOff, Detached
  <2>5. Abstract!IpLinkSet
    BY <2>1, <2>2, <2>3, <2>4, Zenon DEF Abstract!IpLinkSet
  <2> QED BY <2>5, Zenon DEF Abstract!Next
<1>4. ASSUME UNCHANGED vars PROVE [Abstract!Next]_(Abstract!vars)
  <2>1. Loaded' = Loaded /\ Detached' = Detached
    BY <1>4, Zenon DEF vars, Loaded, Detached, Linked
  <2>2. st' = st
    BY <1>4, Zenon DEF vars, Status
  <2> QED BY <2>1, <2>2, Zenon DEF Abstract!vars
<1> QED
  BY <1>1, <1>2, <1>3, <1>4, Zenon DEF Next, Process, CrashAnywhere, Acts

\* The protocol of libxdp.c, with its optimistic swaps, retries, pins, crashes and
\* the ip tool beside it, implements indivisible loads and unloads: no update of
\* the programs on the interface is lost, what a process reports is what it did,
\* and no program that was loaded is cut off from the packets.  Of cleaners it
\* shows that they lose no update either: what they can do is to cut programs off
\* and to make an unload report a failure.
THEOREM DispatcherImplements == Spec => ImplementsHookContents
<1>1. DispatcherInv /\ ContentsInv /\ [Next]_vars => ContentsInv'
  BY NextContentsInv, Zenon DEF DispatcherInv
<1>2. DispatcherInv /\ DispatcherInv' /\ ContentsInv /\ TypeOK /\ [Next]_vars
        => [Abstract!Next]_(Abstract!vars)
  BY NextRefines, Zenon
<1> QED
  BY <1>1, <1>2, InitDispatcherInv, NextDispatcherInv, InitContentsInv, InitRefines,
     DispatcherTypeOK, PTL DEF Spec, ImplementsHookContents, Abstract!Spec
=============================================================================
