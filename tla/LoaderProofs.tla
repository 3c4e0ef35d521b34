---------------------------- MODULE LoaderProofs ----------------------------
(***************************************************************************)
(* The two loaders in user space.  For any number of processes in          *)
(* bpf_prog_load_xattr_maps and any maps (PinnedMaps): the descriptors     *)
(* handed back agree, and a loader shares what it asked for or warns.  For *)
(* any number of runs of xdp_pass_user and any command lines (PassUser):   *)
(* the options are understood as written, and the exit status tells what   *)
(* was done.                                                               *)
(***************************************************************************)
EXTENDS PinnedMaps, PassUser, SequenceTheorems, WellFoundedInduction, TLAPS

(***************************************************************************)
(* bpf_prog_load_xattr_maps: types and agreement.                          *)
(***************************************************************************)

Agreement == TypeOK /\ HandlesAgree

\* Nothing is pinned at first and no descriptor refers to a map.
LEMMA InitAgreement == Init => Agreement
  BY ObjectsAssumption, NamesAssumption DEF Init, Agreement, TypeOK, HandlesAgree

\* A step of bpf_prog_load_xattr_maps keeps the types, and every map_fd that
\* refers to a map refers to the pinned one: a pin is made only where there was
\* none, and is never replaced.
LEMMA NextAgreement == Agreement /\ [Next]_vars => Agreement'
<1> SUFFICES ASSUME TypeOK, HandlesAgree, [Next]_vars
             PROVE  TypeOK' /\ HandlesAgree'
  BY DEF Agreement
<1> USE ObjectsAssumption, NamesAssumption
<1>1. ASSUME NEW p \in Loaders, OpenObject(p)
      PROVE  TypeOK' /\ HandlesAgree'
  BY <1>1 DEF OpenObject, Goto, TypeOK, HandlesAgree, Matches
<1>2. ASSUME NEW p \in Loaders, OpenObjectFails(p)
      PROVE  TypeOK' /\ HandlesAgree'
  BY <1>2 DEF OpenObjectFails, Goto, TypeOK, HandlesAgree
<1>3. ASSUME NEW p \in Loaders, NEW n \in Names, PinNotOpened(p, n)
      PROVE  TypeOK' /\ HandlesAgree'
  BY <1>3 DEF PinNotOpened, Visited, TypeOK, HandlesAgree
<1>4. ASSUME NEW p \in Loaders, NEW n \in Names, Reuse(p, n)
      PROVE  TypeOK' /\ HandlesAgree'
  BY <1>4 DEF Reuse, Visited, Set, TypeOK, HandlesAgree
<1>5. ASSUME NEW p \in Loaders, NEW n \in Names, ReuseFails(p, n)
      PROVE  TypeOK' /\ HandlesAgree'
  BY <1>5 DEF ReuseFails, Visited, Set, TypeOK, HandlesAgree
<1>6. ASSUME NEW p \in Loaders, Load(p)
      PROVE  TypeOK' /\ HandlesAgree'
  BY <1>6 DEF Load, Goto, TypeOK, HandlesAgree, Matches, Maps
<1>7. ASSUME NEW p \in Loaders, LoadFails(p)
      PROVE  TypeOK' /\ HandlesAgree'
  BY <1>7 DEF LoadFails, Goto, TypeOK, HandlesAgree
<1>8. ASSUME NEW p \in Loaders, NEW n \in Names, Pin(p, n)
      PROVE  TypeOK' /\ HandlesAgree'
  BY <1>8 DEF Pin, Visited, Set, TypeOK, HandlesAgree
<1>9. ASSUME NEW p \in Loaders, NEW n \in Names, PinFails(p, n)
      PROVE  TypeOK' /\ HandlesAgree'
  BY <1>9 DEF PinFails, Visited, TypeOK, HandlesAgree
<1>10. ASSUME NEW p \in Loaders, Report(p)
       PROVE  TypeOK' /\ HandlesAgree'
  BY <1>10 DEF Report, Goto, TypeOK, HandlesAgree
<1>11. CASE UNCHANGED vars
  BY <1>11 DEF vars, TypeOK, HandlesAgree
<1>12. QED
  BY <1>1, <1>2, <1>3, <1>4, <1>5, <1>6, <1>7, <1>8, <1>9, <1>10, <1>11 DEF Next

\* bpf_prog_load_xattr_maps keeps its variables within their types, and map_fd
\* is never the caller's garbage after the reset.
THEOREM MapsTypeOK == Spec => []TypeOK
<1>1. Agreement => TypeOK
  BY DEF Agreement
<1>2. QED
  BY InitAgreement, NextAgreement, <1>1, PTL DEF Spec

\* However loaders interleave and fail, the maps behind map_fd agree.
THEOREM MapsHandlesAgree == Spec => []HandlesAgree
<1>1. Agreement => HandlesAgree
  BY DEF Agreement
<1>2. QED
  BY InitAgreement, NextAgreement, <1>1, PTL DEF Spec

(***************************************************************************)
(* bpf_prog_load_xattr_maps: sharing.                                      *)
(***************************************************************************)

\* What a loader's object uses, against what it has opened and pinned so far.
Own(p) ==
    /\ at[p] = "start" => \A n \in Names : uses[p][n] = NONE
    /\ at[p] = "open" => \A n \in Names : uses[p][n] = map_fd[p][n]
    /\ at[p] \in {"pin", "ok"} =>
         \A n \in Names : map_fd[p][n] # NONE => uses[p][n] = map_fd[p][n]
    /\ at[p] = "ok" => warned[p] = {n \in Requested[p] : map_fd[p][n] = NONE}

Sharing == Agreement /\ \A p \in Loaders \ FlakyReuse : Own(p)

\* Before bpf_object__open no object uses a map.
LEMMA InitSharing == Init => Sharing
  BY SMTT(40), InitAgreement DEF Init, Sharing, Own

\* A step of one loader leaves the others' variables alone, and map_fd and the
\* object's maps change together.
LEMMA NextOwn ==
  ASSUME Sharing, [Next]_vars, NEW q \in Loaders \ FlakyReuse
  PROVE  Own(q)'
<1> TypeOK /\ Own(q)
  BY DEF Sharing, Agreement
<1> USE ObjectsAssumption, NamesAssumption DEF TypeOK, Own
<1>1. ASSUME NEW p \in Loaders, OpenObject(p) PROVE Own(q)'
  BY <1>1 DEF OpenObject, Goto
<1>2. ASSUME NEW p \in Loaders, OpenObjectFails(p) PROVE Own(q)'
  BY <1>2 DEF OpenObjectFails, Goto
<1>3. ASSUME NEW p \in Loaders, NEW n \in Names, PinNotOpened(p, n) PROVE Own(q)'
  BY <1>3 DEF PinNotOpened
<1>4. ASSUME NEW p \in Loaders, NEW n \in Names, Reuse(p, n) PROVE Own(q)'
  BY <1>4 DEF Reuse, Set
<1>5. ASSUME NEW p \in Loaders, NEW n \in Names, ReuseFails(p, n) PROVE Own(q)'
  BY SMTT(40), <1>5 DEF ReuseFails, Set
<1>6. ASSUME NEW p \in Loaders, Load(p) PROVE Own(q)'
  BY <1>6 DEF Load, Goto
<1>7. ASSUME NEW p \in Loaders, LoadFails(p) PROVE Own(q)'
  BY SMTT(40), <1>7 DEF LoadFails, Goto
<1>8. ASSUME NEW p \in Loaders, NEW n \in Names, Pin(p, n) PROVE Own(q)'
  BY SMTT(40), <1>8 DEF Pin, Set
<1>9. ASSUME NEW p \in Loaders, NEW n \in Names, PinFails(p, n) PROVE Own(q)'
  BY SMTT(40), <1>9 DEF PinFails
<1>10. ASSUME NEW p \in Loaders, Report(p) PROVE Own(q)'
  BY SMTT(40), <1>10 DEF Report, Goto
<1>11. CASE UNCHANGED vars
  BY <1>11 DEF vars
<1>12. QED
  BY ZenonT(60), <1>1, <1>2, <1>3, <1>4, <1>5, <1>6, <1>7, <1>8, <1>9, <1>10, <1>11
  DEF Next

\* A loader whose bpf_map__reuse_fd does not fail and that returns 0 uses the
\* pinned map under every name it asked for and has not warned about, whatever
\* the other loaders do.
THEOREM MapsSharedOrWarned == Spec => []SharedOrWarned
<1>1. Sharing /\ [Next]_vars => Sharing'
  BY NextAgreement, NextOwn DEF Sharing
<1>2. Sharing => SharedOrWarned
  <2> SUFFICES ASSUME Sharing, NEW p \in Loaders \ FlakyReuse, at[p] = "ok",
                      NEW n \in Matches(p) \ warned[p]
               PROVE  uses[p][n] = pins[n]
    BY DEF SharedOrWarned
  <2>1. n \in Names /\ n \in Requested[p]
    BY ObjectsAssumption DEF Matches
  <2>2. map_fd[p][n] # NONE
    BY <2>1 DEF Sharing, Own
  <2>3. map_fd[p][n] \in Maps
    BY <2>1, <2>2 DEF Sharing, Agreement, TypeOK
  <2>4. QED
    BY <2>1, <2>2, <2>3 DEF Sharing, Own, Agreement, HandlesAgree
<1>3. QED
  BY InitSharing, <1>1, <1>2, PTL DEF Spec

(***************************************************************************)
(* xdp_pass_user: the options.                                             *)
(***************************************************************************)

\* If an option among S is given, one of them is the last.
LEMMA LastExists ==
  ASSUME NEW s \in Seq(Options), NEW S, Given(s, S)
  PROVE  Lasts(s, S) # {}
<1> DEFINE n == Len(s)
           R == OpToRel(<, Nat)
           T == {x \in Nat : x \in 0..(n - 1) /\ s[n - x].o \in S}
<1>1. n \in Nat /\ IsWellFoundedOn(R, Nat)
  BY NatLessThanWellFounded, LenProperties, Zenon
<1>2. PICK i \in 1..n : s[i].o \in S
  BY Zenon DEF Given
<1> HIDE DEF n, R
<1>3. n - i \in Nat /\ n - i \in 0..(n - 1) /\ n - (n - i) = i
  BY <1>1
<1>4. n - i \in T /\ T \subseteq Nat
  BY <1>2, <1>3, Zenon
<1>5. PICK x \in T : \A y \in T : ~(<<y, x>> \in R)
  <2> HIDE DEF T
  <2> QED
    BY ZenonT(60), <1>1, <1>4, WFMin
<1>6. x \in Nat /\ x \in 0..(n - 1) /\ n - x \in 1..n
  BY <1>1, <1>5
<1>7. ASSUME NEW j \in ((n - x) + 1)..n, s[j].o \in S
      PROVE  FALSE
  <2>1. n - j \in Nat /\ n - j \in 0..(n - 1) /\ n - (n - j) = j /\ n - j < x
    BY <1>1, <1>6
  <2>2. n - j \in T
    BY <1>7, <2>1, Zenon
  <2>3. <<n - j, x>> \in R
    BY <1>6, <2>1, Zenon DEF R, OpToRel
  <2> QED
    BY <1>5, <2>2, <2>3, Zenon
<1>8. n - x \in Lasts(s, S)
  BY <1>5, <1>6, <1>7, Zenon DEF Lasts, n
<1> QED
  BY <1>8, Zenon

\* What one more option does to the questions whether an option among S is given
\* and which is the last.
LEMMA OneMoreOption ==
  ASSUME NEW s \in Seq(Options), NEW e \in Options, NEW S
  PROVE  /\ Given(Append(s, e), S) <=> Given(s, S) \/ e.o \in S
         /\ e.o \in S => LastOf(Append(s, e), S) = e
         /\ e.o \notin S /\ Given(s, S) =>
              LastOf(Append(s, e), S) = LastOf(s, S)
<1> DEFINE t == Append(s, e)
           n == Len(s)
<1>1. /\ n \in Nat /\ Len(t) = n + 1 /\ t[n + 1] = e
      /\ \A i \in 1..n : t[i] = s[i]
  OBVIOUS
<1> HIDE DEF t, n
<1>2. /\ \A i \in 1..(n + 1) : i \in 1..n \/ i = n + 1
      /\ \A i \in 1..n : i \in 1..(n + 1) /\ n + 1 \in (i + 1)..(n + 1)
      /\ n + 1 \in 1..(n + 1) /\ \A j \in ((n + 1) + 1)..(n + 1) : FALSE
  BY <1>1
<1>3. Given(t, S) <=> Given(s, S) \/ e.o \in S
  BY <1>1, <1>2, Zenon DEF Given, n
<1>4. ASSUME e.o \in S
      PROVE  LastOf(t, S) = e
  <2>1. Lasts(t, S) = {n + 1}
    <3>1. n + 1 \in Lasts(t, S)
      BY <1>1, <1>2, <1>4, Zenon DEF Lasts
    <3>2. \A i \in Lasts(t, S) : i = n + 1
      BY <1>1, <1>2, <1>4, Zenon DEF Lasts
    <3> QED
      BY <3>1, <3>2, Zenon
  <2>2. (CHOOSE i \in Lasts(t, S) : TRUE) = n + 1
    BY <2>1, Zenon
  <2> QED
    BY <1>1, <2>2, Zenon DEF LastOf
<1>5. ASSUME e.o \notin S, Given(s, S)
      PROVE  LastOf(t, S) = LastOf(s, S)
  <2>1. Lasts(t, S) = Lasts(s, S)
    <3>1. ASSUME NEW i \in Lasts(t, S)
          PROVE  i \in Lasts(s, S)
      <4>1. i \in 1..n /\ t[i].o \in S /\ \A j \in (i + 1)..(n + 1) : t[j].o \notin S
        BY <1>1, <1>2, <1>5, Zenon DEF Lasts
      <4>2. \A j \in (i + 1)..n : j \in (i + 1)..(n + 1) /\ j \in 1..n
        BY <1>1, <4>1
      <4> QED
        BY <1>1, <4>1, <4>2, Zenon DEF Lasts, n
    <3>2. ASSUME NEW i \in Lasts(s, S)
          PROVE  i \in Lasts(t, S)
      <4>1. i \in 1..n /\ s[i].o \in S /\ \A j \in (i + 1)..n : s[j].o \notin S
        BY Zenon DEF Lasts, n
      <4>2. \A j \in (i + 1)..(n + 1) : j = n + 1 \/ (j \in (i + 1)..n /\ j \in 1..n)
        BY <1>1, <4>1
      <4>3. \A j \in (i + 1)..(n + 1) : t[j].o \notin S
        BY <1>1, <1>5, <4>1, <4>2, Zenon
      <4> QED
        BY <1>1, <1>2, <4>1, <4>3, Zenon DEF Lasts
    <3> QED
      BY <3>1, <3>2, Zenon
  <2> DEFINE l == CHOOSE i \in Lasts(s, S) : TRUE
  <2>2. l \in Lasts(s, S)
    BY <1>5, LastExists, Zenon
  <2>3. l \in 1..n
    BY <2>2, Zenon DEF Lasts, n
  <2> HIDE DEF l
  <2> QED
    BY <1>1, <2>1, <2>3, Zenon DEF LastOf, l
<1> QED
  BY <1>3, <1>4, <1>5, Zenon DEF t

\* struct config, field by field, and the bind flags a letter of Copying leaves.
Config(i, m, f, u, g, a) ==
    [ifindex |-> i, attach_mode |-> m, xsk_bind_flags |-> f, do_unload |-> u,
     prog_id |-> g, unload_all |-> a]

Flags(letter) == IF letter = "z" THEN {"XDP_ZEROCOPY"} ELSE {"XDP_COPY"}

\* What the switch of parse_cmdline_args does to each field.  An option sets the
\* fields of its own matter and no other; XDP_COPY and XDP_ZEROCOPY put each other
\* out.
LEMMA SetDoes ==
  ASSUME NEW i, NEW m, NEW f, NEW u, NEW g, NEW a, NEW e,
         f \in {{}, {"XDP_COPY"}, {"XDP_ZEROCOPY"}},
         u \in BOOLEAN, a \in BOOLEAN
  PROVE  SetOption(Config(i, m, f, u, g, a), e) =
           Config(IF e.o = "d" THEN e.a ELSE i,
                  IF e.o \in Modes THEN Mode(e.o) ELSE m,
                  IF e.o \in Copying THEN Flags(e.o) ELSE f,
                  u \/ e.o = "U",
                  IF e.o = "U" THEN e.a ELSE g,
                  a \/ e.o = "unload-all")
<1> DEFINE c == Config(i, m, f, u, g, a)
           l == e.o
           x == e.a
           d == Config(IF l = "d" THEN x ELSE i,
                       IF l \in Modes THEN Mode(l) ELSE m,
                       IF l \in Copying THEN Flags(l) ELSE f,
                       u \/ l = "U",
                       IF l = "U" THEN x ELSE g,
                       a \/ l = "unload-all")
<1>1. Copy(f) = {"XDP_COPY"} /\ Zerocopy(f) = {"XDP_ZEROCOPY"}
  BY DEF Copy, Zerocopy
<1> SUFFICES SetOption(c, e) = d
  BY Zenon
<1> HIDE DEF l, x
<1>2. CASE l = "d"
  <2>1. SetOption(c, e) = [c EXCEPT !.ifindex = x]
    BY <1>2 DEF SetOption, l, x
  <2>2. d = Config(x, m, f, u, g, a)
    BY <1>2 DEF Modes, Copying
  <2> QED
    BY <2>1, <2>2 DEF Config
<1>3. CASE l = "A"
  <2>1. SetOption(c, e) = [c EXCEPT !.attach_mode = "UNSPEC"]
    BY <1>3 DEF SetOption, l, x
  <2>2. d = Config(i, "UNSPEC", f, u, g, a)
    BY <1>3 DEF Modes, Copying, Mode
  <2> QED
    BY <2>1, <2>2 DEF Config
<1>4. CASE l = "S"
  <2>1. SetOption(c, e) =
          [c EXCEPT !.attach_mode = "SKB", !.xsk_bind_flags = Copy(c.xsk_bind_flags)]
    BY <1>4 DEF SetOption, l, x
  <2>2. d = Config(i, "SKB", {"XDP_COPY"}, u, g, a)
    BY <1>4 DEF Modes, Copying, Mode, Flags
  <2>3. c.xsk_bind_flags = f
    BY DEF Config
  <2> QED
    BY ZenonT(60), <1>1, <2>1, <2>2, <2>3 DEF Config
<1>5. CASE l = "N"
  <2>1. SetOption(c, e) = [c EXCEPT !.attach_mode = "NATIVE"]
    BY <1>5 DEF SetOption, l, x
  <2>2. d = Config(i, "NATIVE", f, u, g, a)
    BY <1>5 DEF Modes, Copying, Mode
  <2> QED
    BY <2>1, <2>2 DEF Config
<1>6. CASE l = "offload-mode"
  <2>1. SetOption(c, e) = [c EXCEPT !.attach_mode = "HW"]
    BY <1>6 DEF SetOption, l, x
  <2>2. d = Config(i, "HW", f, u, g, a)
    BY <1>6 DEF Modes, Copying, Mode
  <2> QED
    BY <2>1, <2>2 DEF Config
<1>7. CASE l = "U"
  <2>1. SetOption(c, e) = [c EXCEPT !.do_unload = TRUE, !.prog_id = x]
    BY <1>7 DEF SetOption, l, x
  <2>2. d = Config(i, m, f, TRUE, x, a)
    BY ZenonT(60), <1>7 DEF Modes, Copying
  <2> QED
    BY ZenonT(60), <2>1, <2>2 DEF Config
<1>8. CASE l = "c"
  <2>1. SetOption(c, e) = [c EXCEPT !.xsk_bind_flags = Copy(c.xsk_bind_flags)]
    BY <1>8 DEF SetOption, l, x
  <2>2. d = Config(i, m, {"XDP_COPY"}, u, g, a)
    BY <1>8 DEF Modes, Copying, Flags
  <2>3. c.xsk_bind_flags = f
    BY DEF Config
  <2> QED
    BY <1>1, <2>1, <2>2, <2>3 DEF Config
<1>9. CASE l = "z"
  <2>1. SetOption(c, e) = [c EXCEPT !.xsk_bind_flags = Zerocopy(c.xsk_bind_flags)]
    BY <1>9 DEF SetOption, l, x
  <2>2. d = Config(i, m, {"XDP_ZEROCOPY"}, u, g, a)
    BY <1>9 DEF Modes, Copying, Flags
  <2>3. c.xsk_bind_flags = f
    BY DEF Config
  <2> QED
    BY <1>1, <2>1, <2>2, <2>3 DEF Config
<1>10. CASE l = "unload-all"
  <2>1. SetOption(c, e) = [c EXCEPT !.unload_all = TRUE]
    BY <1>10 DEF SetOption, l, x
  <2>2. d = Config(i, m, f, u, g, TRUE)
    BY ZenonT(60), <1>10 DEF Modes, Copying
  <2> QED
    BY ZenonT(60), <2>1, <2>2 DEF Config
<1>11. CASE l \notin {"d", "A", "S", "N", "offload-mode", "U", "c", "z", "unload-all"}
  <2>1. SetOption(c, e) = c
    BY <1>11 DEF SetOption, l, x
  <2>2. d = c
    BY <1>11 DEF Modes, Copying
  <2> QED
    BY <2>1, <2>2, Zenon
<1> QED
  BY <1>2, <1>3, <1>4, <1>5, <1>6, <1>7, <1>8, <1>9, <1>10, <1>11, Zenon

\* One round of the loop of parse_cmdline_args keeps pace with the meaning of the
\* options read: if the configuration was what s means, it now is what s with one
\* more option means.
LEMMA SetMeans ==
  ASSUME NEW s \in Seq(Options), NEW e \in Options
  PROVE  SetOption(Meaning(s), e) = Meaning(Append(s, e))
<1> DEFINE t == Append(s, e)
           i == IF Given(s, {"d"}) THEN LastOf(s, {"d"}).a ELSE NoDevice
           m == IF Given(s, Modes) THEN Mode(LastOf(s, Modes).o)
                ELSE "UNSPEC"
           f == IF ~ Given(s, Copying) THEN {}
                ELSE Flags(LastOf(s, Copying).o)
           g == IF Given(s, {"U"}) THEN LastOf(s, {"U"}).a ELSE ZERO
           u == Given(s, {"U"})
           a == Given(s, {"unload-all"})
<1>1. Meaning(s) = Config(i, m, f, u, g, a)
  BY DEF Meaning, Config, Flags
<1>2. /\ f \in {{}, {"XDP_COPY"}, {"XDP_ZEROCOPY"}}
      /\ u \in BOOLEAN /\ a \in BOOLEAN
  BY DEF Flags, Given
<1>3. Meaning(t) =
        Config(IF e.o = "d" THEN e.a ELSE i,
               IF e.o \in Modes THEN Mode(e.o) ELSE m,
               IF e.o \in Copying THEN Flags(e.o) ELSE f,
               u \/ e.o = "U",
               IF e.o = "U" THEN e.a ELSE g,
               a \/ e.o = "unload-all")
  <2> DEFINE More(S) ==
               /\ Given(t, S) <=> Given(s, S) \/ e.o \in S
               /\ e.o \in S => LastOf(t, S) = e
               /\ e.o \notin S /\ Given(s, S) => LastOf(t, S) = LastOf(s, S)
  <2>1. More({"d"}) /\ More(Modes) /\ More(Copying) /\ More({"U"})
        /\ More({"unload-all"})
    BY OneMoreOption, Zenon
  <2> DEFINE i2 == IF Given(t, {"d"}) THEN LastOf(t, {"d"}).a ELSE NoDevice
             m2 == IF Given(t, Modes)
                   THEN Mode(LastOf(t, Modes).o) ELSE "UNSPEC"
             f2 == IF ~ Given(t, Copying) THEN {}
                   ELSE Flags(LastOf(t, Copying).o)
             g2 == IF Given(t, {"U"}) THEN LastOf(t, {"U"}).a ELSE ZERO
             u2 == Given(t, {"U"})
             a2 == Given(t, {"unload-all"})
  <2>2. Meaning(t) = Config(i2, m2, f2, u2, g2, a2)
    BY DEF Meaning, Config, Flags
  <2> HIDE DEF t
  <2>3. i2 = IF e.o = "d" THEN e.a ELSE i
    BY <2>1, Zenon
  <2>4. m2 = IF e.o \in Modes THEN Mode(e.o) ELSE m
    BY <2>1, Zenon
  <2>5. f2 = IF e.o \in Copying THEN Flags(e.o) ELSE f
    BY <2>1, Zenon
  <2>6. g2 = IF e.o = "U" THEN e.a ELSE g
    BY <2>1, Zenon
  <2>7. (u2 = (u \/ e.o = "U")) /\ (a2 = (a \/ e.o = "unload-all"))
    <3>1. (u2 <=> (u \/ e.o = "U")) /\ (a2 <=> (a \/ e.o = "unload-all"))
      BY <2>1, Zenon
    <3>2. u2 \in BOOLEAN /\ a2 \in BOOLEAN /\ u \in BOOLEAN /\ a \in BOOLEAN
      BY Zenon DEF Given
    <3> HIDE DEF u, u2, a, a2
    <3> QED
      BY <3>1, <3>2, Zenon
  <2> HIDE DEF i2, m2, f2, g2, u2, a2, i, m, f, g, u, a
  <2> QED
    BY <2>2, <2>3, <2>4, <2>5, <2>6, <2>7, Zenon
<1> HIDE DEF i, m, f, g, u, a
<1>4. SetOption(Config(i, m, f, u, g, a), e) =
        Config(IF e.o = "d" THEN e.a ELSE i,
               IF e.o \in Modes THEN Mode(e.o) ELSE m,
               IF e.o \in Copying THEN Flags(e.o) ELSE f,
               u \/ e.o = "U",
               IF e.o = "U" THEN e.a ELSE g,
               a \/ e.o = "unload-all")
  BY <1>2, SetDoes, SMT
<1> QED
  BY <1>1, <1>3, <1>4, Zenon

(***************************************************************************)
(* xdp_pass_user: main and do_unload.                                      *)
(***************************************************************************)

\* What the command line s asks for, as a function of s.
Wanted(s) ==
    LET m == Meaning(s) IN
    [kind |-> IF m.unload_all THEN "unload_all" ELSE IF m.do_unload THEN "unload"
              ELSE "load",
     dev |-> m.ifindex]

\* What a process at m, with status st, has done so far (ap), having read n options
\* of the command line s into c: nothing before the detach or the attach, and then
\* what s asks for.  Behind the options, main is on the branch its configuration
\* calls for.
Answer(m, st, ap, n, c, s) ==
    /\ m \in {"parse", "get", "detach", "create", "attach"} => ap = {}
    /\ m \in {"get", "detach", "create", "attach", "info"} => n = Len(s)
    /\ m \in {"get", "detach"} => Unloads(c)
    /\ m \in {"create", "attach"} => ~ Unloads(c)
    /\ m = "info" => ap = {Wanted(s)}
    /\ m = "exit" \/ st = "none"
    /\ m = "exit" =>
         /\ st = "EXIT_OK" => ap = {Wanted(s)}
         /\ st \in {"EXIT_FAIL_OPTION", "SIGSEGV"} => ap = {}
         /\ ap \subseteq {Wanted(s)}

Where == {"parse", "get", "detach", "create", "attach", "info", "exit"}

\* x is a function on the processes.
PerProc(x) == x = [p \in Procs |-> x[p]]

Answers(p) == Answer(main[p], status[p], applied[p], optind[p], cfg[p], argv[p])

UserTypes ==
    /\ argv \in [Procs -> Seq(Options)]
    /\ PerProc(optind) /\ PerProc(cfg) /\ PerProc(main) /\ PerProc(found)
    /\ PerProc(applied) /\ PerProc(status)
    /\ \A p \in Procs : /\ optind[p] \in Nat /\ optind[p] <= Len(argv[p])
                        /\ main[p] \in Where

\* The inductive invariant: the configuration is what the options so far mean, and
\* every process has done what its place and status say.
UserInv ==
    /\ UserTypes
    /\ ParsedAsWritten
    /\ \A p \in Procs : Answers(p)

\* Every process starts with the defaults, which is what no option means.
LEMMA UserInvInit == UserInit => UserInv
<1> SUFFICES ASSUME UserInit PROVE UserInv
  BY Zenon
<1>1. argv \in [Procs -> Seq(Options)]
  BY ArgvAssumption DEF UserInit
<1>2. /\ PerProc(optind) /\ PerProc(cfg) /\ PerProc(main) /\ PerProc(found)
      /\ PerProc(applied) /\ PerProc(status)
  BY DEF UserInit, PerProc
<1>3. ASSUME NEW p \in Procs
      PROVE  /\ argv[p] \in Seq(Options) /\ Len(argv[p]) \in Nat
             /\ optind[p] = 0 /\ main[p] = "parse" /\ applied[p] = {}
             /\ status[p] = "none" /\ cfg[p] = Cfg0
  BY <1>1 DEF UserInit
<1>4. UserTypes
  BY <1>1, <1>2, <1>3 DEF UserTypes, Where
<1>5. ASSUME NEW p \in Procs
      PROVE  cfg[p] = Meaning(SubSeq(argv[p], 1, optind[p]))
  <2>1. SubSeq(argv[p], 1, optind[p]) = <<>>
    BY <1>3
  <2>2. \A S : ~ Given(<<>>, S)
    BY SMTT(40) DEF Given
  <2>3. Meaning(<<>>) = Cfg0
    <3>1. /\ Given(<<>>, {"U"}) = FALSE /\ Given(<<>>, {"unload-all"}) = FALSE
          /\ Given(<<>>, {"d"}) = FALSE /\ Given(<<>>, Modes) = FALSE
          /\ Given(<<>>, Copying) = FALSE
      BY <2>2 DEF Given
    <3> QED
      BY ZenonT(60), <3>1 DEF Meaning, Cfg0
  <2> QED
    BY <1>3, <2>1, <2>3, Zenon
<1>6. ASSUME NEW p \in Procs PROVE Answers(p)
  BY <1>3 DEF Answers, Answer
<1> QED
  BY <1>4, <1>5, <1>6, Zenon DEF UserInv, ParsedAsWritten

\* y is x but for the share of p.
Only(x, y, p) == y = [x EXCEPT ![p] = y[p]]

\* A variable left alone.
LEMMA OnlySame ==
  ASSUME NEW x, PerProc(x), NEW p \in Procs
  PROVE  Only(x, x, p)
BY DEF PerProc, Only

\* If only the share of p changes, the other processes keep theirs.
LEMMA OnlyKeeps ==
  ASSUME NEW x, PerProc(x), NEW p \in Procs, NEW y, Only(x, y, p)
  PROVE  PerProc(y) /\ \A q \in Procs : q # p => y[q] = x[q]
BY DEF PerProc, Only

\* A step changes no variable of another process.  The devices are not among them.
Alone(p) ==
    /\ argv' = argv
    /\ Only(optind, optind', p) /\ Only(cfg, cfg', p) /\ Only(main, main', p)
    /\ Only(found, found', p) /\ Only(applied, applied', p) /\ Only(status, status', p)

\* A step of one process that keeps its own share of the invariant keeps the whole.
LEMMA MovesOn ==
  ASSUME UserInv, NEW p \in Procs, Alone(p),
         optind'[p] \in Nat, optind'[p] <= Len(argv[p]), main'[p] \in Where,
         cfg'[p] = Meaning(SubSeq(argv[p], 1, optind'[p])),
         Answer(main'[p], status'[p], applied'[p], optind'[p], cfg'[p], argv[p])
  PROVE  UserInv'
<1>1. /\ argv \in [Procs -> Seq(Options)]
      /\ PerProc(optind) /\ PerProc(cfg) /\ PerProc(main) /\ PerProc(found)
      /\ PerProc(applied) /\ PerProc(status)
  BY Zenon DEF UserInv, UserTypes
<1>2. /\ argv' = argv
      /\ PerProc(optind') /\ PerProc(cfg') /\ PerProc(main') /\ PerProc(found')
      /\ PerProc(applied') /\ PerProc(status')
  BY <1>1, OnlyKeeps, Zenon DEF Alone
<1>3. ASSUME NEW q \in Procs, q # p
      PROVE  /\ optind'[q] = optind[q] /\ cfg'[q] = cfg[q] /\ main'[q] = main[q]
             /\ applied'[q] = applied[q] /\ status'[q] = status[q]
  <2>1. optind'[q] = optind[q] /\ cfg'[q] = cfg[q]
    BY <1>1, <1>3, OnlyKeeps, ZenonT(60) DEF Alone
  <2>2. main'[q] = main[q] /\ applied'[q] = applied[q]
    BY <1>1, <1>3, OnlyKeeps, ZenonT(60) DEF Alone
  <2>3. status'[q] = status[q]
    BY <1>1, <1>3, OnlyKeeps, ZenonT(60) DEF Alone
  <2> QED
    BY <2>1, <2>2, <2>3, Zenon
<1>4. ASSUME NEW q \in Procs
      PROVE  /\ optind'[q] \in Nat /\ optind'[q] <= Len(argv[q]) /\ main'[q] \in Where
             /\ cfg'[q] = Meaning(SubSeq(argv[q], 1, optind'[q]))
             /\ Answer(main'[q], status'[q], applied'[q], optind'[q], cfg'[q], argv[q])
  <2>1. CASE q = p
    BY <2>1, Zenon
  <2>2. CASE q # p
    <3>1. /\ optind[q] \in Nat /\ optind[q] <= Len(argv[q]) /\ main[q] \in Where
          /\ cfg[q] = Meaning(SubSeq(argv[q], 1, optind[q]))
          /\ Answer(main[q], status[q], applied[q], optind[q], cfg[q], argv[q])
      BY Zenon DEF UserInv, UserTypes, ParsedAsWritten, Answers
    <3> QED
      BY <1>3, <2>2, <3>1, Zenon
  <2> QED
    BY <2>1, <2>2, Zenon
<1>5. UserTypes'
  BY <1>1, <1>2, <1>4, Zenon DEF UserTypes
<1>6. ParsedAsWritten'
  BY <1>2, <1>4, Zenon DEF ParsedAsWritten
<1>7. \A q \in Procs : Answers(q)'
  BY <1>2, <1>4, Zenon DEF Answers
<1> QED
  BY <1>5, <1>6, <1>7, Zenon DEF UserInv

\* What the invariant says of one process.
LEMMA AtProc ==
  ASSUME UserInv, NEW p \in Procs
  PROVE  /\ argv[p] \in Seq(Options) /\ Len(argv[p]) \in Nat
         /\ PerProc(optind) /\ PerProc(cfg) /\ PerProc(main) /\ PerProc(found)
         /\ PerProc(applied) /\ PerProc(status)
         /\ optind[p] \in Nat /\ optind[p] <= Len(argv[p]) /\ main[p] \in Where
         /\ cfg[p] = Meaning(SubSeq(argv[p], 1, optind[p]))
         /\ Answer(main[p], status[p], applied[p], optind[p], cfg[p], argv[p])
<1>1. argv[p] \in Seq(Options)
  BY DEF UserInv, UserTypes
<1>2. Len(argv[p]) \in Nat
  BY <1>1, LenProperties, Zenon
<1> QED
  BY <1>1, <1>2, Zenon DEF UserInv, UserTypes, ParsedAsWritten, Answers

\* A process may exit with a status that tells what it has done.
LEMMA Leaves ==
  ASSUME UserInv, NEW p \in Procs, NEW st, Exit(p, st),
         UNCHANGED <<argv, optind, cfg>>,
         Only(found, found', p), Only(applied, applied', p),
         st = "EXIT_OK" => applied'[p] = {Wanted(argv[p])},
         st \in {"EXIT_FAIL_OPTION", "SIGSEGV"} => applied'[p] = {},
         applied'[p] \subseteq {Wanted(argv[p])}
  PROVE  UserInv'
<1>1. /\ PerProc(optind) /\ PerProc(cfg) /\ PerProc(main) /\ PerProc(status)
      /\ optind[p] \in Nat /\ optind[p] <= Len(argv[p])
      /\ cfg[p] = Meaning(SubSeq(argv[p], 1, optind[p]))
  BY AtProc, Zenon
<1>2. main' = [main EXCEPT ![p] = "exit"] /\ status' = [status EXCEPT ![p] = st]
  BY Zenon DEF Exit, MainGoto
<1>3. main'[p] = "exit" /\ status'[p] = st /\ Alone(p)
  <2>1. main'[p] = "exit" /\ Only(main, main', p)
    BY SMTT(40), <1>1, <1>2 DEF PerProc, Only
  <2>2. status'[p] = st /\ Only(status, status', p)
    BY <1>1, <1>2 DEF PerProc, Only
  <2>3. Only(optind, optind', p) /\ Only(cfg, cfg', p)
    BY <1>1, OnlySame, Zenon
  <2> QED
    BY <2>1, <2>2, <2>3, Zenon DEF Alone
<1>4. Answer(main'[p], status'[p], applied'[p], optind'[p], cfg'[p], argv[p])
  <2>1. Answer("exit", st, applied'[p], optind[p], cfg[p], argv[p])
    BY DEF Answer
  <2> QED
    BY <1>3, <2>1, Zenon
<1>5. main'[p] \in Where
  BY <1>3, Zenon DEF Where
<1>6. optind'[p] = optind[p] /\ cfg'[p] = cfg[p]
  BY Zenon
<1> QED
  BY <1>1, <1>3, <1>4, <1>5, <1>6, MovesOn, Zenon

\* A process may go on to a place that fits what it has done.
LEMMA Goes ==
  ASSUME UserInv, NEW p \in Procs, NEW where \in Where, MainGoto(p, where),
         UNCHANGED <<argv, optind, cfg, status>>,
         Only(found, found', p), Only(applied, applied', p),
         Answer(where, status[p], applied'[p], optind[p], cfg[p], argv[p])
  PROVE  UserInv'
<1>1. /\ PerProc(optind) /\ PerProc(cfg) /\ PerProc(main) /\ PerProc(status)
      /\ optind[p] \in Nat /\ optind[p] <= Len(argv[p])
      /\ cfg[p] = Meaning(SubSeq(argv[p], 1, optind[p]))
  BY AtProc, Zenon
<1>2. main' = [main EXCEPT ![p] = where]
  BY Zenon DEF MainGoto
<1>3. main'[p] = where /\ Only(main, main', p)
  BY <1>1, <1>2 DEF PerProc, Only
<1>4. Only(optind, optind', p) /\ Only(cfg, cfg', p) /\ Only(status, status', p)
  BY <1>1, OnlySame, Zenon
<1>5. Alone(p)
  BY <1>3, <1>4, Zenon DEF Alone
<1>6. /\ optind'[p] = optind[p] /\ cfg'[p] = cfg[p]
      /\ Answer(main'[p], status'[p], applied'[p], optind'[p], cfg'[p], argv[p])
  BY <1>3, Zenon
<1> QED
  BY <1>1, <1>3, <1>5, <1>6, MovesOn, Zenon

\* ParseOption: an option is refused before anything was done, or the configuration
\* becomes what the options up to and including this one mean.
LEMMA TakesOption ==
  ASSUME UserInv, NEW p \in Procs, ParseOption(p)
  PROVE  UserInv'
<1> DEFINE s == argv[p]
           n == optind[p]
           e == s[n + 1]
<1>1. /\ s \in Seq(Options) /\ Len(s) \in Nat /\ n \in Nat /\ n < Len(s)
      /\ PerProc(optind) /\ PerProc(cfg) /\ PerProc(main) /\ PerProc(found)
      /\ PerProc(applied) /\ PerProc(status)
      /\ cfg[p] = Meaning(SubSeq(s, 1, n)) /\ main[p] = "parse"
      /\ Answer(main[p], status[p], applied[p], n, cfg[p], s)
  BY AtProc, Zenon DEF ParseOption
<1>2. applied[p] = {} /\ status[p] = "none"
  BY <1>1 DEF Answer
<1>3. CASE Refused(e)
  <2>1. Exit(p, "EXIT_FAIL_OPTION") /\ UNCHANGED <<argv, optind, cfg, found, applied>>
    BY <1>3, Zenon DEF ParseOption
  <2>2. Only(found, found', p) /\ Only(applied, applied', p) /\ applied'[p] = {}
    BY <1>1, <1>2, <2>1, OnlySame, Zenon
  <2>3. "EXIT_FAIL_OPTION" # "EXIT_OK" /\ {} \subseteq {Wanted(s)}
    OBVIOUS
  <2> QED
    BY <2>1, <2>2, <2>3, Leaves, Zenon
<1>4. CASE ~ Refused(e)
  <2>1. /\ optind' = [optind EXCEPT ![p] = optind[p] + 1]
        /\ cfg' = [cfg EXCEPT ![p] = SetOption(cfg[p], e)]
        /\ UNCHANGED <<argv, main, status, found, applied>>
    BY <1>4, Zenon DEF ParseOption
  <2>2. optind'[p] = n + 1 /\ Only(optind, optind', p)
    BY SMTT(40), <1>1, <2>1 DEF PerProc, Only
  <2>3. cfg'[p] = SetOption(cfg[p], e) /\ Only(cfg, cfg', p)
    BY <1>1, <2>1 DEF PerProc, Only
  <2>4. Alone(p)
    BY <1>1, <2>1, <2>2, <2>3, OnlySame, Zenon DEF Alone
  <2>5. /\ SubSeq(s, 1, n) \in Seq(Options) /\ e \in Options
        /\ SubSeq(s, 1, n + 1) = Append(SubSeq(s, 1, n), e)
    <3> HIDE DEF s, n
    <3> QED
      BY SMTT(40), <1>1
  <2>6. n + 1 \in Nat /\ n + 1 <= Len(s)
    BY <1>1
  <2>7. cfg'[p] = Meaning(SubSeq(s, 1, n + 1))
    BY <1>1, <2>3, <2>5, SetMeans, Zenon
  <2>8. Answer("parse", "none", {}, n + 1, cfg'[p], s)
    BY DEF Answer
  <2>9. /\ main'[p] = "parse" /\ status'[p] = "none" /\ applied'[p] = {}
        /\ "parse" \in Where
    BY <1>1, <1>2, <2>1, Zenon DEF Where
  <2>10. Answer(main'[p], status'[p], applied'[p], optind'[p], cfg'[p], s)
    BY <2>2, <2>8, <2>9, ZenonT(60)
  <2> HIDE DEF n, e
  <2> QED
    BY <2>2, <2>4, <2>6, <2>7, <2>9, <2>10, MovesOn, Zenon
<1> QED
  BY <1>3, <1>4, Zenon

\* Behind the last option the configuration tells what the command line asks for,
\* and so which branch of main and of do_unload does it.
LEMMA AskedIs ==
  ASSUME UserInv, NEW p \in Procs, optind[p] = Len(argv[p])
  PROVE  /\ cfg[p] = Meaning(argv[p]) /\ Wanted(argv[p]).dev = cfg[p].ifindex
         /\ cfg[p].unload_all =>
              Wanted(argv[p]) = [kind |-> "unload_all", dev |-> cfg[p].ifindex]
         /\ ~ cfg[p].unload_all /\ Unloads(cfg[p]) =>
              Wanted(argv[p]) = [kind |-> "unload", dev |-> cfg[p].ifindex]
         /\ ~ Unloads(cfg[p]) =>
              Wanted(argv[p]) = [kind |-> "load", dev |-> cfg[p].ifindex]
<1>1. argv[p] \in Seq(Options) /\ cfg[p] = Meaning(SubSeq(argv[p], 1, optind[p]))
  BY AtProc, Zenon
<1>2. SubSeq(argv[p], 1, Len(argv[p])) = argv[p]
  BY <1>1
<1>3. cfg[p] = Meaning(argv[p])
  BY <1>1, <1>2, Zenon
<1>4. Wanted(argv[p]) =
        [kind |-> IF cfg[p].unload_all THEN "unload_all"
                  ELSE IF cfg[p].do_unload THEN "unload" ELSE "load",
         dev |-> cfg[p].ifindex]
  BY <1>3 DEF Wanted
<1> QED
  BY <1>3, <1>4 DEF Unloads

\* ParseOverrun and EndOptions: the process ends with nothing done, or main takes
\* the branch the configuration calls for.
LEMMA Ends ==
  ASSUME UserInv, NEW p \in Procs, ParseOverrun(p) \/ EndOptions(p)
  PROVE  UserInv'
<1>1. /\ PerProc(found) /\ PerProc(applied) /\ main[p] = "parse"
      /\ Answer(main[p], status[p], applied[p], optind[p], cfg[p], argv[p])
  BY AtProc, Zenon DEF ParseOverrun, EndOptions
<1>2. applied[p] = {} /\ status[p] = "none"
  BY <1>1 DEF Answer
<1>3. UNCHANGED <<argv, optind, cfg, found, applied>>
  BY Zenon DEF ParseOverrun, EndOptions
<1>4. Only(found, found', p) /\ Only(applied, applied', p)
  BY <1>1, <1>3, OnlySame, Zenon
<1>5. ASSUME NEW st \in {"EXIT_FAIL_OPTION", "SIGSEGV"}, Exit(p, st)
      PROVE  UserInv'
  <2>1. st # "EXIT_OK" /\ {} \subseteq {Wanted(argv[p])}
    BY <1>5
  <2>2. applied'[p] = {}
    BY <1>2, <1>3, Zenon
  <2> QED
    BY <1>3, <1>4, <1>5, <2>1, <2>2, Leaves, Zenon
<1>6. CASE ParseOverrun(p)
  BY <1>5, <1>6, Zenon DEF ParseOverrun
<1>7. CASE EndOptions(p) /\ cfg[p].ifindex = NoDevice
  BY <1>5, <1>7, Zenon DEF EndOptions
<1>8. CASE EndOptions(p) /\ cfg[p].ifindex # NoDevice
  <2> DEFINE where == IF Unloads(cfg[p]) THEN "get" ELSE "create"
  <2>1. MainGoto(p, where) /\ UNCHANGED status /\ optind[p] = Len(argv[p])
    BY <1>8, Zenon DEF EndOptions
  <2>2. where \in Where
    BY Zenon DEF Where
  <2>3. Answer(where, "none", {}, optind[p], cfg[p], argv[p])
    BY <2>1 DEF Answer
  <2>4. Answer(where, status[p], applied'[p], optind[p], cfg[p], argv[p])
    BY <1>2, <1>3, <2>3, Zenon
  <2> HIDE DEF where
  <2> QED
    BY <1>3, <1>4, <2>1, <2>2, <2>4, Goes, Zenon
<1> QED
  BY <1>6, <1>7, <1>8, Zenon

\* GetMultiprog only looks at the device.
LEMMA Gets ==
  ASSUME UserInv, NEW p \in Procs, GetMultiprog(p)
  PROVE  UserInv'
<1>1. /\ PerProc(found) /\ PerProc(applied) /\ main[p] = "get"
      /\ Answer(main[p], status[p], applied[p], optind[p], cfg[p], argv[p])
  BY AtProc, ZenonT(60) DEF GetMultiprog
<1>2. /\ applied[p] = {} /\ status[p] = "none" /\ optind[p] = Len(argv[p])
      /\ Unloads(cfg[p])
  BY <1>1 DEF Answer
<1>3. /\ UNCHANGED <<argv, optind, cfg, applied>>
      /\ found' = [found EXCEPT ![p] = attached[cfg[p].ifindex]]
      /\ \/ MainGoto(p, "detach") /\ UNCHANGED status
         \/ Exit(p, "EXIT_FAIL")
  BY Zenon DEF GetMultiprog
<1>4. Only(found, found', p)
  BY <1>1, <1>3 DEF PerProc, Only
<1>5. Only(applied, applied', p) /\ applied'[p] = {}
  BY <1>1, <1>2, <1>3, OnlySame, Zenon
<1>6. CASE MainGoto(p, "detach") /\ UNCHANGED status
  <2>1. Answer("detach", "none", {}, optind[p], cfg[p], argv[p])
    BY <1>2 DEF Answer
  <2>2. Answer("detach", status[p], applied'[p], optind[p], cfg[p], argv[p])
    BY <1>2, <1>5, <2>1, Zenon
  <2>3. "detach" \in Where
    BY Zenon DEF Where
  <2> QED
    BY <1>3, <1>4, <1>5, <1>6, <2>2, <2>3, Goes, ZenonT(60)
<1>7. CASE Exit(p, "EXIT_FAIL")
  <2>1. "EXIT_FAIL" # "EXIT_OK" /\ {} \subseteq {Wanted(argv[p])}
    OBVIOUS
  <2> QED
    BY <1>3, <1>4, <1>5, <1>7, <2>1, Leaves, Zenon
<1> QED
  BY <1>3, <1>6, <1>7, Zenon

\* Detach does what was asked for, whatever status it then reports.
LEMMA Detaches ==
  ASSUME UserInv, NEW p \in Procs, Detach(p)
  PROVE  UserInv'
<1>1. /\ PerProc(found) /\ PerProc(applied) /\ main[p] = "detach"
      /\ Answer(main[p], status[p], applied[p], optind[p], cfg[p], argv[p])
  BY AtProc, Zenon DEF Detach
<1>2. applied[p] = {} /\ optind[p] = Len(argv[p]) /\ Unloads(cfg[p])
  BY <1>1 DEF Answer
<1>3. /\ UNCHANGED <<argv, optind, cfg, found>>
      /\ \E st \in {"EXIT_OK", "EXIT_FAIL"} : Exit(p, st)
      /\ \/ cfg[p].unload_all /\ Record(p, "unload_all")
         \/ ~ cfg[p].unload_all /\ Record(p, "unload")
  BY Zenon DEF Detach
<1>4. applied' = [applied EXCEPT ![p] = applied[p] \cup {Wanted(argv[p])}]
  <2>1. CASE cfg[p].unload_all /\ Record(p, "unload_all")
    <3>1. Wanted(argv[p]) = [kind |-> "unload_all", dev |-> cfg[p].ifindex]
      BY <1>2, <2>1, AskedIs, Zenon
    <3> QED
      BY <2>1, <3>1, Zenon DEF Record
  <2>2. CASE ~ cfg[p].unload_all /\ Record(p, "unload")
    <3>1. Wanted(argv[p]) = [kind |-> "unload", dev |-> cfg[p].ifindex]
      BY <1>2, <2>2, AskedIs, Zenon
    <3> QED
      BY <2>2, <3>1, Zenon DEF Record
  <2> QED
    BY <1>3, <2>1, <2>2, Zenon
<1>5. Only(applied, applied', p) /\ applied'[p] = {Wanted(argv[p])}
  <2>1. {} \cup {Wanted(argv[p])} = {Wanted(argv[p])}
    OBVIOUS
  <2>2. applied' = [applied EXCEPT ![p] = {Wanted(argv[p])}]
    BY <1>2, <1>4, <2>1, Zenon
  <2> QED
    BY <1>1, <2>2 DEF PerProc, Only
<1>6. Only(found, found', p)
  BY <1>1, <1>3, OnlySame, Zenon
<1>7. PICK st \in {"EXIT_OK", "EXIT_FAIL"} : Exit(p, st)
  BY <1>3, Zenon
<1>8. st \notin {"EXIT_FAIL_OPTION", "SIGSEGV"} /\ {Wanted(argv[p])} \subseteq {Wanted(argv[p])}
  BY <1>7
<1> QED
  BY <1>3, <1>5, <1>6, <1>7, <1>8, Leaves, Zenon

\* Create and Attach: the program is attached once, on the device asked for.
LEMMA Loads ==
  ASSUME UserInv, NEW p \in Procs, Create(p) \/ Attach(p)
  PROVE  UserInv'
<1>1. /\ PerProc(found) /\ PerProc(applied) /\ main[p] \in {"create", "attach"}
      /\ Answer(main[p], status[p], applied[p], optind[p], cfg[p], argv[p])
  BY AtProc, Zenon DEF Create, Attach
<1>2. /\ applied[p] = {} /\ status[p] = "none" /\ optind[p] = Len(argv[p])
      /\ ~ Unloads(cfg[p])
  BY <1>1 DEF Answer
<1>3. UNCHANGED <<argv, optind, cfg, found, status>>
  BY Zenon DEF Create, Attach
<1>4. Only(found, found', p) /\ "attach" \in Where /\ "info" \in Where
  BY <1>1, <1>3, OnlySame, Zenon DEF Where
<1>5. CASE Create(p)
  <2>1. MainGoto(p, "attach") /\ UNCHANGED applied
    BY <1>5, Zenon DEF Create
  <2>2. Only(applied, applied', p) /\ applied'[p] = {}
    BY <1>1, <1>2, <2>1, OnlySame, ZenonT(60)
  <2>3. Answer("attach", "none", {}, optind[p], cfg[p], argv[p])
    BY <1>2 DEF Answer
  <2>4. Answer("attach", status[p], applied'[p], optind[p], cfg[p], argv[p])
    BY <1>2, <2>2, <2>3, Zenon
  <2> QED
    BY <1>3, <1>4, <2>1, <2>2, <2>4, Goes, Zenon
<1>6. CASE Attach(p)
  <2>1. MainGoto(p, "info") /\ Record(p, "load")
    BY <1>6, Zenon DEF Attach
  <2>2. Wanted(argv[p]) = [kind |-> "load", dev |-> cfg[p].ifindex]
    BY <1>2, AskedIs, Zenon
  <2>3. applied' = [applied EXCEPT ![p] = applied[p] \cup {Wanted(argv[p])}]
    BY <2>1, <2>2, Zenon DEF Record
  <2>4. {} \cup {Wanted(argv[p])} = {Wanted(argv[p])}
    OBVIOUS
  <2>5. applied' = [applied EXCEPT ![p] = {Wanted(argv[p])}]
    BY <1>2, <2>3, <2>4, Zenon
  <2>6. Only(applied, applied', p) /\ applied'[p] = {Wanted(argv[p])}
    BY SMTT(40), <1>1, <2>5 DEF PerProc, Only
  <2>7. Answer("info", "none", {Wanted(argv[p])}, optind[p], cfg[p], argv[p])
    BY <1>2 DEF Answer
  <2>8. Answer("info", status[p], applied'[p], optind[p], cfg[p], argv[p])
    BY <1>2, <2>6, <2>7, Zenon
  <2> QED
    BY <1>3, <1>4, <2>1, <2>6, <2>8, Goes, Zenon
<1> QED
  BY <1>5, <1>6, Zenon

\* Info, UnloadFails and LoadFails: main returns; with EXIT_OK only behind the
\* attach.
LEMMA Returns ==
  ASSUME UserInv, NEW p \in Procs,
         Info(p) \/ UnloadFails(p) \/ LoadCallFails(p)
  PROVE  UserInv'
<1>1. /\ PerProc(found) /\ PerProc(applied)
      /\ Answer(main[p], status[p], applied[p], optind[p], cfg[p], argv[p])
  BY AtProc, Zenon
<1>2. UNCHANGED <<argv, optind, cfg, found, applied>>
  BY Zenon DEF Info, UnloadFails, LoadCallFails
<1>3. Only(found, found', p) /\ Only(applied, applied', p) /\ applied'[p] = applied[p]
  BY <1>1, <1>2, OnlySame, Zenon
<1>4. PICK st \in {"EXIT_OK", "EXIT_FAIL", "err"} :
            /\ Exit(p, st)
            /\ st = "EXIT_OK" => main[p] = "info"
            /\ main[p] \in {"get", "detach", "create", "attach", "info"}
  <2>1. CASE Info(p)
    BY <2>1 DEF Info
  <2>2. CASE UnloadFails(p)
    BY <2>2 DEF UnloadFails
  <2>3. CASE LoadCallFails(p)
    BY SMTT(40), <2>3 DEF LoadCallFails
  <2> QED
    BY <2>1, <2>2, <2>3, Zenon
<1>5. /\ st = "EXIT_OK" => applied[p] = {Wanted(argv[p])}
      /\ st \notin {"EXIT_FAIL_OPTION", "SIGSEGV"}
      /\ applied[p] \subseteq {Wanted(argv[p])}
  BY <1>1, <1>4 DEF Answer
<1> QED
  BY <1>2, <1>3, <1>4, <1>5, Leaves, Zenon

\* Every step of a process keeps the invariant.
LEMMA UserInvNext == UserInv /\ [UserNext]_userVars => UserInv'
<1> SUFFICES ASSUME UserInv, [UserNext]_userVars PROVE UserInv'
  BY Zenon
<1>1. CASE UserNext
  <2>1. PICK p \in Procs :
          \/ ParseOption(p) \/ ParseOverrun(p) \/ EndOptions(p)
          \/ GetMultiprog(p) \/ Detach(p)
          \/ Create(p) \/ Attach(p)
          \/ Info(p) \/ UnloadFails(p) \/ LoadCallFails(p)
    BY <1>1, Zenon DEF UserNext
  <2> QED
    BY <2>1, TakesOption, Ends, Gets, Detaches, Loads, Returns, Zenon
<1>2. CASE UNCHANGED userVars
  BY <1>2, Zenon DEF userVars, UserInv, UserTypes, ParsedAsWritten, Answers
<1> QED
  BY <1>1, <1>2, Zenon

\* The invariant holds at any time.
LEMMA UserInvHolds == UserSpec => []UserInv
BY UserInvInit, UserInvNext, PTL DEF UserSpec

\* However many options are given, in any order and repeated, the configuration
\* xdp_pass_user has built is what the options read so far mean.
THEOREM UserParsesAsWritten == UserSpec => []ParsedAsWritten
<1>1. UserInv => ParsedAsWritten
  BY Zenon DEF UserInv
<1> QED
  BY <1>1, UserInvHolds, PTL

\* However many processes run and fail on the same devices, the exit status of
\* xdp_pass_user tells what it did: EXIT_OK what the whole command line asks for,
\* EXIT_FAIL_OPTION or death in getopt_long nothing, and never anything else.
THEOREM UserExitTellsEffect == UserSpec => []ExitTellsEffect
<1>1. UserInv => ExitTellsEffect
  <2> SUFFICES ASSUME UserInv, NEW p \in Procs
               PROVE  /\ status[p] = "EXIT_OK" => applied[p] = {Asked(p)}
                      /\ status[p] \in {"EXIT_FAIL_OPTION", "SIGSEGV"} => applied[p] = {}
                      /\ applied[p] \subseteq {Asked(p)}
    BY Zenon DEF ExitTellsEffect
  <2>1. Asked(p) = Wanted(argv[p])
    BY Zenon DEF Asked, Wanted
  <2>2. /\ main[p] \in Where
        /\ Answer(main[p], status[p], applied[p], optind[p], cfg[p], argv[p])
    BY AtProc, Zenon
  <2> QED
    BY <2>1, <2>2 DEF Where, Answer
<1> QED
  BY <1>1, UserInvHolds, PTL
=============================================================================
