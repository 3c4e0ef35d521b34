------------------------------ MODULE PassUser ------------------------------
(***************************************************************************)
(* xdp_pass_user from its command line to its exit status: the options are *)
(* parsed one by one, then main loads or unloads through libxdp.  Several  *)
(* processes run on the same devices; what libxdp does to the programs on  *)
(* a device is one step here, which the module Dispatcher takes apart.     *)
(* An option is [o, a]: its letter and, where it takes one, its argument.  *)
(***************************************************************************)
EXTENDS Naturals, Sequences

CONSTANTS
    Procs,     \* the processes; each names the program it loads
    Options,   \* the options that may be given
    Argv,      \* the command lines they may be run with
    Devs,      \* the names of the devices there are
    TooLong,   \* a name of IF_NAMESIZE characters or more
    NoDevice   \* ifindex = -1

ASSUME ArgvAssumption == Argv \subseteq [Procs -> Seq(Options)]

VARIABLES
    argv,      \* the command line
    optind,    \* options parsed so far
    cfg,       \* struct config
    main,      \* where main is
    found,     \* do_unload: the programs on the device when it looked
    attached,  \* the programs on each device
    applied,   \* ghost: what the process did to which device
    status     \* exit status, as a name; "none" while it runs

userVars == <<argv, optind, cfg, main, found, attached, applied, status>>

\* The program id given by --unload 0, or by anything atoi cannot read.
ZERO == "0"

Cfg0 == [ifindex |-> NoDevice, attach_mode |-> "UNSPEC", xsk_bind_flags |-> {},
         do_unload |-> FALSE, prog_id |-> ZERO, unload_all |-> FALSE]

UserInit ==
    /\ argv \in Argv
    /\ optind = [p \in Procs |-> 0]
    /\ cfg = [p \in Procs |-> Cfg0]
    /\ main = [p \in Procs |-> "parse"]
    /\ found = [p \in Procs |-> {}]
    /\ attached = [d \in Devs |-> {}]
    /\ applied = [p \in Procs |-> {}]
    /\ status = [p \in Procs |-> "none"]

MainGoto(p, where) == main' = [main EXCEPT ![p] = where]

Exit(p, s) ==
    /\ MainGoto(p, "exit")
    /\ status' = [status EXCEPT ![p] = s]

-----------------------------------------------------------------------------
(* parse_cmdline_args *)

\* Options that are refused: help, what the switch has no case for, and the name
\* of a device that is too long or that if_nametoindex does not know.
Refused(opt) ==
    \/ opt.o \in {"h", "F", "?"}
    \/ opt.o \in {"d", "r"} /\ (opt.a = TooLong \/ opt.a \notin Devs)

\* Mutant: XDP_COPY is not taken back.
ZerocopyToo(flags) == flags \cup {"XDP_ZEROCOPY"}

\* XDP_COPY and XDP_ZEROCOPY put each other out.
Copy(flags) == (flags \ {"XDP_ZEROCOPY"}) \cup {"XDP_COPY"}
Zerocopy(flags) == (flags \ {"XDP_COPY"}) \cup {"XDP_ZEROCOPY"}

\* The switch; the options whose fields xdp_pass_user never reads have no effect.
SetOption(c, opt) ==
    CASE opt.o = "d" -> [c EXCEPT !.ifindex = opt.a]
      [] opt.o = "A" -> [c EXCEPT !.attach_mode = "UNSPEC"]
      [] opt.o = "S" -> [c EXCEPT !.attach_mode = "SKB", !.xsk_bind_flags = Copy(@)]
      [] opt.o = "N" -> [c EXCEPT !.attach_mode = "NATIVE"]
      [] opt.o = "offload-mode" -> [c EXCEPT !.attach_mode = "HW"]
      [] opt.o = "U" -> [c EXCEPT !.do_unload = TRUE, !.prog_id = opt.a]
      [] opt.o = "c" -> [c EXCEPT !.xsk_bind_flags = Copy(@)]
      [] opt.o = "z" -> [c EXCEPT !.xsk_bind_flags = Zerocopy(@)]
      [] opt.o = "unload-all" -> [c EXCEPT !.unload_all = TRUE]
      [] OTHER -> c

ParseOption(p) ==
    /\ main[p] = "parse"
    /\ optind[p] < Len(argv[p])
    /\ LET opt == argv[p][optind[p] + 1] IN
       IF Refused(opt)
       THEN Exit(p, "EXIT_FAIL_OPTION") /\ UNCHANGED <<optind, cfg>>
       ELSE /\ optind' = [optind EXCEPT ![p] = @ + 1]
            /\ cfg' = [cfg EXCEPT ![p] = SetOption(@, opt)]
            /\ UNCHANGED <<main, status>>
    /\ UNCHANGED <<argv, found, attached, applied>>

\* The copy of the option table has no last, empty entry: looking for a name that
\* is not in it, getopt_long reads on and may end the process.
ParseOverrun(p) ==
    /\ main[p] = "parse"
    /\ optind[p] < Len(argv[p])
    /\ argv[p][optind[p] + 1].o = "?"
    /\ Exit(p, "SIGSEGV")
    /\ UNCHANGED <<argv, optind, cfg, found, attached, applied>>

-----------------------------------------------------------------------------
(* main and do_unload *)

\* Mutant: --unload-all alone does not unload.
UnloadsById(c) == c.do_unload

Unloads(c) == c.do_unload \/ c.unload_all

\* After the last option: --dev is required.
EndOptions(p) ==
    /\ main[p] = "parse"
    /\ optind[p] = Len(argv[p])
    /\ IF cfg[p].ifindex = NoDevice
       THEN Exit(p, "EXIT_FAIL_OPTION")
       ELSE /\ MainGoto(p, IF Unloads(cfg[p]) THEN "get" ELSE "create")
            /\ UNCHANGED status
    /\ UNCHANGED <<argv, optind, cfg, found, attached, applied>>

\* do_unload looks at the device; the program with id 0 it finds in any case, in
\* the hw_prog there is not.
GetMultiprog(p) ==
    /\ main[p] = "get"
    /\ found' = [found EXCEPT ![p] = attached[cfg[p].ifindex]]
    /\ IF /\ found'[p] # {}
          /\ cfg[p].unload_all \/ cfg[p].prog_id \in found'[p] \cup {ZERO}
       THEN MainGoto(p, "detach") /\ UNCHANGED status
       ELSE Exit(p, "EXIT_FAIL")
    /\ UNCHANGED <<argv, optind, cfg, attached, applied>>

Record(p, kind) ==
    applied' = [applied EXCEPT ![p] = @ \cup {[kind |-> kind, dev |-> cfg[p].ifindex]}]

\* xdp_multiprog__detach, if the device is as it was found; xdp_program__detach,
\* if the program is still on it.  An error may come after the effect, when the
\* pins cannot be removed.
Detach(p) ==
    LET c == cfg[p]
        dev == c.ifindex
    IN
    /\ main[p] = "detach"
    /\ IF c.unload_all
       THEN /\ attached[dev] = found[p]
            /\ attached' = [attached EXCEPT ![dev] = {}]
            /\ Record(p, "unload_all")
       ELSE /\ c.prog_id \in attached[dev]
            /\ attached' = [attached EXCEPT ![dev] = @ \ {c.prog_id}]
            /\ Record(p, "unload")
    /\ \E s \in {"EXIT_OK", "EXIT_FAIL"} : Exit(p, s)
    /\ UNCHANGED <<argv, optind, cfg, found>>

Attach(p) ==
    /\ main[p] = "attach"
    /\ attached' = [attached EXCEPT ![cfg[p].ifindex] = @ \cup {p}]
    /\ Record(p, "load")
    /\ MainGoto(p, "info")
    /\ UNCHANGED <<argv, optind, cfg, found, status>>

\* xdp_program__create, and the success message after bpf_obj_get_info_by_fd.
Create(p) ==
    /\ main[p] = "create"
    /\ MainGoto(p, "attach")
    /\ UNCHANGED <<argv, optind, cfg, found, attached, applied, status>>

Info(p) ==
    /\ main[p] = "info"
    /\ Exit(p, "EXIT_OK")
    /\ UNCHANGED <<argv, optind, cfg, found, attached, applied>>

\* Any of these calls may fail, with no effect of its own.
UnloadFails(p) ==
    /\ main[p] \in {"get", "detach"}
    /\ Exit(p, "EXIT_FAIL")
    /\ UNCHANGED <<argv, optind, cfg, found, attached, applied>>

LoadCallFails(p) ==
    /\ main[p] \in {"create", "attach", "info"}
    /\ Exit(p, "err")
    /\ UNCHANGED <<argv, optind, cfg, found, attached, applied>>

UserNext ==
    \E p \in Procs :
      \/ ParseOption(p)
      \/ ParseOverrun(p)
      \/ EndOptions(p)
      \/ GetMultiprog(p)
      \/ Detach(p)
      \/ Create(p)
      \/ Attach(p)
      \/ Info(p)
      \/ UnloadFails(p)
      \/ LoadCallFails(p)

UserSpec == UserInit /\ [][UserNext]_userVars

-----------------------------------------------------------------------------
\* Whether an option among the letters S is in s, and the last such option.
Given(s, S) == \E i \in 1..Len(s) : s[i].o \in S
Lasts(s, S) ==
    {i \in 1..Len(s) : s[i].o \in S /\ \A j \in (i + 1)..Len(s) : s[j].o \notin S}
LastOf(s, S) == s[CHOOSE i \in Lasts(s, S) : TRUE]

Mode(letter) ==
    CASE letter = "A" -> "UNSPEC"
      [] letter = "S" -> "SKB"
      [] letter = "N" -> "NATIVE"
      [] letter = "offload-mode" -> "HW"

\* What a command line means: of several options on one matter the last counts.
Modes == {"A", "S", "N", "offload-mode"}
Copying == {"S", "c", "z"}
Meaning(s) ==
    [ifindex |-> IF Given(s, {"d"}) THEN LastOf(s, {"d"}).a ELSE NoDevice,
     attach_mode |-> IF Given(s, Modes) THEN Mode(LastOf(s, Modes).o) ELSE "UNSPEC",
     xsk_bind_flags |-> IF ~ Given(s, Copying) THEN {}
                        ELSE IF LastOf(s, Copying).o = "z"
                        THEN {"XDP_ZEROCOPY"} ELSE {"XDP_COPY"},
     do_unload |-> Given(s, {"U"}),
     prog_id |-> IF Given(s, {"U"}) THEN LastOf(s, {"U"}).a ELSE ZERO,
     unload_all |-> Given(s, {"unload-all"})]

\* After any number of options, in any order and repeated, the configuration is
\* what the options so far mean; in particular at most one of XDP_COPY and
\* XDP_ZEROCOPY is set.
ParsedAsWritten ==
    \A p \in Procs : cfg[p] = Meaning(SubSeq(argv[p], 1, optind[p]))

Asked(p) ==
    LET m == Meaning(argv[p]) IN
    [kind |-> IF m.unload_all THEN "unload_all" ELSE IF m.do_unload THEN "unload"
              ELSE "load",
     dev |-> m.ifindex]

\* A process that exits with EXIT_OK has done what its whole command line asks
\* for, on the device it names and nothing else; one that exits with
\* EXIT_FAIL_OPTION, or dies looking up an option, has touched no device; no
\* process does anything else than it was asked.
ExitTellsEffect ==
    \A p \in Procs :
      /\ status[p] = "EXIT_OK" => applied[p] = {Asked(p)}
      /\ status[p] \in {"EXIT_FAIL_OPTION", "SIGSEGV"} => applied[p] = {}
      /\ applied[p] \subseteq {Asked(p)}
=============================================================================
