----------------------------- MODULE MCPassUser -----------------------------
EXTENDS PassUser

CONSTANTS p1, p2

Opt(o) == [o |-> o, a |-> NoDevice]
OptArg(o, a) == [o |-> o, a |-> a]

Dev == OptArg("d", "veth0")

\* Options of each kind, and all those whose order matters.
GivenOptions ==
    {Dev, OptArg("d", "veth1"), OptArg("d", "gone"), OptArg("r", TooLong),
     OptArg("U", p2), OptArg("U", ZERO), Opt("unload-all"),
     Opt("A"), Opt("S"), Opt("N"), Opt("c"), Opt("z"), Opt("M"), Opt("h"),
     Opt("?")}

\* Every command line of up to three options, beside a process that loads and
\* one that unloads.
CommandLines ==
    {[p \in {p1, p2} |-> IF p = p1 THEN s ELSE t] :
       s \in UNION {[1..k -> GivenOptions] : k \in 0..3},
       t \in {<<Dev>>, <<Dev, Opt("unload-all")>>}}
=============================================================================
