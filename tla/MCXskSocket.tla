---------------------------- MODULE MCXskSocket -----------------------------
EXTENDS XskSocket, TLC

CONSTANTS s1, s2, s3, s4, u1, u2, q1, q2

\* s3 and s4 contend for a context; s1 and s2 want one queue for two umems.
UmemOf == s1 :> u1 @@ s2 :> u2 @@ s3 :> u1 @@ s4 :> u1
QueueOf == s1 :> q1 @@ s2 :> q1 @@ s3 :> q2 @@ s4 :> q2

\* s3 and s4 are alike, and so are the copies of the program.
Alike == Permutations({s3, s4}) \cup Permutations(Progs)
=============================================================================
