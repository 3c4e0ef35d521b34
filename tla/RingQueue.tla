----------------------------- MODULE RingQueue ------------------------------
(***************************************************************************)
(* What an AF_XDP ring promises its two users: a bounded FIFO queue.  The  *)
(* consumer first takes entries at the head, which stay in the queue, and  *)
(* then either gives them up for good or puts them back.  Entries are      *)
(* numbered in the order in which they are submitted.                      *)
(***************************************************************************)
EXTENDS Naturals, Sequences

CONSTANT Capacity

VARIABLES
    queue,  \* entries submitted and not released
    taken,  \* how many of them, from the head, the consumer has taken
    sent    \* number of entries submitted

vars == <<queue, taken, sent>>

Init == queue = <<>> /\ taken = 0 /\ sent = 0

Submit ==
    \E k \in 1..(Capacity - Len(queue)) :
      /\ queue' = queue \o [j \in 1..k |-> sent + j - 1]
      /\ sent' = sent + k
      /\ UNCHANGED taken

Take ==
    /\ \E k \in 0..Len(queue) : taken' = k
    /\ UNCHANGED <<queue, sent>>

Release ==
    \E k \in 1..taken :
      /\ queue' = SubSeq(queue, k + 1, Len(queue))
      /\ taken' = taken - k
      /\ UNCHANGED sent

Next == Submit \/ Take \/ Release

Spec == Init /\ [][Next]_vars
=============================================================================
