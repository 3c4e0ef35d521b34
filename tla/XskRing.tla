------------------------------ MODULE XskRing -------------------------------
(***************************************************************************)
(* A ring between an application and the kernel (xsk.h): a single producer *)
(* and a single consumer, each with cached copies of both indices, which   *)
(* it refreshes only when it has to.  Indices are __u32 and wrap around;   *)
(* an entry lives in slot idx & mask.  On the fill and Tx rings the        *)
(* application is the producer and on the Rx and completion rings the      *)
(* consumer; the kernel keeps the same protocol at the other end.          *)
(*                                                                         *)
(* Entries are numbered in the order in which they are reserved; entry n   *)
(* carries the value n.  The counters of such numbers are ghosts.          *)
(***************************************************************************)
EXTENDS Integers

CONSTANTS
    Size,      \* number of entries, a power of two in the code
    U32,       \* number of values of an index, 2^32 in the code
    Batches,   \* the nb arguments of the calls
    MaxItems   \* bound: number of entries reserved

ASSUME SizeAssumption == Size \in Nat \ {0} /\ U32 \in Nat /\ Size < U32
ASSUME WrapAssumption == U32 % Size = 0
ASSUME BatchesAssumption == Batches \subseteq Nat \ {0} /\ MaxItems \in Nat

VARIABLES
    producer, consumer,                  \* the indices both ends share
    ring,                                \* the slots
    prod_cached_prod, prod_cached_cons,  \* struct xsk_ring_prod
    cons_cached_prod, cons_cached_cons,  \* struct xsk_ring_cons
    idx,                                 \* index the producer fills next
    reserved, filled, submitted,         \* ghosts: entries so far, producer
    peeked, released                     \* ghosts: entries so far, consumer

shared == <<producer, consumer, ring>>
prodvars == <<prod_cached_prod, prod_cached_cons, idx, reserved, filled, submitted>>
consvars == <<cons_cached_prod, cons_cached_cons, peeked, released>>
vars == <<shared, prodvars, consvars>>

Index == 0..(U32 - 1)
Slots == 0..(Size - 1)

Wrap(n) == n % U32
Slot(n) == n % Size   \* idx & mask

TypeOK ==
    /\ producer \in Index /\ consumer \in Index
    /\ ring \in [Slots -> Int]
    /\ prod_cached_prod \in Index /\ prod_cached_cons \in Index
    /\ cons_cached_prod \in Index /\ cons_cached_cons \in Index
    /\ idx \in Index
    /\ reserved \in Nat /\ filled \in Nat /\ submitted \in Nat
    /\ peeked \in Nat /\ released \in Nat

\* Fresh rings; cached_cons of a producer runs Size ahead.
Init ==
    /\ producer = 0 /\ consumer = 0
    /\ ring = [s \in Slots |-> -1]
    /\ prod_cached_prod = 0 /\ prod_cached_cons = Size
    /\ cons_cached_prod = 0 /\ cons_cached_cons = 0
    /\ idx = 0
    /\ reserved = 0 /\ filled = 0 /\ submitted = 0
    /\ peeked = 0 /\ released = 0

-----------------------------------------------------------------------------
(* The producer *)

\* Mutant: one entry more is free than the ring has.
nb_free_eager(nb) ==
    IF Wrap(prod_cached_cons - prod_cached_prod) >= nb
    THEN prod_cached_cons ELSE Wrap(consumer + Size + 1)

\* Mutant: the consumer index is never read again.
nb_free_stale(nb) == prod_cached_cons

\* cached_cons after xsk_prod_nb_free.
xsk_prod_nb_free(nb) ==
    IF Wrap(prod_cached_cons - prod_cached_prod) >= nb
    THEN prod_cached_cons ELSE Wrap(consumer + Size)

xsk_ring_prod__reserve(nb) ==
    /\ reserved + nb <= MaxItems
    /\ prod_cached_cons' = xsk_prod_nb_free(nb)
    /\ IF Wrap(prod_cached_cons' - prod_cached_prod) < nb
       THEN UNCHANGED <<prod_cached_prod, reserved>>
       ELSE /\ prod_cached_prod' = Wrap(prod_cached_prod + nb)
            /\ reserved' = reserved + nb
    /\ UNCHANGED <<shared, idx, filled, submitted, consvars>>

\* *xsk_ring_prod__fill_addr(fill, idx++) = ...; the same for tx_desc.
fill_entry ==
    /\ filled < reserved
    /\ ring' = [ring EXCEPT ![Slot(idx)] = filled]
    /\ idx' = Wrap(idx + 1)
    /\ filled' = filled + 1
    /\ UNCHANGED <<producer, consumer, prod_cached_prod, prod_cached_cons,
                   reserved, submitted, consvars>>

xsk_ring_prod__submit(nb) ==
    /\ submitted + nb <= filled
    /\ producer' = Wrap(producer + nb)
    /\ submitted' = submitted + nb
    /\ UNCHANGED <<consumer, ring, prod_cached_prod, prod_cached_cons, idx,
                   reserved, filled, consvars>>

-----------------------------------------------------------------------------
(* The consumer *)

\* Mutant: what the producer has reserved counts as submitted.
nb_avail_reserved ==
    IF cons_cached_prod = cons_cached_cons THEN prod_cached_prod ELSE cons_cached_prod

\* cached_prod after xsk_cons_nb_avail.
xsk_cons_nb_avail ==
    IF cons_cached_prod = cons_cached_cons THEN producer ELSE cons_cached_prod

MinOf(a, b) == IF a > b THEN b ELSE a

xsk_ring_cons__peek(nb) ==
    /\ cons_cached_prod' = xsk_cons_nb_avail
    /\ LET entries == MinOf(Wrap(cons_cached_prod' - cons_cached_cons), nb) IN
       /\ cons_cached_cons' = Wrap(cons_cached_cons + entries)
       /\ peeked' = peeked + entries
    /\ UNCHANGED <<shared, released, prodvars>>

xsk_ring_cons__cancel(nb) ==
    /\ released + nb <= peeked
    /\ cons_cached_cons' = Wrap(cons_cached_cons - nb)
    /\ peeked' = peeked - nb
    /\ UNCHANGED <<shared, cons_cached_prod, released, prodvars>>

xsk_ring_cons__release(nb) ==
    /\ released + nb <= peeked
    /\ consumer' = Wrap(consumer + nb)
    /\ released' = released + nb
    /\ UNCHANGED <<producer, ring, cons_cached_prod, cons_cached_cons, peeked,
                   prodvars>>

Reserve == \E nb \in Batches : xsk_ring_prod__reserve(nb)
Submit == \E nb \in Batches : xsk_ring_prod__submit(nb)
Peek == \E nb \in Batches : xsk_ring_cons__peek(nb)
Cancel == \E nb \in Batches : xsk_ring_cons__cancel(nb)
Release == \E nb \in Batches : xsk_ring_cons__release(nb)

Next == Reserve \/ fill_entry \/ Submit \/ Peek \/ Cancel \/ Release

\* Both ends keep at it; a consumer that takes entries again and again does not
\* put them back every time.
Fairness ==
    /\ WF_vars(Reserve) /\ WF_vars(fill_entry) /\ WF_vars(Submit)
    /\ WF_vars(Peek) /\ SF_vars(Release)

Spec == Init /\ [][Next]_vars /\ Fairness

-----------------------------------------------------------------------------
\* What the consumer finds in an entry it has peeked and not released is what
\* the producer put there, however far the indices have wrapped around and
\* however stale the cached copies of both ends are.
EntriesIntact ==
    \A n \in released..(peeked - 1) : ring[Slot(Wrap(n))] = n

\* The producer is never handed a slot that holds an entry not yet released:
\* a full ring is never taken for an empty one.
NoOverrun == reserved - released <= Size

InRing == [j \in 1..(submitted - released) |-> ring[Slot(Wrap(released + j - 1))]]

Queue == INSTANCE RingQueue WITH
    Capacity <- Size, queue <- InRing, taken <- peeked - released, sent <- submitted

\* Read from the slots, the ring is a bounded FIFO queue.
ImplementsQueue == Queue!Spec

\* The caches never make both ends wait for each other: whatever is produced is
\* consumed, and released slots are used again.
AllDelivered == <>(released = MaxItems)
=============================================================================
