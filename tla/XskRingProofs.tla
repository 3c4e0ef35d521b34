--------------------------- MODULE XskRingProofs ----------------------------
(***************************************************************************)
(* For every size of the ring, every width of the indices and every batch: *)
(* the producer never overruns the consumer, and the consumer reads what   *)
(* was written.                                                            *)
(***************************************************************************)
EXTENDS XskRing, Sequences, SequenceTheorems, TLAPS

-----------------------------------------------------------------------------
(* Arithmetic modulo the size of the ring and the width of an index *)

\* What division with remainder is.
LEMMA ModDef ==
    ASSUME NEW m \in Nat \ {0}, NEW x \in Int
    PROVE  x % m \in 0..(m - 1) /\ x \div m \in Int /\ x = m * (x \div m) + (x % m)
  OBVIOUS

\* The remainder is unique.
LEMMA ModUnique ==
    ASSUME NEW m \in Nat \ {0}, NEW q \in Int, NEW r \in 0..(m - 1)
    PROVE  (m * q + r) % m = r
  OBVIOUS

\* Laws of multiplication, for solvers that do not look for them.
LEMMA Products ==
    ASSUME NEW a \in Int, NEW b \in Int, NEW c \in Int
    PROVE  /\ a * b \in Int
           /\ (a * b) * c = a * (b * c)
           /\ a * b + a * c = a * (b + c)
  OBVIOUS

\* Adding to an index that has wrapped around is adding to the count.
LEMMA ModAdd ==
    ASSUME NEW m \in Nat \ {0}, NEW x \in Int, NEW k \in Int
    PROVE  ((x % m) + k) % m = (x + k) % m
  <1> DEFINE q == x \div m
             r == x % m
             q2 == (r + k) \div m
             r2 == (r + k) % m
  <1>1. q \in Int /\ r \in 0..(m - 1) /\ x = m * q + r
    BY ModDef
  <1>2. r + k \in Int
    BY <1>1
  <1>3. q2 \in Int /\ r2 \in 0..(m - 1) /\ r + k = m * q2 + r2
    BY <1>2, ModDef
  <1>4. q + q2 \in Int /\ x + k = m * (q + q2) + r2
    BY <1>1, <1>3
  <1> HIDE DEF q, r, q2, r2
  <1>5. (m * (q + q2) + r2) % m = r2
    BY <1>3, <1>4, ModUnique, Zenon
  <1> QED
    BY <1>4, <1>5, Zenon DEF r, r2

\* The difference of two indices is the difference of the counts, as long as
\* that is smaller than the number of indices.
LEMMA ModDifference ==
    ASSUME NEW m \in Nat \ {0}, NEW x \in Int, NEW y \in Int,
           y <= x, x - y < m
    PROVE  ((x % m) - (y % m)) % m = x - y
  <1> DEFINE k == - (y % m)
  <1>1. y % m \in 0..(m - 1) /\ y \div m \in Int /\ y = m * (y \div m) + (y % m)
    BY ModDef
  <1>2. k \in Int /\ (x % m) + k = (x % m) - (y % m)
    BY <1>1, ModDef
  <1>3. ((x % m) + k) % m = (x + k) % m
    BY <1>2, ModAdd, Zenon
  <1>4. x + k = m * (y \div m) + (x - y)
    BY <1>1
  <1>5. x - y \in 0..(m - 1)
    OBVIOUS
  <1>6. (m * (y \div m) + (x - y)) % m = x - y
    BY <1>1, <1>5, ModUnique, Zenon
  <1> QED
    BY <1>2, <1>3, <1>4, <1>6

\* Counts that are less than m apart and equal modulo m are equal.
LEMMA ModInjective ==
    ASSUME NEW m \in Nat \ {0}, NEW x \in Int, NEW y \in Int,
           y <= x, x - y < m, x % m = y % m
    PROVE  x = y
  <1>1. ((x % m) - (y % m)) % m = x - y
    BY ModDifference, Zenon
  <1>2. x % m \in Int
    BY ModDef
  <1>3. ((x % m) - (y % m)) = 0
    BY <1>2
  <1>4. 0 % m = 0
    OBVIOUS
  <1> QED
    BY <1>1, <1>3, <1>4

\* Masking an index that has wrapped around is masking the count.
LEMMA SlotOfWrap ==
    ASSUME NEW n \in Int
    PROVE  Slot(Wrap(n)) = Slot(n) /\ Slot(n) \in Slots /\ Wrap(n) \in Index
  <1>0. Size \in Nat \ {0} /\ U32 \in Nat \ {0}
    BY SizeAssumption
  <1> DEFINE q == n \div U32
             r == n % U32
             k == U32 \div Size
             q2 == r \div Size
             r2 == r % Size
  <1>1. q \in Int /\ r \in 0..(U32 - 1) /\ n = U32 * q + r
    BY <1>0, ModDef
  <1>2. k \in Int /\ U32 = Size * k
    BY <1>0, ModDef, WrapAssumption
  <1> HIDE DEF q, r, k
  <1>3. r \in Int
    BY <1>0, <1>1
  <1>4. q2 \in Int /\ r2 \in 0..(Size - 1) /\ r = Size * q2 + r2
    BY <1>0, <1>3, ModDef
  <1> HIDE DEF q2, r2
  <1>5. k * q \in Int /\ (Size * k) * q = Size * (k * q)
    BY <1>0, <1>1, <1>2, Products
  <1>6. Size * (k * q) + Size * q2 = Size * ((k * q) + q2)
    BY <1>0, <1>4, <1>5, Products
  <1>7. (k * q) + q2 \in Int /\ n = Size * ((k * q) + q2) + r2
    BY <1>0, <1>1, <1>2, <1>4, <1>5, <1>6
  <1>8. (Size * ((k * q) + q2) + r2) % Size = r2
    BY <1>0, <1>4, <1>7, ModUnique, Zenon
  <1>9. n % Size = r2
    BY <1>7, <1>8
  <1> QED
    BY <1>1, <1>4, <1>9 DEF r, r2, Slot, Wrap, Slots, Index

\* Counting with wrapped indices is counting, wrapped.
LEMMA WrapAdd ==
    ASSUME NEW n \in Int, NEW k \in Int
    PROVE  /\ Wrap(n) \in Index
           /\ Wrap(Wrap(n) + k) = Wrap(n + k)
           /\ Wrap(Wrap(n) - k) = Wrap(n - k)
  <1>0. U32 \in Nat \ {0}
    BY SizeAssumption
  <1>1. Wrap(n) \in Index
    BY SlotOfWrap
  <1>2. Wrap(Wrap(n) + k) = Wrap(n + k)
    BY <1>0, ModAdd, Zenon DEF Wrap
  <1>3. Wrap(Wrap(n) - k) = Wrap(n - k)
    <2> DEFINE j == - k
    <2>1. j \in Int /\ n + j = n - k
      OBVIOUS
    <2>2. Wrap(n) \in Int
      BY <1>0, <1>1 DEF Index
    <2>3. Wrap(n) + j = Wrap(n) - k
      BY <2>2
    <2> HIDE DEF j
    <2>4. Wrap(Wrap(n) + j) = Wrap(n + j)
      BY <1>0, <2>1, ModAdd, Zenon DEF Wrap
    <2> QED
      BY <2>1, <2>3, <2>4
  <1> QED
    BY <1>1, <1>2, <1>3

\* The difference of two wrapped indices is that of the counts, if that is below 2^32.
LEMMA WrapDifference ==
    ASSUME NEW x \in Int, NEW y \in Int, y <= x, x - y < U32
    PROVE  /\ Wrap(Wrap(x) - Wrap(y)) = x - y
           /\ Wrap(x) = Wrap(y) => x = y
  <1>0. U32 \in Nat \ {0}
    BY SizeAssumption
  <1> QED
    BY <1>0, ModDifference, ModInjective, Zenon DEF Wrap

-----------------------------------------------------------------------------
(* The inductive invariant: every index is its ghost count wrapped around,   *)
(* and each cached index is a value the other end's index had at some point. *)

Indices ==
    /\ producer = Wrap(submitted) /\ consumer = Wrap(released)
    /\ prod_cached_prod = Wrap(reserved) /\ cons_cached_cons = Wrap(peeked)
    /\ idx = Wrap(filled)

Order ==
    /\ released <= peeked /\ peeked <= submitted
    /\ submitted <= filled /\ filled <= reserved

Reservable(seen) ==
    /\ prod_cached_cons = Wrap(seen + Size)
    /\ seen <= released /\ reserved <= seen + Size

Peekable(seen) ==
    /\ cons_cached_prod = Wrap(seen)
    /\ peeked <= seen /\ seen <= submitted

Written == \A n \in Nat : (released <= n /\ n < filled) => ring[Slot(n)] = n

RingInv ==
    /\ TypeOK
    /\ Indices
    /\ Order
    /\ \E seen \in Nat : Reservable(seen)
    /\ \E seen \in Nat : Peekable(seen)
    /\ Written

\* The invariant holds of an empty ring.
LEMMA InitRingInv == Init => RingInv
  <1> SUFFICES ASSUME Init PROVE RingInv
    OBVIOUS
  <1>0. Size \in Nat \ {0} /\ U32 \in Nat /\ Size < U32
    BY SizeAssumption
  <1>1. Wrap(0) = 0 /\ Wrap(0 + Size) = Size
    <2>1. (U32 * 0 + 0) % U32 = 0 /\ (U32 * 0 + Size) % U32 = Size
      BY <1>0, ModUnique
    <2> QED
      BY <2>1, <1>0 DEF Wrap
  <1>2. TypeOK
    BY <1>0 DEF Init, TypeOK, Index, Slots
  <1>3. Indices /\ Order /\ Written
    BY <1>1 DEF Init, Indices, Order, Written
  <1>4. 0 \in Nat /\ Reservable(0) /\ Peekable(0)
    BY <1>0, <1>1 DEF Init, Reservable, Peekable
  <1> QED
    BY <1>2, <1>3, <1>4 DEF RingInv

\* The invariant gives what the runs check.
LEMMA RingInvBounds ==
    ASSUME RingInv
    PROVE  NoOverrun /\ EntriesIntact
  <1>0. Size \in Nat \ {0}
    BY SizeAssumption
  <1>1. NoOverrun
    BY <1>0 DEF RingInv, TypeOK, Reservable, NoOverrun
  <1>2. ASSUME NEW n \in released..(peeked - 1)
        PROVE  ring[Slot(Wrap(n))] = n
    <2>1. n \in Nat /\ released <= n /\ n < filled
      BY DEF RingInv, TypeOK, Order
    <2>2. Slot(Wrap(n)) = Slot(n)
      BY <2>1, SlotOfWrap
    <2> QED
      BY <2>1, <2>2 DEF RingInv, Written
  <1> QED
    BY <1>1, <1>2 DEF EntriesIntact

\* xsk_ring_prod__reserve keeps it, with a stale copy of the consumer index.
LEMMA ReserveStep ==
    ASSUME RingInv, NEW nb \in Batches, xsk_ring_prod__reserve(nb)
    PROVE  RingInv'
  <1>0. Size \in Nat \ {0} /\ U32 \in Nat /\ Size < U32 /\ nb \in Nat \ {0}
    BY SizeAssumption, BatchesAssumption
  <1>1. PICK seen \in Nat : Reservable(seen)
    BY DEF RingInv
  <1> USE DEF RingInv, TypeOK
  <1>2. released <= reserved /\ released + Size - reserved <= Size
    BY <1>0 DEF Order
  <1>3. \A c \in Nat : (c <= released /\ reserved <= c + Size)
             => Wrap(Wrap(c + Size) - prod_cached_prod) = c + Size - reserved
    <2>1. SUFFICES ASSUME NEW c \in Nat, c <= released, reserved <= c + Size
                   PROVE  Wrap(Wrap(c + Size) - Wrap(reserved)) = c + Size - reserved
      BY DEF Indices
    <2>2. reserved <= c + Size /\ (c + Size) - reserved < U32 /\ c + Size \in Int
      BY <1>0, <1>2, <2>1
    <2>3. reserved \in Int
      OBVIOUS
    <2> DEFINE x == c + Size
    <2>4. x \in Int /\ reserved <= x /\ x - reserved < U32
      BY <2>2
    <2> HIDE DEF RingInv, TypeOK, x
    <2>5. Wrap(Wrap(x) - Wrap(reserved)) = x - reserved
      BY <2>3, <2>4, WrapDifference
    <2> QED
      BY <1>0, <2>3, <2>4, <2>5 DEF x
  <1>4. Wrap(consumer + Size) = Wrap(released + Size)
    BY <1>0, WrapAdd DEF Indices
  <1>5. PICK c \in Nat : /\ prod_cached_cons' = Wrap(c + Size)
                         /\ c <= released /\ reserved <= c + Size
    <2>1. CASE prod_cached_cons' = prod_cached_cons
      BY <1>1, <2>1 DEF Reservable
    <2>2. CASE prod_cached_cons' = Wrap(consumer + Size)
      <3>1. reserved <= released + Size
        BY <1>0, <1>1 DEF Reservable
      <3> QED
        BY <1>4, <2>2, <3>1
    <2> QED
      BY <2>1, <2>2 DEF xsk_ring_prod__reserve, xsk_prod_nb_free
  <1>6. Wrap(prod_cached_cons' - prod_cached_prod) = c + Size - reserved
    BY <1>3, <1>5
  <1>7. prod_cached_cons' \in Index
    BY <1>0, <1>5, WrapAdd
  <1>8. UNCHANGED <<producer, consumer, ring, idx, filled, submitted,
                    cons_cached_prod, cons_cached_cons, peeked, released>>
    BY DEF xsk_ring_prod__reserve, shared, consvars
  <1>9. /\ reserved' \in Nat /\ reserved <= reserved' /\ reserved' <= c + Size
        /\ prod_cached_prod' = Wrap(reserved') /\ prod_cached_prod' \in Index
    <2>1. CASE UNCHANGED <<prod_cached_prod, reserved>>
      BY <1>5, <2>1 DEF Indices
    <2>2. CASE /\ ~ (c + Size - reserved < nb)
               /\ prod_cached_prod' = Wrap(prod_cached_prod + nb)
               /\ reserved' = reserved + nb
      <3>1. reserved \in Int /\ nb \in Int /\ reserved + nb \in Int
        BY <1>0
      <3>2. Wrap(Wrap(reserved) + nb) = Wrap(reserved + nb) /\ Wrap(reserved + nb) \in Index
        <4> HIDE DEF RingInv, TypeOK
        <4> QED BY <3>1, WrapAdd, Zenon
      <3> QED
        BY <1>0, <1>5, <2>2, <3>2 DEF Indices
    <2> QED
      BY <1>6, <2>1, <2>2 DEF xsk_ring_prod__reserve
  <1>10. TypeOK'
    BY <1>7, <1>8, <1>9
  <1>11. Indices' /\ Order'
    BY <1>8, <1>9 DEF Indices, Order
  <1>12. Reservable(c)'
    BY <1>5, <1>8, <1>9 DEF Reservable
  <1>13. \E s \in Nat : Peekable(s)'
    BY <1>8 DEF Peekable
  <1>14. Written'
    BY <1>8 DEF Written
  <1> QED
    BY <1>5, <1>10, <1>11, <1>12, <1>13, <1>14

\* Writing a reserved slot keeps it.
LEMMA FillStep ==
    ASSUME RingInv, fill_entry
    PROVE  RingInv'
  <1>0. Size \in Nat \ {0} /\ U32 \in Nat /\ Size < U32
    BY SizeAssumption
  <1> USE DEF RingInv, TypeOK
  <1>1. /\ filled < reserved /\ filled' = filled + 1
        /\ ring' = [ring EXCEPT ![Slot(idx)] = filled] /\ idx' = Wrap(idx + 1)
        /\ UNCHANGED <<producer, consumer, prod_cached_prod, prod_cached_cons,
                       reserved, submitted, cons_cached_prod, cons_cached_cons,
                       peeked, released>>
    BY DEF fill_entry, consvars
  <1>2. filled \in Int /\ Slot(idx) = Slot(filled) /\ Slot(filled) \in Slots
    BY SlotOfWrap DEF Indices
  <1>3. idx' = Wrap(filled + 1) /\ Wrap(filled + 1) \in Index
    <2>1. filled \in Int /\ filled + 1 \in Int /\ 1 \in Int /\ idx = Wrap(filled)
      BY DEF Indices
    <2> HIDE DEF RingInv, TypeOK
    <2> QED
      BY <1>1, <2>1, WrapAdd
  <1>4. TypeOK'
    BY <1>1, <1>2, <1>3
  <1>5. Indices' /\ Order'
    BY <1>1, <1>3 DEF Indices, Order
  <1>6. (\E seen \in Nat : Reservable(seen)') /\ (\E seen \in Nat : Peekable(seen)')
    BY <1>1 DEF Reservable, Peekable
  <1>7. Written'
    <2>1. SUFFICES ASSUME NEW n \in Nat, released <= n, n < filled + 1
                   PROVE  ring'[Slot(n)] = n
      BY <1>1 DEF Written
    <2>2. n \in Int /\ Slot(n) \in Slots
      BY SlotOfWrap
    <2>3. CASE n = filled
      BY <1>1, <1>2, <2>3
    <2>4. CASE n < filled
      <3>1. filled - released < Size
        BY <1>0, <1>1 DEF Reservable
      <3>2. n \in Int /\ n <= filled /\ filled - n < Size
        BY <1>0, <2>1, <2>4, <3>1
      <3>3. Slot(n) # Slot(filled)
        <4>1. SUFFICES ASSUME filled % Size = n % Size PROVE filled = n
          BY <2>4 DEF Slot
        <4> HIDE DEF RingInv, TypeOK
        <4> QED
          BY <1>0, <1>2, <3>2, <4>1, ModInjective, Zenon
      <3>4. ring[Slot(n)] = n
        BY <2>1, <2>4 DEF Written
      <3> QED
        BY <1>1, <1>2, <2>2, <3>3, <3>4
    <2> QED
      BY <2>1, <2>3, <2>4
  <1> QED
    BY <1>4, <1>5, <1>6, <1>7

\* xsk_ring_prod__submit keeps it.
LEMMA SubmitStep ==
    ASSUME RingInv, NEW nb \in Batches, xsk_ring_prod__submit(nb)
    PROVE  RingInv'
  <1>0. nb \in Nat \ {0}
    BY BatchesAssumption
  <1> USE DEF RingInv, TypeOK
  <1>1. /\ submitted + nb <= filled /\ submitted' = submitted + nb
        /\ producer' = Wrap(producer + nb)
        /\ UNCHANGED <<consumer, ring, prod_cached_prod, prod_cached_cons, idx,
                       reserved, filled, cons_cached_prod, cons_cached_cons,
                       peeked, released>>
    BY DEF xsk_ring_prod__submit, consvars
  <1>2. producer' = Wrap(submitted + nb) /\ Wrap(submitted + nb) \in Index
    <2>1. submitted \in Int /\ submitted + nb \in Int /\ nb \in Int
          /\ producer = Wrap(submitted)
      BY <1>0 DEF Indices
    <2> HIDE DEF RingInv, TypeOK
    <2> QED
      BY <1>1, <2>1, WrapAdd
  <1>3. TypeOK'
    BY <1>0, <1>1, <1>2
  <1>4. Indices' /\ Order' /\ Written'
    BY <1>0, <1>1, <1>2 DEF Indices, Order, Written
  <1>5. (\E seen \in Nat : Reservable(seen)') /\ (\E seen \in Nat : Peekable(seen)')
    BY <1>0, <1>1 DEF Reservable, Peekable
  <1> QED
    BY <1>3, <1>4, <1>5

\* xsk_ring_cons__peek keeps it, with a stale copy of the producer index.
LEMMA PeekStep ==
    ASSUME RingInv, NEW nb \in Batches, xsk_ring_cons__peek(nb)
    PROVE  RingInv'
  <1>0. Size \in Nat \ {0} /\ U32 \in Nat /\ Size < U32 /\ nb \in Nat \ {0}
    BY SizeAssumption, BatchesAssumption
  <1>1. PICK seen \in Nat : Peekable(seen)
    BY DEF RingInv
  <1> USE DEF RingInv, TypeOK
  <1>2. UNCHANGED <<producer, consumer, ring, released, prod_cached_prod,
                    prod_cached_cons, idx, reserved, filled, submitted>>
    BY DEF xsk_ring_cons__peek, shared, prodvars
  <1>3. submitted - peeked < U32
    BY <1>0 DEF Reservable, Order
  <1>4. PICK p \in Nat : cons_cached_prod' = Wrap(p) /\ peeked <= p /\ p <= submitted
    <2>1. CASE cons_cached_prod' = producer
      BY <2>1 DEF Indices, Order
    <2>2. CASE cons_cached_prod' = cons_cached_prod
      BY <1>1, <2>2 DEF Peekable
    <2> QED
      BY <2>1, <2>2 DEF xsk_ring_cons__peek, xsk_cons_nb_avail
  <1>5. Wrap(cons_cached_prod' - cons_cached_cons) = p - peeked
    <2>1. p \in Int /\ peeked \in Int /\ peeked <= p /\ p - peeked < U32
      BY <1>0, <1>3, <1>4
    <2>2. cons_cached_prod' = Wrap(p) /\ cons_cached_cons = Wrap(peeked)
      BY <1>4 DEF Indices
    <2> HIDE DEF RingInv, TypeOK
    <2> QED
      BY <2>1, <2>2, WrapDifference
  <1>6. PICK e \in Nat : /\ e <= p - peeked
                         /\ cons_cached_cons' = Wrap(cons_cached_cons + e)
                         /\ peeked' = peeked + e
    <2> DEFINE e == MinOf(p - peeked, nb)
    <2>1. e \in Nat /\ e <= p - peeked
      BY <1>0, <1>4 DEF MinOf
    <2>2. /\ cons_cached_cons' = Wrap(cons_cached_cons + e)
          /\ peeked' = peeked + e
      BY <1>5 DEF xsk_ring_cons__peek
    <2> QED
      BY <2>1, <2>2
  <1>7. /\ cons_cached_cons' = Wrap(peeked + e) /\ Wrap(peeked + e) \in Index
        /\ cons_cached_prod' \in Index
    <2>1. peeked \in Int /\ e \in Int /\ peeked + e \in Int /\ p \in Int
          /\ cons_cached_cons = Wrap(peeked)
      BY <1>6 DEF Indices
    <2> HIDE DEF RingInv, TypeOK
    <2> QED
      BY <1>4, <1>6, <2>1, WrapAdd
  <1>8. TypeOK'
    BY <1>2, <1>6, <1>7
  <1>9. Indices' /\ Order' /\ Written'
    BY <1>2, <1>4, <1>6, <1>7 DEF Indices, Order, Written
  <1>10. (\E c \in Nat : Reservable(c)')
    BY <1>2 DEF Reservable
  <1>11. Peekable(p)'
    BY <1>2, <1>4, <1>6 DEF Peekable
  <1> QED
    BY <1>4, <1>8, <1>9, <1>10, <1>11

\* xsk_ring_cons__cancel keeps it.
LEMMA CancelStep ==
    ASSUME RingInv, NEW nb \in Batches, xsk_ring_cons__cancel(nb)
    PROVE  RingInv'
  <1>0. nb \in Nat \ {0}
    BY BatchesAssumption
  <1> USE DEF RingInv, TypeOK
  <1>1. /\ released + nb <= peeked /\ peeked' = peeked - nb
        /\ cons_cached_cons' = Wrap(cons_cached_cons - nb)
        /\ UNCHANGED <<producer, consumer, ring, cons_cached_prod, released,
                       prod_cached_prod, prod_cached_cons, idx, reserved, filled,
                       submitted>>
    BY DEF xsk_ring_cons__cancel, shared, prodvars
  <1>2. cons_cached_cons' = Wrap(peeked - nb) /\ Wrap(peeked - nb) \in Index
    <2>1. peeked \in Int /\ peeked - nb \in Int /\ nb \in Int
          /\ cons_cached_cons = Wrap(peeked)
      BY <1>0 DEF Indices
    <2> HIDE DEF RingInv, TypeOK
    <2> QED
      BY <1>1, <2>1, WrapAdd
  <1>3. TypeOK'
    BY <1>0, <1>1, <1>2
  <1>4. Indices' /\ Order' /\ Written'
    BY <1>0, <1>1, <1>2 DEF Indices, Order, Written
  <1>5. (\E seen \in Nat : Reservable(seen)') /\ (\E seen \in Nat : Peekable(seen)')
    BY <1>0, <1>1 DEF Reservable, Peekable
  <1> QED
    BY <1>3, <1>4, <1>5

\* xsk_ring_cons__release keeps it.
LEMMA ReleaseStep ==
    ASSUME RingInv, NEW nb \in Batches, xsk_ring_cons__release(nb)
    PROVE  RingInv'
  <1>0. nb \in Nat \ {0}
    BY BatchesAssumption
  <1> USE DEF RingInv, TypeOK
  <1>1. /\ released + nb <= peeked /\ released' = released + nb
        /\ consumer' = Wrap(consumer + nb)
        /\ UNCHANGED <<producer, ring, cons_cached_prod, cons_cached_cons, peeked,
                       prod_cached_prod, prod_cached_cons, idx, reserved, filled,
                       submitted>>
    BY DEF xsk_ring_cons__release, prodvars
  <1>2. consumer' = Wrap(released + nb) /\ Wrap(released + nb) \in Index
    <2>1. released \in Int /\ released + nb \in Int /\ nb \in Int
          /\ consumer = Wrap(released)
      BY <1>0 DEF Indices
    <2> HIDE DEF RingInv, TypeOK
    <2> QED
      BY <1>1, <2>1, WrapAdd
  <1>3. TypeOK'
    BY <1>0, <1>1, <1>2
  <1>4. Indices' /\ Order' /\ Written'
    BY <1>0, <1>1, <1>2 DEF Indices, Order, Written
  <1>5. (\E seen \in Nat : Reservable(seen)') /\ (\E seen \in Nat : Peekable(seen)')
    BY <1>0, <1>1 DEF Reservable, Peekable
  <1> QED
    BY <1>3, <1>4, <1>5

\* Every step of either end keeps it.
LEMMA NextRingInv == RingInv /\ [Next]_vars => RingInv'
  <1> SUFFICES ASSUME RingInv, [Next]_vars PROVE RingInv'
    OBVIOUS
  <1>1. CASE Reserve
    BY <1>1, ReserveStep DEF Reserve
  <1>2. CASE fill_entry
    BY <1>2, FillStep
  <1>3. CASE Submit
    BY <1>3, SubmitStep DEF Submit
  <1>4. CASE Peek
    BY <1>4, PeekStep DEF Peek
  <1>5. CASE Cancel
    BY <1>5, CancelStep DEF Cancel
  <1>6. CASE Release
    BY <1>6, ReleaseStep DEF Release
  <1>7. CASE UNCHANGED vars
    BY <1>7 DEF vars, shared, prodvars, consvars, RingInv, TypeOK, Indices, Order,
                Reservable, Peekable, Written
  <1> QED
    BY <1>1, <1>2, <1>3, <1>4, <1>5, <1>6, <1>7 DEF Next

\* The producer never reserves a slot whose entry the consumer has not released
\* (xsk_ring_prod__reserve), for every size and every batch.
THEOREM RingNoOverrun == Spec => []NoOverrun
  <1>1. RingInv => NoOverrun
    BY RingInvBounds
  <1> QED
    BY <1>1, InitRingInv, NextRingInv, PTL DEF Spec

\* What xsk_ring_cons__peek hands out is what was filled in, until it is released.
THEOREM RingEntriesIntact == Spec => []EntriesIntact
  <1>1. RingInv => EntriesIntact
    BY RingInvBounds
  <1> QED
    BY <1>1, InitRingInv, NextRingInv, PTL DEF Spec

-----------------------------------------------------------------------------
(* The refinement *)

\* The numbers of l entries from the a-th on.
Numbers(a, l) == [j \in 1..l |-> a + j - 1]

\* The numbers of l entries from a on.
LEMMA NumbersSeq ==
    ASSUME NEW a \in Nat, NEW l \in Nat
    PROVE  Numbers(a, l) \in Seq(Int) /\ Len(Numbers(a, l)) = l
  BY DEF Numbers

\* They can be split anywhere.
LEMMA NumbersConcat ==
    ASSUME NEW a \in Nat, NEW l \in Nat, NEW k \in Nat
    PROVE  Numbers(a, l + k) = Numbers(a, l) \o Numbers(a + l, k)
  <1>1. /\ Numbers(a, l) \in Seq(Int) /\ Len(Numbers(a, l)) = l
        /\ Numbers(a + l, k) \in Seq(Int) /\ Len(Numbers(a + l, k)) = k
    <2>1. a + l \in Nat
      OBVIOUS
    <2> QED BY <2>1, NumbersSeq, Zenon
  <1>2. l + k \in Nat /\ Numbers(a, l + k) \in Seq(Int) /\ Len(Numbers(a, l + k)) = l + k
    BY NumbersSeq
  <1> DEFINE s == Numbers(a, l)
             t == Numbers(a + l, k)
             u == Numbers(a, l + k)
  <1>3. \A j \in 1..(l + k) : u[j] = IF j <= l THEN s[j] ELSE t[j - l]
    BY DEF Numbers
  <1> HIDE DEF s, t, u
  <1>4. /\ s \o t \in Seq(Int) /\ Len(s \o t) = l + k
        /\ \A j \in 1..(l + k) : (s \o t)[j] = IF j <= l THEN s[j] ELSE t[j - l]
    <2>1. s \in Seq(Int) /\ t \in Seq(Int) /\ Len(s) = l /\ Len(t) = k
      BY <1>1 DEF s, t
    <2>2. /\ s \o t \in Seq(Int) /\ Len(s \o t) = Len(s) + Len(t)
          /\ \A j \in 1..(Len(s) + Len(t)) :
               (s \o t)[j] = IF j <= Len(s) THEN s[j] ELSE t[j - Len(s)]
      BY <2>1, ConcatProperties, Zenon
    <2> QED
      BY <2>1, <2>2, Zenon
  <1>5. u = s \o t
    BY <1>2, <1>3, <1>4, SeqEqual, Zenon DEF u
  <1> QED
    BY <1>5 DEF s, t, u

\* They can be shortened at the front.
LEMMA NumbersTail ==
    ASSUME NEW a \in Nat, NEW l \in Nat, NEW k \in 1..l
    PROVE  Numbers(a + k, l - k) = SubSeq(Numbers(a, l), k + 1, l)
  BY DEF Numbers

\* Under the invariant the slots from consumer to producer hold the numbers of
\* the entries submitted and not released.
LEMMA InRingNumbers ==
    RingInv => /\ InRing = Numbers(released, submitted - released)
               /\ submitted - released \in Nat
  <1> SUFFICES ASSUME RingInv
               PROVE  /\ InRing = Numbers(released, submitted - released)
                      /\ submitted - released \in Nat
    OBVIOUS
  <1>1. released \in Nat /\ submitted \in Nat /\ released <= submitted /\ submitted <= filled
    BY DEF RingInv, TypeOK, Order
  <1>2. ASSUME NEW j \in 1..(submitted - released)
        PROVE  ring[Slot(Wrap(released + j - 1))] = released + j - 1
    <2>1. released + j - 1 \in Nat /\ released <= released + j - 1
          /\ released + j - 1 < filled
      BY <1>1 DEF RingInv, TypeOK
    <2>2. Slot(Wrap(released + j - 1)) = Slot(released + j - 1)
      BY <2>1, SlotOfWrap
    <2> QED
      BY <2>1, <2>2 DEF RingInv, Written
  <1> QED
    BY <1>1, <1>2 DEF InRing, Numbers

\* The slots hold the entries from the last released to the last submitted.
LEMMA InRingNumbersNext ==
    RingInv' => InRing' = Numbers(released', submitted' - released')
  <1> DEFINE Is == InRing = Numbers(released, submitted - released)
  <1>1. RingInv => Is
    BY InRingNumbers
  <1> HIDE DEF Is
  <1>2. RingInv' => Is'
    BY <1>1, PTL
  <1> QED
    BY <1>2 DEF Is

\* An empty ring is an empty queue.
LEMMA InitImplements == Init => Queue!Init
  <1> SUFFICES ASSUME Init PROVE InRing = <<>> /\ peeked - released = 0 /\ submitted = 0
    BY DEF Queue!Init
  <1>1. submitted - released = 0
    BY DEF Init
  <1>2. InRing = <<>>
    BY <1>1 DEF InRing
  <1> QED
    BY <1>2 DEF Init

\* Submitting appends to the queue.
LEMMA SubmitImplements ==
    ASSUME RingInv, RingInv', NEW nb \in Batches, xsk_ring_prod__submit(nb)
    PROVE  Queue!Submit
  <1>1. /\ released \in Nat /\ submitted \in Nat /\ nb \in Nat \ {0}
        /\ submitted' = submitted + nb /\ UNCHANGED <<released, peeked>>
        /\ released <= submitted /\ Size \in Nat
        /\ submitted + nb - released <= Size
    BY BatchesAssumption, SizeAssumption
       DEF RingInv, TypeOK, Order, Reservable, xsk_ring_prod__submit, consvars
  <1> DEFINE l == submitted - released
  <1>2. l \in Nat /\ submitted' - released' = l + nb /\ released + l = submitted
    BY <1>1
  <1>3. InRing = Numbers(released, l) /\ InRing' = Numbers(released, l + nb)
    BY <1>1, <1>2, InRingNumbers, InRingNumbersNext
  <1>4. Len(InRing) = l
    BY <1>1, <1>2, <1>3, NumbersSeq, Zenon
  <1> HIDE DEF l
  <1>5. InRing' = InRing \o Numbers(submitted, nb)
    <2>1. released \in Nat /\ l \in Nat /\ nb \in Nat
      BY <1>1, <1>2
    <2>2. Numbers(released, l + nb) = Numbers(released, l) \o Numbers(released + l, nb)
      BY <2>1, NumbersConcat, Zenon
    <2> QED
      BY <1>2, <1>3, <2>2, Zenon
  <1>6. nb \in 1..(Size - Len(InRing))
    BY <1>1, <1>4 DEF l
  <1>7. UNCHANGED (peeked - released)
    BY <1>1
  <1> QED
    BY <1>1, <1>5, <1>6, <1>7 DEF Queue!Submit, Numbers

\* Releasing takes from its front.
LEMMA ReleaseImplements ==
    ASSUME RingInv, RingInv', NEW nb \in Batches, xsk_ring_cons__release(nb)
    PROVE  Queue!Release
  <1>1. /\ released \in Nat /\ submitted \in Nat /\ peeked \in Nat
        /\ nb \in Nat \ {0} /\ released' = released + nb
        /\ UNCHANGED <<submitted, peeked>>
        /\ released + nb <= peeked /\ peeked <= submitted
    BY BatchesAssumption
       DEF RingInv, TypeOK, Order, xsk_ring_cons__release, prodvars
  <1> DEFINE l == submitted - released
  <1>2. l \in Nat /\ submitted' - released' = l - nb /\ nb \in 1..l
    BY <1>1
  <1>3. InRing = Numbers(released, l) /\ InRing' = Numbers(released + nb, l - nb)
    BY <1>1, <1>2, InRingNumbers, InRingNumbersNext
  <1>4. Len(InRing) = l
    BY <1>1, <1>2, <1>3, NumbersSeq, Zenon
  <1> HIDE DEF l
  <1>5. InRing' = SubSeq(InRing, nb + 1, Len(InRing))
    <2>1. released \in Nat /\ l \in Nat /\ nb \in 1..l
      BY <1>1, <1>2
    <2>2. Numbers(released + nb, l - nb) = SubSeq(Numbers(released, l), nb + 1, l)
      BY <2>1, NumbersTail, Zenon
    <2> QED
      BY <1>3, <1>4, <2>2, Zenon
  <1>6. nb \in 1..(peeked - released) /\ (peeked - released)' = (peeked - released) - nb
    BY <1>1
  <1> QED
    BY <1>1, <1>5, <1>6 DEF Queue!Release

\* A step that changes neither end of the queue leaves the queue alone.
LEMMA SameQueue ==
    ASSUME RingInv, RingInv', UNCHANGED <<released, submitted>>
    PROVE  UNCHANGED InRing
  BY InRingNumbers, InRingNumbersNext

\* Where a number between two others is.
LEMMA Between ==
    ASSUME NEW a \in Nat, NEW b \in Nat, NEW c \in Nat, a <= b, b <= c
    PROVE  b - a \in 0..(c - a)
  OBVIOUS

\* Other steps at most change how many entries are taken.
LEMMA TakeImplements ==
    ASSUME RingInv, RingInv', UNCHANGED <<released, submitted>>
    PROVE  Queue!Take
  <1>1. /\ released' = released /\ submitted' = submitted
        /\ released \in Nat /\ submitted \in Nat /\ peeked' \in Nat
        /\ released <= peeked' /\ peeked' <= submitted
    BY DEF RingInv, TypeOK, Order
  <1>2. Len(InRing) = submitted - released
    BY <1>1, InRingNumbers, NumbersSeq
  <1>3. (peeked - released)' = peeked' - released
    BY <1>1
  <1>4. peeked' - released \in 0..(submitted - released)
    BY <1>1, Between, Zenon
  <1>5. peeked' - released \in 0..Len(InRing)
    BY <1>2, <1>4
  <1> QED
    BY <1>1, <1>3, <1>5, SameQueue, Zenon DEF Queue!Take

\* Every step of the ring is a step of the queue, or none.
LEMMA NextImplements ==
    ASSUME RingInv, RingInv', [Next]_vars
    PROVE  [Queue!Next]_Queue!vars
  <1>1. CASE Submit
    BY <1>1, SubmitImplements DEF Submit, Queue!Next
  <1>2. CASE Release
    BY <1>2, ReleaseImplements DEF Release, Queue!Next
  <1>3. CASE Reserve \/ fill_entry \/ Peek \/ Cancel \/ UNCHANGED vars
    <2>1. UNCHANGED <<released, submitted>>
      BY <1>3 DEF Reserve, Peek, Cancel, xsk_ring_prod__reserve, fill_entry,
                  xsk_ring_cons__peek, xsk_ring_cons__cancel, vars, prodvars, consvars
    <2> QED
      BY <2>1, TakeImplements DEF Queue!Next
  <1> QED
    BY <1>1, <1>2, <1>3 DEF Next

\* The ring, read from its slots, is a bounded FIFO queue for every size.
THEOREM RingImplementsQueue == Spec => ImplementsQueue
  <1> QED
    BY InitRingInv, NextRingInv, InitImplements, NextImplements, PTL
       DEF Spec, ImplementsQueue, Queue!Spec
=============================================================================
