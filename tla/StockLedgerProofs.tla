------------------------- MODULE StockLedgerProofs -------------------------
(***************************************************************************)
(* Proofs about StockLedger for any orders, SKUs, stock and requests.      *)
(*                                                                         *)
(* TypeOK is inductive, with what a trim leaves of a map and a queue as    *)
(* its lemma; so are EveryReservationQueued and HeldOnce beside it.        *)
(* Conservation is inductive once the units held of a SKU are known to be  *)
(* finitely many (Counted): a reservation adds as many units as it         *)
(* deducts, and a release takes away those it gives back.                  *)
(***************************************************************************)
EXTENDS StockLedger, FiniteSetTheorems, TLAPS

-----------------------------------------------------------------------------
\* Trimming a well-typed map and queue leaves well-typed ones.
LEMMA StoreType ==
    ASSUME NEW res, NEW queue \in Seq(Order),
           DOMAIN res \subseteq Order,
           res \in [DOMAIN res -> Reservation],
           Store(res, queue)
    PROVE  /\ DOMAIN reservations' \subseteq Order
           /\ reservations' \in [DOMAIN reservations' -> Reservation]
           /\ reservationOrder' \in Seq(Order)
           /\ forgotten \subseteq Order => forgotten' \subseteq Order
<1> PICK n \in 0..Len(queue) :
        /\ reservations' = [o \in DOMAIN res \ Dropped(queue, n) |-> res[o]]
        /\ reservationOrder' = SubSeq(queue, n + 1, Len(queue))
        /\ forgotten' = forgotten \cup Live(res, Dropped(queue, n))
  BY DEF Store
<1> QED
  BY DEF Live

\* Replacing one reservation keeps the map well-typed.
LEMMA WithType ==
    ASSUME TypeOK, NEW o \in Order, NEW r \in Reservation
    PROVE  /\ DOMAIN With(o, r) = DOMAIN reservations \cup {o}
           /\ DOMAIN With(o, r) \subseteq Order
           /\ With(o, r) \in [DOMAIN With(o, r) -> Reservation]
           /\ With(o, r)[o] = r
           /\ \A x \in DOMAIN reservations \ {o} : With(o, r)[x] = reservations[x]
BY DEF TypeOK, With

LEMMA ReleasedType ==
    ASSUME TypeOK, NEW o \in DOMAIN reservations
    PROVE  /\ reservations[o].lines \in RequestLines
           /\ [reservations[o] EXCEPT !.status = "Released"] \in Reservation
           /\ [reservations[o] EXCEPT !.status = "Released"].status = "Released"
BY DEF TypeOK, Reservation

\* A quantity is a natural number.
LEMMA QuantityType ==
    ASSUME NEW lines \in RequestLines, NEW s
    PROVE  QuantityOf(lines, s) \in Nat
<1>1. lines \in [DOMAIN lines -> Nat \ {0}]
  BY LinesAssumption
<1> QED
  BY <1>1 DEF QuantityOf

\* Every step keeps the types, and with them no stock level falls below zero: the lines
\* of a request are checked against the stock before any of them is deducted.
LEMMA TypeStep == TypeOK /\ [Next]_vars => TypeOK'
<1> SUFFICES ASSUME TypeOK, [Next]_vars PROVE TypeOK'
  OBVIOUS
<1>1. ASSUME NEW o \in Order, NEW lines \in RequestLines, Reserve(o, lines) PROVE TypeOK'
  <2> DEFINE r == [lines |-> lines, status |-> "Reserved"]
  <2>1. r \in Reservation
    BY DEF Reservation
  <2>2. available' \in [Sku -> Nat]
    <3>1. \A s \in Sku : available[s] - QuantityOf(lines, s) \in Nat
      BY <1>1, LinesAssumption DEF Reserve, Available, QuantityOf, TypeOK
    <3> QED
      BY <1>1, <3>1 DEF Reserve
  <2>3. Append(reservationOrder, o) \in Seq(Order)
    BY DEF TypeOK
  <2>4. Store(With(o, r), Append(reservationOrder, o))
    BY <1>1 DEF Reserve
  <2> HIDE DEF r
  <2>5. /\ DOMAIN reservations' \subseteq Order
        /\ reservations' \in [DOMAIN reservations' -> Reservation]
        /\ reservationOrder' \in Seq(Order)
        /\ forgotten' \subseteq Order
    BY <2>1, <2>3, <2>4, WithType, StoreType DEF TypeOK
  <2>6. held' \in [Order -> Int]
    BY <1>1 DEF Reserve, TypeOK
  <2> QED
    BY <2>2, <2>5, <2>6 DEF TypeOK
<1>2. ASSUME NEW o \in Order, Release(o) PROVE TypeOK'
  <2>1. o \in DOMAIN reservations
    BY <1>2 DEF Release, Reserved
  <2>2. available' \in [Sku -> Nat]
    <3>1. reservations[o].lines \in RequestLines
      BY <2>1, ReleasedType
    <3>2. \A s \in Sku : available[s] + QuantityOf(reservations[o].lines, s) \in Nat
      BY <3>1, QuantityType DEF TypeOK
    <3> QED
      BY <1>2, <3>2 DEF Release
  <2>3. /\ DOMAIN reservations' \subseteq Order
        /\ reservations' \in [DOMAIN reservations' -> Reservation]
    BY <1>2, <2>1, ReleasedType, WithType DEF Release
  <2>4. /\ reservationOrder' \in Seq(Order) /\ held' \in [Order -> Int]
        /\ forgotten' \subseteq Order
    BY <1>2 DEF Release, TypeOK
  <2> QED
    BY <2>2, <2>3, <2>4 DEF TypeOK
<1>3. CASE Restart
  BY <1>3, StockAssumption DEF Restart, TypeOK
<1>4. CASE UNCHANGED vars
  BY <1>4 DEF vars, TypeOK
<1> QED
  BY <1>1, <1>2, <1>3, <1>4 DEF Next

\* Nothing is oversold: every stock level stays a natural number, for any stock,
\* requests and interleaving of Reserve, Release and Restart (StockLedger.cs).
THEOREM Typing == Spec => []TypeOK
<1>1. Init => TypeOK
  BY StockAssumption DEF Init, TypeOK
<1> QED
  BY <1>1, TypeStep, PTL DEF Spec

-----------------------------------------------------------------------------
\* What trimming leaves fits the ledger and is still queued, if everything was queued.
LEMMA StoreQueued ==
    ASSUME NEW res, NEW queue \in Seq(Order),
           DOMAIN res \subseteq Range(queue),
           Store(res, queue)
    PROVE  /\ DOMAIN reservations' \subseteq Range(reservationOrder')
           /\ Cardinality(DOMAIN reservations') <= Capacity
<1> PICK n \in 0..Len(queue) :
        /\ Trims(DOMAIN res, queue, n)
        /\ reservations' = [o \in DOMAIN res \ Dropped(queue, n) |-> res[o]]
        /\ reservationOrder' = SubSeq(queue, n + 1, Len(queue))
  BY DEF Store
<1> DEFINE left == SubSeq(queue, n + 1, Len(queue))
<1>1. ASSUME NEW x \in DOMAIN res \ Dropped(queue, n) PROVE x \in Range(left)
  <2> PICK i \in 1..Len(queue) : x = queue[i]
    BY DEF Range
  <2>1. i > n
    BY DEF Dropped
  <2>2. left \in Seq(Order) /\ Len(left) = Len(queue) - n
    OBVIOUS
  <2>3. i - n \in 1..Len(left) /\ left[i - n] = queue[i]
    BY <2>1, <2>2
  <2> HIDE DEF left
  <2> QED
    BY <2>2, <2>3 DEF Range
<1>2. CASE n = Len(queue)
  <2>1. DOMAIN res \ Dropped(queue, n) = {}
    BY <1>2 DEF Dropped, Range
  <2>2. DOMAIN reservations' = {}
    BY <2>1
  <2>3. Cardinality(DOMAIN reservations') = 0
    BY <2>2, FS_EmptySet
  <2> QED
    BY <2>2, <2>3, BoundsAssumption
<1>3. CASE n # Len(queue)
  <2>1. Cardinality(DOMAIN res \ Dropped(queue, n)) <= Capacity
    BY <1>3 DEF Trims, Enough
  <2> QED
    BY <1>1, <2>1
<1> QED
  BY <1>2, <1>3

\* Appending to the queue keeps what is queued and queues the new order.
LEMMA AppendRange ==
    ASSUME NEW queue \in Seq(Order), NEW o \in Order
    PROVE  Range(queue) \cup {o} \subseteq Range(Append(queue, o))
<1> DEFINE longer == Append(queue, o)
<1>1. longer \in Seq(Order) /\ Len(longer) = Len(queue) + 1 /\ longer[Len(longer)] = o
  OBVIOUS
<1>2. \A i \in 1..Len(queue) : longer[i] = queue[i]
  OBVIOUS
<1> HIDE DEF longer
<1> QED
  BY <1>1, <1>2 DEF Range, longer

QueueInvariant == TypeOK /\ EveryReservationQueued /\ WithinCapacity

LEMMA QueueStep == QueueInvariant /\ [Next]_vars => QueueInvariant'
<1> SUFFICES ASSUME QueueInvariant, [Next]_vars PROVE EveryReservationQueued' /\ WithinCapacity'
  BY TypeStep DEF QueueInvariant
<1> USE DEF QueueInvariant
<1>1. ASSUME NEW o \in Order, NEW lines \in RequestLines, Reserve(o, lines)
      PROVE  EveryReservationQueued' /\ WithinCapacity'
  <2> DEFINE r == [lines |-> lines, status |-> "Reserved"]
             queue == Append(reservationOrder, o)
  <2>1. r \in Reservation
    BY DEF Reservation
  <2>2. queue \in Seq(Order) /\ Store(With(o, r), queue)
    BY <1>1 DEF Reserve, TypeOK
  <2> HIDE DEF r
  <2>3. DOMAIN With(o, r) \subseteq Range(queue)
    <3>1. DOMAIN With(o, r) = DOMAIN reservations \cup {o}
      BY <2>1, WithType
    <3>2. Range(reservationOrder) \cup {o} \subseteq Range(queue)
      BY AppendRange DEF TypeOK
    <3> QED
      BY <3>1, <3>2 DEF EveryReservationQueued
  <2> HIDE DEF queue
  <2>4. /\ DOMAIN reservations' \subseteq Range(reservationOrder')
        /\ Cardinality(DOMAIN reservations') <= Capacity
    BY <2>2, <2>3, StoreQueued
  <2> QED
    BY <2>4 DEF EveryReservationQueued, WithinCapacity
<1>2. ASSUME NEW o \in Order, Release(o) PROVE EveryReservationQueued' /\ WithinCapacity'
  <2>1. o \in DOMAIN reservations
    BY <1>2 DEF Release, Reserved
  <2>2. DOMAIN reservations' = DOMAIN reservations
    BY <1>2, <2>1, ReleasedType, WithType DEF Release
  <2> QED
    BY <1>2, <2>2 DEF Release, EveryReservationQueued, WithinCapacity
<1>3. CASE Restart
  BY <1>3, FS_EmptySet, BoundsAssumption DEF Restart, EveryReservationQueued, WithinCapacity
<1>4. CASE UNCHANGED vars
  BY <1>4 DEF vars, EveryReservationQueued, WithinCapacity
<1> QED
  BY <1>1, <1>2, <1>3, <1>4 DEF Next

\* Every reservation can be dropped in its turn, and TrimOldReservations keeps their
\* number within ReservationCapacity, stale and repeated queue entries included.
THEOREM Bounded == Spec => [](EveryReservationQueued /\ WithinCapacity)
<1>1. Init => QueueInvariant
  BY StockAssumption, FS_EmptySet, BoundsAssumption
  DEF Init, QueueInvariant, TypeOK, EveryReservationQueued, WithinCapacity
<1>2. QueueInvariant => EveryReservationQueued /\ WithinCapacity
  BY DEF QueueInvariant
<1> QED
  BY <1>1, <1>2, QueueStep, PTL DEF Spec

-----------------------------------------------------------------------------
\* An order that is not forgotten after a trim is reserved as it was before.
LEMMA TrimKeepsLive ==
    ASSUME NEW res, NEW queue \in Seq(Order),
           Store(res, queue),
           NEW x, x \notin forgotten'
    PROVE  /\ x \notin forgotten
           /\ Reserved(x)' <=> x \in DOMAIN res /\ res[x].status = "Reserved"
           /\ Reserved(x)' => reservations'[x] = res[x]
<1> PICK n \in 0..Len(queue) :
        /\ reservations' = [o \in DOMAIN res \ Dropped(queue, n) |-> res[o]]
        /\ forgotten' = forgotten \cup Live(res, Dropped(queue, n))
  BY DEF Store
<1> QED
  BY DEF Live, Reserved

LEMMA HeldStep == TypeOK /\ HeldOnce /\ [Next]_vars => HeldOnce'
<1> SUFFICES ASSUME TypeOK, HeldOnce, [Next]_vars PROVE HeldOnce'
  OBVIOUS
<1>1. ASSUME NEW o \in Order, NEW lines \in RequestLines, Reserve(o, lines) PROVE HeldOnce'
  <2> DEFINE r == [lines |-> lines, status |-> "Reserved"]
             queue == Append(reservationOrder, o)
  <2>1. r \in Reservation /\ r.status = "Reserved"
    BY DEF Reservation
  <2>2. queue \in Seq(Order) /\ Store(With(o, r), queue)
    BY <1>1 DEF Reserve, TypeOK
  <2> HIDE DEF r, queue
  <2>3. /\ DOMAIN With(o, r) = DOMAIN reservations \cup {o}
        /\ With(o, r)[o] = r
        /\ \A x \in DOMAIN reservations \ {o} : With(o, r)[x] = reservations[x]
    BY <2>1, WithType
  <2>4. ~Reserved(o) /\ held' = [held EXCEPT ![o] = @ + 1]
    BY <1>1 DEF Reserve
  <2>5. ASSUME o \notin forgotten' PROVE held'[o] = 1 /\ Reserved(o)'
    <3>1. o \notin forgotten /\ Reserved(o)'
      BY <2>1, <2>2, <2>3, <2>5, TrimKeepsLive
    <3> QED
      BY <2>4, <3>1 DEF HeldOnce, TypeOK
  <2>6. ASSUME NEW x \in Order \ {o}, x \notin forgotten'
        PROVE  x \notin forgotten /\ held'[x] = held[x] /\ (Reserved(x)' <=> Reserved(x))
    <3>1. /\ x \notin forgotten
          /\ Reserved(x)' <=> x \in DOMAIN With(o, r) /\ With(o, r)[x].status = "Reserved"
      BY <2>2, <2>6, TrimKeepsLive
    <3> QED
      BY <2>3, <2>4, <3>1 DEF TypeOK, Reserved
  <2> QED
    BY <2>5, <2>6 DEF HeldOnce
<1>2. ASSUME NEW o \in Order, Release(o) PROVE HeldOnce'
  <2>1. /\ o \in DOMAIN reservations /\ Reserved(o)
        /\ held' = [held EXCEPT ![o] = @ - 1] /\ forgotten' = forgotten
    BY <1>2 DEF Release, Reserved
  <2>2. /\ DOMAIN reservations' = DOMAIN reservations
        /\ reservations'[o].status = "Released"
        /\ \A x \in DOMAIN reservations \ {o} : reservations'[x] = reservations[x]
    <3> DEFINE r == [reservations[o] EXCEPT !.status = "Released"]
    <3>1. r \in Reservation /\ r.status = "Released"
      BY <2>1, ReleasedType
    <3>2. reservations' = With(o, r)
      BY <1>2 DEF Release
    <3> HIDE DEF r
    <3> QED
      BY <2>1, <3>1, <3>2, WithType
  <2>3. (o \notin forgotten => held'[o] = 0) /\ ~Reserved(o)'
    BY <2>1, <2>2 DEF HeldOnce, TypeOK, Reserved
  <2>4. \A x \in Order \ {o} : held'[x] = held[x] /\ (Reserved(x)' <=> Reserved(x))
    BY <2>1, <2>2 DEF TypeOK, Reserved
  <2> QED
    BY <2>1, <2>3, <2>4 DEF HeldOnce
<1>3. CASE Restart
  BY <1>3 DEF Restart, HeldOnce, Reserved
<1>4. CASE UNCHANGED vars
  BY <1>4 DEF vars, HeldOnce, Reserved
<1> QED
  BY <1>1, <1>2, <1>3, <1>4 DEF Next

\* Retried, repeated and late Reserve and Release calls deduct an order's stock once and
\* give it back once, as long as TrimOldReservations did not drop its live reservation.
THEOREM ReservingIsIdempotent == Spec => []HeldOnce
<1>1. Init => TypeOK /\ HeldOnce
  BY StockAssumption DEF Init, TypeOK, HeldOnce, Reserved
<1>2. TypeOK /\ HeldOnce /\ [Next]_vars => TypeOK' /\ HeldOnce'
  BY TypeStep, HeldStep
<1> QED
  BY <1>1, <1>2, PTL DEF Spec

-----------------------------------------------------------------------------
\* Units of one more order.
LEMMA MoreUnits ==
    ASSUME NEW U, IsFiniteSet(U), NEW o, NEW q \in Nat, NEW V, V = {o} \X (1..q), U \cap V = {}
    PROVE  /\ IsFiniteSet(U \cup V)
           /\ Cardinality(U \cup V) = Cardinality(U) + q
<1> DEFINE one == {o}
           numbers == 1..q
<1>1. IsFiniteSet(numbers) /\ Cardinality(numbers) = q
  <2>1. 1 \in Int /\ q \in Int
    OBVIOUS
  <2>2. IsFiniteSet(1..q) /\ Cardinality(1..q) = IF 1 > q THEN 0 ELSE q - 1 + 1
    BY <2>1, FS_Interval
  <2> QED
    BY <2>2
<1>2. IsFiniteSet(one) /\ Cardinality(one) = 1
  BY FS_Singleton
<1>3. V = one \X numbers
  OBVIOUS
<1> HIDE DEF one, numbers
<1>4. IsFiniteSet(one \X numbers) /\ Cardinality(one \X numbers) = Cardinality(one) * Cardinality(numbers)
  BY <1>1, <1>2, FS_Product, Zenon
<1>5. IsFiniteSet(V) /\ Cardinality(V) = q
  <2>1. IsFiniteSet(V) /\ Cardinality(V) = 1 * q
    BY <1>1, <1>2, <1>3, <1>4, Zenon
  <2> QED
    BY <2>1
<1>6. Cardinality(U) \in Nat
  BY FS_CardinalityType
<1>7. /\ IsFiniteSet(U \cup V)
      /\ Cardinality(U \cup V) = Cardinality(U) + Cardinality(V) - Cardinality(U \cap V)
  BY <1>5, FS_Union
<1>8. Cardinality(U \cap V) = 0
  BY FS_EmptySet
<1> QED
  BY <1>5, <1>6, <1>7, <1>8

\* The units an order holds carry its id.
LEMMA UnitsOf ==
    ASSUME NEW s, NEW o, ~Reserved(o), NEW q
    PROVE  HeldUnits(s) \cap ({o} \X (1..q)) = {}
BY DEF HeldUnits

Counted ==
    forgotten = {} => \A s \in Sku : /\ IsFiniteSet(HeldUnits(s))
                                     /\ Stock[s] = available[s] + Cardinality(HeldUnits(s))

LEMMA CountedStep == TypeOK /\ Counted /\ [Next]_vars => Counted'
<1> SUFFICES ASSUME TypeOK, Counted, [Next]_vars PROVE Counted'
  OBVIOUS
<1>1. ASSUME NEW o \in Order, NEW lines \in RequestLines, Reserve(o, lines) PROVE Counted'
  <2> DEFINE r == [lines |-> lines, status |-> "Reserved"]
             queue == Append(reservationOrder, o)
  <2>1. r \in Reservation /\ r.status = "Reserved" /\ r.lines = lines
    BY DEF Reservation
  <2>2. queue \in Seq(Order) /\ Store(With(o, r), queue)
    BY <1>1 DEF Reserve, TypeOK
  <2> HIDE DEF r, queue
  <2>3. /\ DOMAIN With(o, r) = DOMAIN reservations \cup {o}
        /\ With(o, r)[o] = r
        /\ \A x \in DOMAIN reservations \ {o} : With(o, r)[x] = reservations[x]
    BY <2>1, WithType
  <2>4. ~Reserved(o) /\ available' = [s \in Sku |-> available[s] - QuantityOf(lines, s)]
    BY <1>1 DEF Reserve
  <2>5. ASSUME forgotten' = {}, NEW s \in Sku
        PROVE  IsFiniteSet(HeldUnits(s)') /\ Stock[s] = available'[s] + Cardinality(HeldUnits(s)')
    <3> DEFINE q == QuantityOf(lines, s)
               new == {o} \X (1..q)
               more == HeldUnits(s) \cup new
    <3>1. Reserved(o)' /\ reservations'[o].lines = lines
      BY <2>1, <2>2, <2>3, <2>5, TrimKeepsLive
    <3>2. \A x \in Order \ {o} : (Reserved(x)' <=> Reserved(x)) /\ (Reserved(x) => reservations'[x] = reservations[x])
      <4> TAKE x \in Order \ {o}
      <4>1. /\ Reserved(x)' <=> x \in DOMAIN With(o, r) /\ With(o, r)[x].status = "Reserved"
            /\ Reserved(x)' => reservations'[x] = With(o, r)[x]
        BY <2>2, <2>5, TrimKeepsLive
      <4> QED
        BY <2>3, <4>1 DEF Reserved
    <3>3. HeldUnits(s)' = more
      BY <2>4, <3>1, <3>2 DEF HeldUnits
    <3>4. forgotten = {}
      BY <2>2, <2>5 DEF Store
    <3>5. IsFiniteSet(HeldUnits(s)) /\ Stock[s] = available[s] + Cardinality(HeldUnits(s))
      BY <3>4 DEF Counted
    <3>6. q \in Nat /\ available[s] \in Nat /\ available'[s] = available[s] - q
      BY <2>4, QuantityType DEF TypeOK
    <3>7. HeldUnits(s) \cap new = {} /\ new = {o} \X (1..q)
      BY <2>4, UnitsOf
    <3> HIDE DEF q, new
    <3>8. IsFiniteSet(HeldUnits(s) \cup new) /\ Cardinality(HeldUnits(s) \cup new) = Cardinality(HeldUnits(s)) + q
      <4> DEFINE U == HeldUnits(s)
      <4>1. IsFiniteSet(U) /\ q \in Nat /\ new = {o} \X (1..q) /\ U \cap new = {}
        BY <3>5, <3>6, <3>7
      <4> HIDE DEF U
      <4>2. IsFiniteSet(U \cup new) /\ Cardinality(U \cup new) = Cardinality(U) + q
        BY <4>1, MoreUnits
      <4> QED
        BY <4>2 DEF U
    <3>9. Cardinality(HeldUnits(s)) \in Nat
      BY <3>5, FS_CardinalityType
    <3> QED
      BY <3>3, <3>5, <3>6, <3>8, <3>9
  <2> QED
    BY <2>5 DEF Counted
<1>2. ASSUME NEW o \in Order, Release(o) PROVE Counted'
  <2>1. /\ o \in DOMAIN reservations /\ Reserved(o) /\ forgotten' = forgotten
        /\ available' = [s \in Sku |-> available[s] + QuantityOf(reservations[o].lines, s)]
    BY <1>2 DEF Release, Reserved
  <2>2. /\ DOMAIN reservations' = DOMAIN reservations
        /\ reservations'[o].status = "Released"
        /\ \A x \in DOMAIN reservations \ {o} : reservations'[x] = reservations[x]
    <3> DEFINE r == [reservations[o] EXCEPT !.status = "Released"]
    <3>1. r \in Reservation /\ r.status = "Released"
      BY <2>1, ReleasedType
    <3>2. reservations' = With(o, r)
      BY <1>2 DEF Release
    <3> HIDE DEF r
    <3>3. /\ DOMAIN With(o, r) = DOMAIN reservations \cup {o} /\ With(o, r)[o] = r
          /\ \A x \in DOMAIN reservations \ {o} : With(o, r)[x] = reservations[x]
      BY <3>1, WithType
    <3> QED
      BY <2>1, <3>1, <3>2, <3>3
  <2>3. ~Reserved(o)' /\ \A x \in Order \ {o} : (Reserved(x)' <=> Reserved(x)) /\ (Reserved(x) => reservations'[x] = reservations[x])
    BY <2>1, <2>2 DEF Reserved
  <2>4. ASSUME forgotten' = {}, NEW s \in Sku
        PROVE  IsFiniteSet(HeldUnits(s)') /\ Stock[s] = available'[s] + Cardinality(HeldUnits(s)')
    <3> DEFINE q == QuantityOf(reservations[o].lines, s)
               left == HeldUnits(s)'
               gone == {o} \X (1..q)
    <3>1. HeldUnits(s) = left \cup gone
      BY <2>1, <2>3 DEF HeldUnits
    <3>2. left \cap gone = {} /\ gone = {o} \X (1..q)
      BY <2>3 DEF HeldUnits
    <3>3. IsFiniteSet(HeldUnits(s)) /\ Stock[s] = available[s] + Cardinality(HeldUnits(s))
      BY <2>1, <2>4 DEF Counted
    <3>4. q \in Nat /\ available[s] \in Nat /\ available'[s] = available[s] + q
      <4>1. reservations[o].lines \in RequestLines
        BY <2>1, ReleasedType
      <4> QED
        BY <2>1, <4>1, QuantityType DEF TypeOK
    <3>5. IsFiniteSet(left)
      <4>1. left \in SUBSET HeldUnits(s)
        BY <3>1
      <4> HIDE DEF left
      <4> QED
        BY <3>3, <4>1, FS_Subset
    <3> HIDE DEF q, left, gone
    <3>6. Cardinality(HeldUnits(s)) = Cardinality(left) + q
      BY <3>1, <3>2, <3>4, <3>5, MoreUnits
    <3>7. Cardinality(left) \in Nat
      BY <3>5, FS_CardinalityType
    <3>8. Stock[s] = available'[s] + Cardinality(left)
      BY <3>3, <3>4, <3>6, <3>7
    <3> QED
      BY <3>5, <3>8 DEF left
  <2> QED
    BY <2>4 DEF Counted
<1>3. CASE Restart
  <2>1. \A s \in Sku : HeldUnits(s)' = {} /\ available'[s] = Stock[s]
    BY <1>3 DEF Restart, HeldUnits, Reserved
  <2>2. Counted'
    <3>1. \A s \in Sku : IsFiniteSet(HeldUnits(s)') /\ Cardinality(HeldUnits(s)') = 0
      BY <2>1, FS_EmptySet
    <3> QED
      BY <2>1, <3>1, StockAssumption DEF Counted
  <2> QED
    BY <2>2
<1>4. CASE UNCHANGED vars
  BY <1>4 DEF vars, Counted, HeldUnits, Reserved
<1> QED
  BY <1>1, <1>2, <1>3, <1>4 DEF Next

\* Whatever Reserve, Release and the trimming do, in any order and for any request, the
\* level of a SKU and the units its live reservations hold add up to the configured
\* stock, until TrimOldReservations drops a live reservation (StockLedger.cs).
THEOREM StockIsConserved == Spec => []Conservation
<1>1. Init => TypeOK /\ Counted
  <2> SUFFICES ASSUME Init PROVE TypeOK /\ Counted
    OBVIOUS
  <2>1. TypeOK
    BY StockAssumption DEF Init, TypeOK
  <2>2. \A s \in Sku : HeldUnits(s) = {} /\ available[s] = Stock[s]
    BY DEF Init, HeldUnits, Reserved
  <2>3. \A s \in Sku : IsFiniteSet(HeldUnits(s)) /\ Cardinality(HeldUnits(s)) = 0
    BY <2>2, FS_EmptySet
  <2> QED
    BY <2>1, <2>2, <2>3, StockAssumption DEF Counted
<1>2. TypeOK /\ Counted /\ [Next]_vars => TypeOK' /\ Counted'
  BY TypeStep, CountedStep
<1>3. Counted => Conservation
  BY DEF Counted, Conservation
<1> QED
  BY <1>1, <1>2, <1>3, PTL DEF Spec
=============================================================================
