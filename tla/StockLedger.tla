---------------------------- MODULE StockLedger ----------------------------
(***************************************************************************)
(* InventoryService's StockLedger.  Reserve and Release each run under one *)
(* lock, so each is one action; the trimming of old reservations happens   *)
(* inside Reserve.  Calls come in any order: retries, requests delayed     *)
(* past their undo, and repeated undo calls.                               *)
(*                                                                         *)
(* An order line is a SKU with its quantity and a SKU occurs once in an    *)
(* order (CreateOrderValidator refuses duplicates), so the lines of a      *)
(* request are a function from its SKUs to quantities.                     *)
(***************************************************************************)
EXTENDS Integers, Sequences, FiniteSets, Functions

CONSTANTS
    Order,         \* order ids
    Sku,           \* the SKUs of the catalogue
    Stock,         \* StockOptions: the initial level of each SKU
    RequestLines,  \* the lines a request may carry
    Capacity,      \* ReservationCapacity
    MaxQueue       \* bound on the length of reservationOrder

ASSUME StockAssumption == Stock \in [Sku -> Nat]
ASSUME LinesAssumption ==
    \A lines \in RequestLines : lines \in [DOMAIN lines -> Nat \ {0}]
ASSUME BoundsAssumption == Capacity \in Nat /\ MaxQueue \in Nat

VARIABLES
    available,         \* level of each SKU
    reservations,      \* order id -> [lines, status]
    reservationOrder,  \* order ids, oldest reservation first
    held,              \* history: deductions for an order that were not given back
    forgotten          \* history: orders whose live reservation was dropped

vars == <<available, reservations, reservationOrder, held, forgotten>>

Reserved(o) == o \in DOMAIN reservations /\ reservations[o].status = "Reserved"

QuantityOf(lines, s) == IF s \in DOMAIN lines THEN lines[s] ELSE 0

\* As Available, without the check of the quantity.
MutAvailableKnown(lines) == DOMAIN lines \subseteq Sku
\* Every line names a known SKU with enough stock (else UnknownSku, InsufficientStock).
Available(lines) ==
    \A s \in DOMAIN lines : s \in Sku /\ available[s] >= lines[s]

\* TrimOldReservations drops the n oldest queue entries, n as small as possible,
\* until the reservations fit.  An entry may be stale: its order was dropped before,
\* or was released and reserved again.
Dropped(queue, n) == {queue[i] : i \in 1..n}
MutEnough(ids, queue, n) ==
    n = Len(queue) \/ Cardinality(ids \ Dropped(queue, n)) <= Capacity + 1
Enough(ids, queue, n) ==
    n = Len(queue) \/ Cardinality(ids \ Dropped(queue, n)) <= Capacity
Trims(ids, queue, n) ==
    Enough(ids, queue, n) /\ \A k \in 0..(n - 1) : ~Enough(ids, queue, k)

Live(res, ids) == {o \in DOMAIN res \cap ids : res[o].status = "Reserved"}

Store(res, queue) ==
    \E n \in 0..Len(queue) :
        /\ Trims(DOMAIN res, queue, n)
        /\ reservations' = [o \in DOMAIN res \ Dropped(queue, n) |-> res[o]]
        /\ reservationOrder' = SubSeq(queue, n + 1, Len(queue))
        /\ forgotten' = forgotten \cup Live(res, Dropped(queue, n))

With(o, reservation) ==
    [x \in DOMAIN reservations \cup {o} |-> IF x = o THEN reservation ELSE reservations[x]]

\* As Reserve, but the lines that can be served are deducted before one that cannot stops it.
MutReservePartly(o, lines) ==
    /\ ~Reserved(o)
    /\ Len(reservationOrder) < MaxQueue
    /\ available' = [s \in Sku |-> IF available[s] >= QuantityOf(lines, s)
                                   THEN available[s] - QuantityOf(lines, s) ELSE available[s]]
    /\ IF Available(lines)
       THEN /\ Store(With(o, [lines |-> lines, status |-> "Reserved"]),
                     Append(reservationOrder, o))
            /\ held' = [held EXCEPT ![o] = @ + 1]
       ELSE UNCHANGED <<reservations, reservationOrder, held, forgotten>>
\* Deduct every line and store the reservation, replacing a released one.  A request
\* for an order that holds stock, or that asks for stock that is not there, changes nothing.
Reserve(o, lines) ==
    /\ ~Reserved(o)
    /\ Available(lines)
    /\ Len(reservationOrder) < MaxQueue
    /\ available' = [s \in Sku |-> available[s] - QuantityOf(lines, s)]
    /\ Store(With(o, [lines |-> lines, status |-> "Reserved"]), Append(reservationOrder, o))
    /\ held' = [held EXCEPT ![o] = @ + 1]

\* Give the lines back once; a released or unknown order changes nothing.
MutReleaseAgain(o) ==
    /\ o \in DOMAIN reservations
    /\ available' = [s \in Sku |-> available[s] + QuantityOf(reservations[o].lines, s)]
    /\ reservations' = With(o, [reservations[o] EXCEPT !.status = "Released"])
    /\ held' = [held EXCEPT ![o] = @ - 1]
    /\ UNCHANGED <<reservationOrder, forgotten>>
Release(o) ==
    /\ Reserved(o)
    /\ available' = [s \in Sku |-> available[s] + QuantityOf(reservations[o].lines, s)]
    /\ reservations' = With(o, [reservations[o] EXCEPT !.status = "Released"])
    /\ held' = [held EXCEPT ![o] = @ - 1]
    /\ UNCHANGED <<reservationOrder, forgotten>>

Init ==
    /\ available = Stock
    /\ reservations = << >>
    /\ reservationOrder = << >>
    /\ held = [o \in Order |-> 0]
    /\ forgotten = {}

\* A new pod starts from the configured stock.
Restart ==
    /\ available' = Stock
    /\ reservations' = << >>
    /\ reservationOrder' = << >>
    /\ held' = [o \in Order |-> 0]
    /\ forgotten' = {}

Next ==
    \/ \E o \in Order, lines \in RequestLines : Reserve(o, lines)
    \/ \E o \in Order : Release(o)
    \/ Restart

Spec == Init /\ [][Next]_vars

-----------------------------------------------------------------------------
(* Properties.                                                              *)

Reservation == [lines : RequestLines, status : {"Reserved", "Released"}]

\* Types; in particular no stock level is ever negative: nothing is oversold.
TypeOK ==
    /\ available \in [Sku -> Nat]
    /\ DOMAIN reservations \subseteq Order
    /\ reservations \in [DOMAIN reservations -> Reservation]
    /\ reservationOrder \in Seq(Order)
    /\ held \in [Order -> Int]
    /\ forgotten \subseteq Order

\* The units of s that live reservations hold.
HeldUnits(s) ==
    UNION {{o} \X (1..QuantityOf(reservations[o].lines, s)) : o \in {x \in Order : Reserved(x)}}

\* Stock is neither lost nor made up: what is available and what the reservations
\* hold add up to the initial level, as long as no live reservation was dropped.
Conservation ==
    forgotten = {} => \A s \in Sku : Stock[s] = available[s] + Cardinality(HeldUnits(s))

\* "Reserving is idempotent per order" and releasing too: stock was deducted for an
\* order exactly once if it has a live reservation and not at all otherwise, unless its
\* live reservation was dropped.
HeldOnce == \A o \in Order \ forgotten : held[o] = IF Reserved(o) THEN 1 ELSE 0

\* The ledger never keeps more reservations than its capacity, whatever stale or
\* repeated entries the queue holds.
WithinCapacity == Cardinality(DOMAIN reservations) <= Capacity

\* Every reservation has a queue entry, so that it can be dropped in its turn.
EveryReservationQueued == DOMAIN reservations \subseteq Range(reservationOrder)
=============================================================================
