---------------------------- MODULE CappedStore ----------------------------
(***************************************************************************)
(* The capped in-memory store that OrderService keeps its order snapshots  *)
(* in (InMemoryOrderRepository) and ShippingService its shipments          *)
(* (ShipmentBook): a ConcurrentDictionary, and a ConcurrentQueue of its    *)
(* keys in insertion order from which the thread that inserts also trims.  *)
(* Every call on a collection is one atomic step of its thread.            *)
(*                                                                         *)
(* An order's snapshot is saved twice, by the one task that runs the order *)
(* (Saves = 2, Overwrites), a shipment is created once per request, and    *)
(* several requests may create the same one (Saves = 1, ~Overwrites).      *)
(***************************************************************************)
EXTENDS Naturals, Sequences, FiniteSets, Functions

CONSTANTS
    Id,          \* order ids
    Writer,      \* threads that save
    IdOf,        \* the id each of them saves
    Saves,       \* how many times it saves
    Overwrites,  \* a later save replaces the value (orders), or not (shipments)
    Capacity,
    None         \* no key dequeued, no answer

ASSUME WriterAssumption == IdOf \in [Writer -> Id]
ASSUME NumbersAssumption == Capacity \in Nat /\ Saves \in Nat \ {0} /\ Overwrites \in BOOLEAN

VARIABLES
    store,           \* orders, shipments: id -> value
    insertionOrder,  \* keys, oldest first
    pc,              \* per writer
    nth,             \* which of its saves it is in
    oldest,          \* the key it dequeued
    answer,          \* the value its last save answers with
    evicted          \* history: ids that were trimmed

vars == <<store, insertionOrder, pc, nth, oldest, answer, evicted>>

\* A writer's n-th save stores its own value: a new snapshot, a candidate shipment.
Value == [writer : Writer, nth : 1..Saves]
ValueOf(w) == [writer |-> w, nth |-> nth[w]]

Goto(w, label) == pc' = [pc EXCEPT ![w] = label]

Put(id, v) == [x \in DOMAIN store \cup {id} |-> IF x = id THEN v ELSE store[x]]

MutReturnOnceMore(w, v) ==
    /\ answer' = [answer EXCEPT ![w] = v]
    /\ IF nth[w] <= Saves
       THEN nth' = [nth EXCEPT ![w] = @ + 1] /\ Goto(w, "add")
       ELSE UNCHANGED nth /\ Goto(w, "done")
\* The save returns; the next one of the same writer may come any time later.
Return(w, v) ==
    /\ answer' = [answer EXCEPT ![w] = v]
    /\ IF nth[w] < Saves
       THEN nth' = [nth EXCEPT ![w] = @ + 1] /\ Goto(w, "add")
       ELSE UNCHANGED nth /\ Goto(w, "done")

MutAddAlways(w) ==
    /\ pc[w] = "add"
    /\ store' = Put(IdOf[w], ValueOf(w))
    /\ Goto(w, "enqueue")
    /\ UNCHANGED <<insertionOrder, nth, oldest, answer, evicted>>
\* TryAdd, GetOrAdd: insert the value unless the key is there.
Add(w) ==
    /\ pc[w] = "add"
    /\ \/ /\ IdOf[w] \notin DOMAIN store
          /\ store' = Put(IdOf[w], ValueOf(w))
          /\ Goto(w, "enqueue")
          /\ UNCHANGED <<nth, answer>>
       \/ /\ IdOf[w] \in DOMAIN store
          /\ UNCHANGED store
          /\ IF Overwrites
             THEN Goto(w, "overwrite") /\ UNCHANGED <<nth, answer>>
             ELSE Return(w, store[IdOf[w]])
    /\ UNCHANGED <<insertionOrder, oldest, evicted>>

\* orders[snapshot.Id] = snapshot: whether or not the key is still there.
MutOverwriteSkips(w) ==
    /\ pc[w] = "overwrite"
    /\ UNCHANGED <<store, insertionOrder, oldest, evicted>>
    /\ Return(w, ValueOf(w))
Overwrite(w) ==
    /\ pc[w] = "overwrite"
    /\ store' = Put(IdOf[w], ValueOf(w))
    /\ Return(w, ValueOf(w))
    /\ UNCHANGED <<insertionOrder, oldest, evicted>>

MutEnqueueForgets(w) ==
    /\ pc[w] = "enqueue"
    /\ Goto(w, "count")
    /\ UNCHANGED <<store, insertionOrder, nth, oldest, answer, evicted>>
Enqueue(w) ==
    /\ pc[w] = "enqueue"
    /\ insertionOrder' = Append(insertionOrder, IdOf[w])
    /\ Goto(w, "count")
    /\ UNCHANGED <<store, nth, oldest, answer, evicted>>

\* while (Count > Capacity && ...
MutTrimCountOffByOne(w) ==
    /\ pc[w] = "count"
    /\ \/ /\ Cardinality(DOMAIN store) > Capacity + 1
          /\ Goto(w, "dequeue")
          /\ UNCHANGED <<nth, answer>>
       \/ Cardinality(DOMAIN store) <= Capacity + 1 /\ Return(w, ValueOf(w))
    /\ UNCHANGED <<store, insertionOrder, oldest, evicted>>
TrimCount(w) ==
    /\ pc[w] = "count"
    /\ \/ /\ Cardinality(DOMAIN store) > Capacity
          /\ Goto(w, "dequeue")
          /\ UNCHANGED <<nth, answer>>
       \/ Cardinality(DOMAIN store) <= Capacity /\ Return(w, ValueOf(w))
    /\ UNCHANGED <<store, insertionOrder, oldest, evicted>>

\* ... insertionOrder.TryDequeue(out var oldest))
TrimDequeue(w) ==
    /\ pc[w] = "dequeue"
    /\ \/ /\ insertionOrder # << >>
          /\ oldest' = [oldest EXCEPT ![w] = Head(insertionOrder)]
          /\ insertionOrder' = Tail(insertionOrder)
          /\ Goto(w, "remove")
          /\ UNCHANGED <<nth, answer>>
       \/ /\ insertionOrder = << >>
          /\ Return(w, ValueOf(w))
          /\ UNCHANGED <<insertionOrder, oldest, evicted>>
    /\ UNCHANGED <<store, evicted>>

TrimRemove(w) ==
    /\ pc[w] = "remove"
    /\ store' = [x \in DOMAIN store \ {oldest[w]} |-> store[x]]
    /\ oldest' = [oldest EXCEPT ![w] = None]
    /\ evicted' = evicted \cup {oldest[w]}
    /\ Goto(w, "count")
    /\ UNCHANGED <<insertionOrder, nth, answer>>

Init ==
    /\ store = << >>
    /\ insertionOrder = << >>
    /\ pc = [w \in Writer |-> "add"]
    /\ nth = [w \in Writer |-> 1]
    /\ oldest = [w \in Writer |-> None]
    /\ answer = [w \in Writer |-> None]
    /\ evicted = {}

Step(w) ==
    \/ Add(w) \/ Overwrite(w) \/ Enqueue(w)
    \/ TrimCount(w) \/ TrimDequeue(w) \/ TrimRemove(w)

\* Every writer has saved all it has to save.
Quiescent == (\A w \in Writer : pc[w] = "done") /\ UNCHANGED vars

Next == (\E w \in Writer : Step(w)) \/ Quiescent

Spec == Init /\ [][Next]_vars

-----------------------------------------------------------------------------
(* Properties.                                                              *)

Labels == {"add", "overwrite", "enqueue", "count", "dequeue", "remove", "done"}

\* Types; the keys are ids and the values were written for them.
TypeOK ==
    /\ DOMAIN store \subseteq Id
    /\ store \in [DOMAIN store -> Value]
    /\ insertionOrder \in Seq(Id)
    /\ pc \in [Writer -> Labels]
    /\ nth \in [Writer -> 1..Saves]
    /\ oldest \in [Writer -> Id \cup {None}]
    /\ answer \in [Writer -> Value \cup {None}]
    /\ evicted \subseteq Id \cup {None}

\* Every stored key can still be evicted: it is queued, or about to be, or a trimming
\* thread is about to remove it.
EveryKeyEvictable ==
    \A id \in DOMAIN store :
        \/ id \in Range(insertionOrder)
        \/ \E w \in Writer : pc[w] = "enqueue" /\ IdOf[w] = id
        \/ \E w \in Writer : pc[w] = "remove" /\ oldest[w] = id

Trimming(w) == pc[w] \in {"enqueue", "count", "dequeue", "remove"}

\* The store exceeds its capacity by no more than the saves that are still trimming, so
\* it is within its capacity whenever they are done.
StoreBounded ==
    Cardinality(DOMAIN store) <= Capacity + Cardinality({w \in Writer : Trimming(w)})

\* InMemoryOrderRepository.cs:7 "The store is capped and forgets the oldest orders": when
\* all saves are done, the store is within its capacity.
CappedWhenDone ==
    (\A w \in Writer : pc[w] = "done") => Cardinality(DOMAIN store) <= Capacity

\* A finished order never reads back as Pending: once its last save returned, the store
\* holds that snapshot or nothing for it.
LastSaveWins ==
    \A w \in Writer : pc[w] = "done" /\ IdOf[w] \in DOMAIN store =>
        store[IdOf[w]] = ValueOf(w)

\* ShipmentBook.cs:15 "a retried request returns the same shipment instead of shipping
\* twice": all requests of an order are answered with one shipment, unless it was evicted.
SameShipment ==
    \A w, v \in Writer :
        /\ IdOf[w] = IdOf[v] /\ IdOf[w] \notin evicted
        /\ pc[w] = "done" /\ pc[v] = "done"
        => answer[w] = answer[v]
=============================================================================
