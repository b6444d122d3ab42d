------------------------- MODULE CappedStoreProofs -------------------------
(***************************************************************************)
(* Proofs about CappedStore for any ids, writers and capacity.             *)
(*                                                                         *)
(* Where nothing is overwritten (the shipment book) no key can escape      *)
(* eviction, the store is bounded, and all creations of one id get one     *)
(* value; with overwriting (the order repository) the first two are false, *)
(* as the run orders_leak shows, but the last save of an id wins as long   *)
(* as one writer saves it.                                                 *)
(***************************************************************************)
EXTENDS CappedStore, FiniteSetTheorems, TLAPS

-----------------------------------------------------------------------------
\* The two small helpers keep the types.
LEMMA PutType ==
    ASSUME TypeOK, NEW w \in Writer
    PROVE  LET s == Put(IdOf[w], ValueOf(w))
           IN  /\ DOMAIN s = DOMAIN store \cup {IdOf[w]}
               /\ DOMAIN s \subseteq Id
               /\ s \in [DOMAIN s -> Value]
<1>1. IdOf[w] \in Id
  BY WriterAssumption
<1>2. ValueOf(w) \in Value
  BY DEF ValueOf, Value, TypeOK
<1> QED
  BY <1>1, <1>2 DEF Put, TypeOK

LEMMA ReturnType ==
    ASSUME TypeOK, NEW w \in Writer, NEW v \in Value, Return(w, v)
    PROVE  /\ answer' \in [Writer -> Value \cup {None}]
           /\ nth' \in [Writer -> 1..Saves]
           /\ pc' \in [Writer -> Labels]
           /\ pc'[w] \in {"add", "done"}
           /\ \A x \in Writer \ {w} : pc'[x] = pc[x]
<1>1. answer' = [answer EXCEPT ![w] = v]
  BY DEF Return
<1>2. CASE nth[w] < Saves
  <2>1. nth[w] + 1 \in 1..Saves
    BY <1>2, NumbersAssumption DEF TypeOK
  <2>2. nth' = [nth EXCEPT ![w] = nth[w] + 1] /\ pc' = [pc EXCEPT ![w] = "add"]
    BY <1>2 DEF Return, Goto
  <2> QED
    BY <1>1, <2>1, <2>2 DEF TypeOK, Labels
<1>3. CASE ~(nth[w] < Saves)
  <2>1. nth' = nth /\ pc' = [pc EXCEPT ![w] = "done"]
    BY <1>3 DEF Return, Goto
  <2> QED
    BY <1>1, <2>1 DEF TypeOK, Labels
<1> QED
  BY <1>2, <1>3

\* The value a save answers with when it inserted.
LEMMA ValueType == ASSUME TypeOK, NEW w \in Writer PROVE ValueOf(w) \in Value
BY DEF ValueOf, Value, TypeOK

LEMMA TypeStep == TypeOK /\ [Next]_vars => TypeOK'
<1> SUFFICES ASSUME TypeOK, [Next]_vars PROVE TypeOK'
  OBVIOUS
<1>1. ASSUME NEW w \in Writer, Add(w) PROVE TypeOK'
  <2>1. CASE IdOf[w] \notin DOMAIN store
    BY <1>1, <2>1, PutType DEF Add, Goto, TypeOK, Labels
  <2>2. CASE IdOf[w] \in DOMAIN store
    <3>1. store[IdOf[w]] \in Value
      BY <2>2 DEF TypeOK
    <3>2. CASE Overwrites
      BY <1>1, <2>2, <3>2 DEF Add, Goto, TypeOK, Labels
    <3>3. CASE ~Overwrites
      <4>1. Return(w, store[IdOf[w]]) /\ UNCHANGED <<store, insertionOrder, oldest, evicted>>
        BY <1>1, <2>2, <3>3 DEF Add
      <4> QED
        BY <3>1, <4>1, ReturnType DEF TypeOK
    <3> QED
      BY <3>2, <3>3
  <2> QED
    BY <2>1, <2>2
<1>2. ASSUME NEW w \in Writer, Overwrite(w) PROVE TypeOK'
  BY <1>2, PutType, ValueType, ReturnType DEF Overwrite, TypeOK
<1>3. ASSUME NEW w \in Writer, Enqueue(w) PROVE TypeOK'
  <2>1. insertionOrder' \in Seq(Id)
    BY <1>3, WriterAssumption DEF Enqueue, TypeOK
  <2> QED
    BY <1>3, <2>1 DEF Enqueue, Goto, TypeOK, Labels
<1>4. ASSUME NEW w \in Writer, TrimCount(w) PROVE TypeOK'
  <2>1. CASE Cardinality(DOMAIN store) > Capacity /\ Goto(w, "dequeue") /\ UNCHANGED <<nth, answer>>
    BY <1>4, <2>1 DEF TrimCount, Goto, TypeOK, Labels
  <2>2. CASE Return(w, ValueOf(w))
    BY <1>4, <2>2, ValueType, ReturnType DEF TrimCount, TypeOK
  <2> QED
    BY <1>4, <2>1, <2>2 DEF TrimCount
<1>5. ASSUME NEW w \in Writer, TrimDequeue(w) PROVE TypeOK'
  <2>1. CASE insertionOrder # << >>
    <3>1. Head(insertionOrder) \in Id /\ Tail(insertionOrder) \in Seq(Id)
      BY <2>1 DEF TypeOK
    <3> QED
      BY <1>5, <2>1, <3>1 DEF TrimDequeue, Goto, TypeOK, Labels
  <2>2. CASE insertionOrder = << >>
    <3>1. Return(w, ValueOf(w)) /\ UNCHANGED <<store, insertionOrder, oldest, evicted>>
      BY <1>5, <2>2 DEF TrimDequeue
    <3> QED
      BY <3>1, ValueType, ReturnType DEF TypeOK
  <2> QED
    BY <2>1, <2>2
<1>6. ASSUME NEW w \in Writer, TrimRemove(w) PROVE TypeOK'
  BY <1>6 DEF TrimRemove, Goto, TypeOK, Labels
<1>7. CASE UNCHANGED vars
  BY <1>7 DEF vars, TypeOK
<1> QED
  BY <1>1, <1>2, <1>3, <1>4, <1>5, <1>6, <1>7 DEF Next, Step, Quiescent

\* The store is well-typed at every step of any number of concurrent savers.
THEOREM Typing == Spec => []TypeOK
<1>1. Init => TypeOK
  BY NumbersAssumption DEF Init, TypeOK, Labels
<1> QED
  BY <1>1, TypeStep, PTL DEF Spec

-----------------------------------------------------------------------------
\* Where nothing is overwritten, no thread is ever about to overwrite.
NoOverwriter == \A w \in Writer : pc[w] # "overwrite"

EvictionInvariant == TypeOK /\ NoOverwriter /\ EveryKeyEvictable

LEMMA RangeFacts ==
    ASSUME NEW q \in Seq(Id), NEW id \in Id
    PROVE  /\ Range(Append(q, id)) = Range(q) \cup {id}
           /\ q # << >> => Range(q) \subseteq Range(Tail(q)) \cup {Head(q)}
<1>1. Range(Append(q, id)) = Range(q) \cup {id}
  <2> DEFINE longer == Append(q, id)
  <2>1. /\ DOMAIN longer = 1..(Len(q) + 1) /\ longer[Len(q) + 1] = id
        /\ \A i \in 1..Len(q) : longer[i] = q[i]
        /\ DOMAIN q = 1..Len(q) /\ Len(q) \in Nat
    OBVIOUS
  <2> HIDE DEF longer
  <2>2. Range(longer) = Range(q) \cup {id}
    BY <2>1 DEF Range
  <2> QED
    BY <2>2 DEF longer
<1>2. ASSUME q # << >>, NEW i \in DOMAIN q PROVE q[i] \in Range(Tail(q)) \cup {Head(q)}
  <2>1. CASE i = 1
    BY <2>1
  <2>2. CASE i # 1
    <3>1. i - 1 \in DOMAIN Tail(q) /\ Tail(q)[i - 1] = q[i]
      BY <1>2, <2>2
    <3> QED
      BY <3>1 DEF Range
  <2> QED
    BY <2>1, <2>2
<1> QED
  BY <1>1, <1>2 DEF Range

\* The reasons for which a key is evictable, one writer's program counter apart.
LEMMA EvictionStep == Overwrites = FALSE /\ EvictionInvariant /\ [Next]_vars => EvictionInvariant'
<1> SUFFICES ASSUME Overwrites = FALSE, EvictionInvariant, [Next]_vars
             PROVE  NoOverwriter' /\ EveryKeyEvictable'
  BY TypeStep DEF EvictionInvariant
<1> USE DEF EvictionInvariant
<1>1. ASSUME NEW w \in Writer, Add(w) PROVE NoOverwriter' /\ EveryKeyEvictable'
  <2>1. CASE IdOf[w] \notin DOMAIN store
    <3>1. /\ DOMAIN store' = DOMAIN store \cup {IdOf[w]}
          /\ pc' = [pc EXCEPT ![w] = "enqueue"] /\ UNCHANGED <<insertionOrder, oldest>>
      BY <1>1, <2>1, PutType DEF Add, Goto
    <3> QED
      BY <1>1, <3>1 DEF Add, NoOverwriter, EveryKeyEvictable, TypeOK
  <2>2. CASE IdOf[w] \in DOMAIN store
    <3>1. store[IdOf[w]] \in Value
      BY <2>2 DEF TypeOK
    <3>2. Return(w, store[IdOf[w]]) /\ UNCHANGED <<store, insertionOrder, oldest, evicted>>
      BY <1>1, <2>2 DEF Add
    <3>3. pc'[w] \in {"add", "done"} /\ \A x \in Writer \ {w} : pc'[x] = pc[x]
      BY <3>1, <3>2, ReturnType
    <3> QED
      BY <1>1, <3>2, <3>3 DEF Add, NoOverwriter, EveryKeyEvictable
  <2> QED
    BY <2>1, <2>2
<1>2. ASSUME NEW w \in Writer, Enqueue(w) PROVE NoOverwriter' /\ EveryKeyEvictable'
  <2>1. Range(insertionOrder') = Range(insertionOrder) \cup {IdOf[w]}
    BY <1>2, RangeFacts, WriterAssumption DEF Enqueue, TypeOK
  <2> QED
    BY <1>2, <2>1 DEF Enqueue, Goto, NoOverwriter, EveryKeyEvictable, TypeOK
<1>3. ASSUME NEW w \in Writer, TrimCount(w) PROVE NoOverwriter' /\ EveryKeyEvictable'
  <2>1. pc[w] = "count" /\ UNCHANGED <<store, insertionOrder, oldest>>
    BY <1>3 DEF TrimCount
  <2>2. pc'[w] \in {"dequeue", "add", "done"} /\ \A x \in Writer \ {w} : pc'[x] = pc[x]
    BY <1>3, ValueType, ReturnType DEF TrimCount, Goto, TypeOK
  <2> QED
    BY <2>1, <2>2 DEF NoOverwriter, EveryKeyEvictable
<1>4. ASSUME NEW w \in Writer, TrimDequeue(w) PROVE NoOverwriter' /\ EveryKeyEvictable'
  <2>1. CASE insertionOrder # << >>
    <3>1. /\ pc[w] = "dequeue" /\ UNCHANGED store
          /\ oldest' = [oldest EXCEPT ![w] = Head(insertionOrder)]
          /\ pc' = [pc EXCEPT ![w] = "remove"]
      BY <1>4, <2>1 DEF TrimDequeue, Goto
    <3>2. Range(insertionOrder) \subseteq Range(insertionOrder') \cup {Head(insertionOrder)}
      <4>1. insertionOrder' = Tail(insertionOrder)
        BY <1>4, <2>1 DEF TrimDequeue
      <4> QED
        BY <2>1, <4>1, RangeFacts, WriterAssumption DEF TypeOK
    <3> QED
      BY <3>1, <3>2 DEF NoOverwriter, EveryKeyEvictable, TypeOK
  <2>2. CASE insertionOrder = << >>
    <3>1. /\ pc[w] = "dequeue"
          /\ Return(w, ValueOf(w)) /\ UNCHANGED <<store, insertionOrder, oldest, evicted>>
      BY <1>4, <2>2 DEF TrimDequeue
    <3>2. pc'[w] \in {"add", "done"} /\ \A x \in Writer \ {w} : pc'[x] = pc[x]
      BY <3>1, ValueType, ReturnType
    <3> QED
      BY <3>1, <3>2 DEF NoOverwriter, EveryKeyEvictable
  <2> QED
    BY <2>1, <2>2
<1>5. ASSUME NEW w \in Writer, TrimRemove(w) PROVE NoOverwriter' /\ EveryKeyEvictable'
  <2>1. DOMAIN store' = DOMAIN store \ {oldest[w]}
    BY <1>5 DEF TrimRemove
  <2> QED
    BY <1>5, <2>1 DEF TrimRemove, Goto, NoOverwriter, EveryKeyEvictable, TypeOK
<1>6. CASE UNCHANGED vars
  BY <1>6 DEF vars, NoOverwriter, EveryKeyEvictable
<1> QED
  BY <1>1, <1>2, <1>3, <1>4, <1>5, <1>6 DEF Next, Step, Quiescent, NoOverwriter, Overwrite

\* In the shipment book no key escapes eviction, however its concurrent inserts and
\* trims interleave (ShipmentBook.Create).
THEOREM NoKeyEscapes ==
    ASSUME Overwrites = FALSE
    PROVE  Spec => []EveryKeyEvictable
<1>1. Init => EvictionInvariant
  BY NumbersAssumption
  DEF Init, EvictionInvariant, TypeOK, Labels, NoOverwriter, EveryKeyEvictable
<1>2. EvictionInvariant /\ [Next]_vars => EvictionInvariant'
  BY EvictionStep
<1>3. EvictionInvariant => EveryKeyEvictable
  BY DEF EvictionInvariant
<1> QED
  BY <1>1, <1>2, <1>3, PTL DEF Spec

-----------------------------------------------------------------------------
Trimmers == {w \in Writer : Trimming(w)}

BoundInvariant ==
    EvictionInvariant /\ IsFiniteSet(DOMAIN store) /\ StoreBounded

\* When the queue is empty every stored key belongs to a thread that is about to
\* enqueue or to remove it, so there are no more keys than such threads.
LEMMA EmptyQueueBound ==
    ASSUME IsFiniteSet(Writer), TypeOK, EveryKeyEvictable, insertionOrder = << >>,
           NEW w \in Writer, pc[w] = "dequeue"
    PROVE  Cardinality(DOMAIN store) <= Cardinality(Trimmers \ {w})
<1> DEFINE key == [x \in Writer |-> IF pc[x] = "enqueue" THEN IdOf[x] ELSE oldest[x]]
           users == {x \in Writer : pc[x] \in {"enqueue", "remove"} /\ key[x] \in DOMAIN store}
           f == [x \in users |-> key[x]]
<1>1. \A id \in DOMAIN store : \E x \in users : f[x] = id
  <2> TAKE id \in DOMAIN store
  <2>1. id \notin Range(insertionOrder)
    BY DEF Range
  <2> QED
    BY <2>1 DEF EveryKeyEvictable
<1>2. f \in Surjection(users, DOMAIN store)
  BY <1>1 DEF Surjection
<1>3. users \subseteq Trimmers \ {w} /\ Trimmers \ {w} \subseteq Writer
  BY DEF Trimmers, Trimming
<1> HIDE DEF users, f
<1>4. /\ IsFiniteSet(users) /\ IsFiniteSet(Trimmers \ {w})
      /\ Cardinality(users) <= Cardinality(Trimmers \ {w})
  BY <1>3, FS_Subset
<1>5. Cardinality(DOMAIN store) <= Cardinality(users) /\ IsFiniteSet(DOMAIN store)
  BY <1>2, <1>4, FS_Surjection DEF ExistsSurjection
<1> QED
  BY <1>4, <1>5, FS_CardinalityType

LEMMA BoundStep ==
    Overwrites = FALSE /\ IsFiniteSet(Writer) /\ BoundInvariant /\ [Next]_vars
        => BoundInvariant'
<1> SUFFICES ASSUME Overwrites = FALSE, IsFiniteSet(Writer), BoundInvariant, [Next]_vars
             PROVE  IsFiniteSet(DOMAIN store)' /\ StoreBounded'
  BY EvictionStep DEF BoundInvariant
<1> USE DEF BoundInvariant, EvictionInvariant
<1>1. /\ IsFiniteSet(Trimmers) /\ IsFiniteSet(Trimmers')
      /\ Cardinality(Trimmers) \in Nat /\ Cardinality(Trimmers') \in Nat
      /\ Cardinality(DOMAIN store) \in Nat
      /\ Cardinality(DOMAIN store) <= Capacity + Cardinality(Trimmers)
  <2>1. Trimmers \subseteq Writer /\ Trimmers' \subseteq Writer
    BY DEF Trimmers
  <2> QED
    BY <2>1, FS_Subset, FS_CardinalityType DEF StoreBounded, Trimmers
<1>2. SUFFICES /\ IsFiniteSet(DOMAIN store')
               /\ Cardinality(DOMAIN store') <= Capacity + Cardinality(Trimmers')
  BY DEF StoreBounded, Trimmers
<1>3. ASSUME UNCHANGED store, Trimmers' = Trimmers
      PROVE  /\ IsFiniteSet(DOMAIN store')
             /\ Cardinality(DOMAIN store') <= Capacity + Cardinality(Trimmers')
  BY <1>1, <1>3
<1>4. ASSUME NEW w \in Writer, Add(w)
      PROVE  /\ IsFiniteSet(DOMAIN store')
             /\ Cardinality(DOMAIN store') <= Capacity + Cardinality(Trimmers')
  <2>1. CASE IdOf[w] \notin DOMAIN store
    <3>1. /\ DOMAIN store' = DOMAIN store \cup {IdOf[w]}
          /\ pc[w] = "add" /\ pc' = [pc EXCEPT ![w] = "enqueue"]
      BY <1>4, <2>1, PutType DEF Add, Goto
    <3>2. w \notin Trimmers /\ Trimmers' = Trimmers \cup {w}
      BY <3>1 DEF Trimmers, Trimming, TypeOK
    <3>3. /\ IsFiniteSet(DOMAIN store')
          /\ Cardinality(DOMAIN store') = Cardinality(DOMAIN store) + 1
      BY <2>1, <3>1, FS_AddElement
    <3>4. Cardinality(Trimmers') = Cardinality(Trimmers) + 1
      BY <1>1, <3>2, FS_AddElement
    <3> QED
      BY <1>1, <3>3, <3>4, NumbersAssumption
  <2>2. CASE IdOf[w] \in DOMAIN store
    <3>1. store[IdOf[w]] \in Value
      BY <2>2 DEF TypeOK
    <3>2. pc[w] = "add" /\ Return(w, store[IdOf[w]]) /\ UNCHANGED store
      BY <1>4, <2>2 DEF Add
    <3>3. pc'[w] \in {"add", "done"} /\ \A x \in Writer \ {w} : pc'[x] = pc[x]
      BY <3>1, <3>2, ReturnType
    <3>4. Trimmers' = Trimmers
      BY <3>2, <3>3 DEF Trimmers, Trimming
    <3> QED
      BY <1>3, <3>2, <3>4
  <2> QED
    BY <2>1, <2>2
<1>5. ASSUME NEW w \in Writer, Enqueue(w)
      PROVE  /\ IsFiniteSet(DOMAIN store')
             /\ Cardinality(DOMAIN store') <= Capacity + Cardinality(Trimmers')
  <2>1. UNCHANGED store /\ Trimmers' = Trimmers
    BY <1>5 DEF Enqueue, Goto, Trimmers, Trimming, TypeOK
  <2> QED
    BY <1>3, <2>1
<1>6. ASSUME NEW w \in Writer, TrimCount(w)
      PROVE  /\ IsFiniteSet(DOMAIN store')
             /\ Cardinality(DOMAIN store') <= Capacity + Cardinality(Trimmers')
  <2>1. CASE Cardinality(DOMAIN store) > Capacity /\ Goto(w, "dequeue")
    <3>1. UNCHANGED store /\ Trimmers' = Trimmers
      BY <1>6, <2>1 DEF TrimCount, Goto, Trimmers, Trimming, TypeOK
    <3> QED
      BY <1>3, <3>1
  <2>2. CASE Cardinality(DOMAIN store) <= Capacity
    <3>1. UNCHANGED store
      BY <1>6 DEF TrimCount
    <3> QED
      BY <1>1, <2>2, <3>1, NumbersAssumption
  <2> QED
    BY <1>6, <2>1, <2>2 DEF TrimCount
<1>7. ASSUME NEW w \in Writer, TrimDequeue(w)
      PROVE  /\ IsFiniteSet(DOMAIN store')
             /\ Cardinality(DOMAIN store') <= Capacity + Cardinality(Trimmers')
  <2>1. CASE insertionOrder # << >>
    <3>1. UNCHANGED store /\ Trimmers' = Trimmers
      BY <1>7, <2>1 DEF TrimDequeue, Goto, Trimmers, Trimming, TypeOK
    <3> QED
      BY <1>3, <3>1
  <2>2. CASE insertionOrder = << >>
    <3>1. pc[w] = "dequeue" /\ Return(w, ValueOf(w)) /\ UNCHANGED store
      BY <1>7, <2>2 DEF TrimDequeue
    <3>2. pc'[w] \in {"add", "done"} /\ \A x \in Writer \ {w} : pc'[x] = pc[x]
      BY <3>1, ValueType, ReturnType
    <3>3. Trimmers' = Trimmers \ {w}
      BY <3>1, <3>2 DEF Trimmers, Trimming
    <3>4. Cardinality(DOMAIN store) <= Cardinality(Trimmers \ {w})
      BY <2>2, <3>1, EmptyQueueBound
    <3>5. Cardinality(DOMAIN store') <= Cardinality(Trimmers')
      BY <3>1, <3>3, <3>4
    <3> QED
      BY <1>1, <3>1, <3>5, NumbersAssumption
  <2> QED
    BY <2>1, <2>2
<1>8. ASSUME NEW w \in Writer, TrimRemove(w)
      PROVE  /\ IsFiniteSet(DOMAIN store')
             /\ Cardinality(DOMAIN store') <= Capacity + Cardinality(Trimmers')
  <2>1. DOMAIN store' = DOMAIN store \ {oldest[w]} /\ Trimmers' = Trimmers
    BY <1>8 DEF TrimRemove, Goto, Trimmers, Trimming, TypeOK
  <2>2. /\ IsFiniteSet(DOMAIN store') /\ Cardinality(DOMAIN store') \in Nat
        /\ Cardinality(DOMAIN store') <= Cardinality(DOMAIN store)
    BY <2>1, FS_Subset, FS_CardinalityType
  <2> QED
    BY <1>1, <2>1, <2>2, NumbersAssumption
<1>9. CASE UNCHANGED vars
  <2>1. UNCHANGED store /\ Trimmers' = Trimmers
    BY <1>9 DEF vars, Trimmers, Trimming
  <2> QED
    BY <1>3, <2>1
<1> QED
  BY <1>4, <1>5, <1>6, <1>7, <1>8, <1>9 DEF Next, Step, Quiescent, NoOverwriter, Overwrite

\* The shipment book exceeds its capacity by at most the creations that are still
\* trimming, for any number of concurrent requests.
THEOREM Bounded ==
    ASSUME Overwrites = FALSE, IsFiniteSet(Writer)
    PROVE  Spec => []StoreBounded
<1>1. Init => BoundInvariant
  <2> SUFFICES ASSUME Init PROVE BoundInvariant
    OBVIOUS
  <2>1. EvictionInvariant
    BY NumbersAssumption
    DEF Init, EvictionInvariant, TypeOK, Labels, NoOverwriter, EveryKeyEvictable
  <2>2. IsFiniteSet(DOMAIN store) /\ Cardinality(DOMAIN store) = 0
    BY FS_EmptySet DEF Init
  <2>3. Cardinality({w \in Writer : Trimming(w)}) \in Nat
    BY FS_Subset, FS_CardinalityType
  <2> QED
    BY <2>1, <2>2, <2>3, NumbersAssumption DEF BoundInvariant, StoreBounded
<1>2. BoundInvariant /\ [Next]_vars => BoundInvariant'
  BY BoundStep
<1>3. BoundInvariant => StoreBounded
  BY DEF BoundInvariant
<1> QED
  BY <1>1, <1>2, <1>3, PTL DEF Spec

-----------------------------------------------------------------------------
\* What a return leaves of the writers: nth counts on only for another save.
LEMMA ReturnEffect ==
    ASSUME TypeOK, NEW w \in Writer, NEW v \in Value, Return(w, v)
    PROVE  /\ answer'[w] = v
           /\ pc'[w] = "done" => nth'[w] = nth[w]
           /\ \A x \in Writer \ {w} : pc'[x] = pc[x] /\ nth'[x] = nth[x] /\ answer'[x] = answer[x]
           /\ pc'[w] \in {"add", "done"}
<1>1. \A x \in Writer \ {w} : nth'[x] = nth[x] /\ answer'[x] = answer[x]
  BY DEF Return, TypeOK
<1>2. answer'[w] = v
  BY DEF Return, TypeOK
<1>3. pc'[w] = "done" => nth'[w] = nth[w]
  BY DEF Return, Goto, TypeOK
<1> QED
  BY <1>1, <1>2, <1>3, ReturnType

\* Where a value is put, and that it changes nothing else.
LEMMA PutEffect ==
    ASSUME TypeOK, NEW w \in Writer
    PROVE  LET s == Put(IdOf[w], ValueOf(w))
           IN  /\ s[IdOf[w]] = ValueOf(w)
               /\ \A id \in DOMAIN s \ {IdOf[w]} : id \in DOMAIN store /\ s[id] = store[id]
               /\ \A id \in DOMAIN store \ {IdOf[w]} : id \in DOMAIN s /\ s[id] = store[id]
BY DEF Put

\* One task runs each order.
OneWriterPerId == \A w, v \in Writer : IdOf[w] = IdOf[v] => w = v

\* Between the insertion or the overwriting and its next save, the store holds a
\* writer's latest snapshot or nothing for it.
Latest ==
    \A w \in Writer : (Trimming(w) \/ pc[w] = "done") /\ IdOf[w] \in DOMAIN store => store[IdOf[w]] = ValueOf(w)

LEMMA LatestStep ==
    Overwrites = TRUE /\ OneWriterPerId /\ TypeOK /\ Latest /\ [Next]_vars => Latest'
<1> SUFFICES ASSUME Overwrites = TRUE, OneWriterPerId, TypeOK, Latest, [Next]_vars PROVE Latest'
  OBVIOUS
\* The other writers, when w's step puts nothing but its own value into the store.
<1>1. ASSUME NEW w \in Writer, NEW x \in Writer \ {w}, pc'[x] = pc[x], nth'[x] = nth[x],
             IdOf[x] \in DOMAIN store' => IdOf[x] \in DOMAIN store /\ store'[IdOf[x]] = store[IdOf[x]]
      PROVE  (Trimming(x) \/ pc[x] = "done")' /\ IdOf[x] \in DOMAIN store' => store'[IdOf[x]] = ValueOf(x)'
  BY <1>1 DEF Latest, Trimming, ValueOf
<1>2. ASSUME NEW w \in Writer, Add(w) PROVE Latest'
  <2>1. CASE IdOf[w] \notin DOMAIN store
    <3>1. store' = Put(IdOf[w], ValueOf(w)) /\ UNCHANGED nth /\ pc' = [pc EXCEPT ![w] = "enqueue"]
      BY <1>2, <2>1 DEF Add, Goto
    <3>2. \A x \in Writer \ {w} : /\ pc'[x] = pc[x] /\ nth'[x] = nth[x]
                                  /\ IdOf[x] \in DOMAIN store' => IdOf[x] \in DOMAIN store /\ store'[IdOf[x]] = store[IdOf[x]]
      BY <3>1, PutEffect DEF OneWriterPerId, TypeOK
    <3>3. store'[IdOf[w]] = ValueOf(w)'
      BY <3>1, PutEffect DEF ValueOf
    <3> QED
      BY <1>1, <3>2, <3>3 DEF Latest
  <2>2. CASE IdOf[w] \in DOMAIN store
    BY <1>2, <2>2 DEF Add, Goto, Latest, Trimming, ValueOf, TypeOK
  <2> QED
    BY <2>1, <2>2
<1>3. ASSUME NEW w \in Writer, Overwrite(w) PROVE Latest'
  <2>1. store' = Put(IdOf[w], ValueOf(w)) /\ Return(w, ValueOf(w))
    BY <1>3 DEF Overwrite
  <2>2. pc'[w] \in {"add", "done"} /\ (pc'[w] = "done" => nth'[w] = nth[w])
    BY <2>1, ReturnEffect, ValueType
  <2>3. \A x \in Writer \ {w} : /\ pc'[x] = pc[x] /\ nth'[x] = nth[x]
                                /\ IdOf[x] \in DOMAIN store' => IdOf[x] \in DOMAIN store /\ store'[IdOf[x]] = store[IdOf[x]]
    BY <2>1, PutEffect, ReturnEffect, ValueType DEF OneWriterPerId
  <2>4. (Trimming(w) \/ pc[w] = "done")' => store'[IdOf[w]] = ValueOf(w)'
    BY <2>1, <2>2, PutEffect DEF ValueOf, Trimming
  <2> QED
    BY <1>1, <2>3, <2>4 DEF Latest
<1>4. ASSUME NEW w \in Writer, Trimming(w), \A id \in DOMAIN store' : id \in DOMAIN store /\ store'[id] = store[id],
             \/ Return(w, ValueOf(w))
             \/ UNCHANGED nth /\ \E label \in {"count", "dequeue", "remove"} : Goto(w, label)
      PROVE  Latest'
  <2>1. CASE Return(w, ValueOf(w))
    <3>1. pc'[w] = "done" => nth'[w] = nth[w]
      BY <2>1, ReturnEffect, ValueType
    <3>2. pc'[w] \in {"add", "done"} /\ \A x \in Writer \ {w} : pc'[x] = pc[x] /\ nth'[x] = nth[x]
      BY <2>1, ReturnEffect, ValueType
    <3> QED
      BY <1>1, <1>4, <3>1, <3>2 DEF Latest, Trimming, ValueOf
  <2>2. CASE UNCHANGED nth /\ \E label \in {"count", "dequeue", "remove"} : Goto(w, label)
    BY <1>4, <2>2 DEF Latest, Trimming, ValueOf, Goto, TypeOK
  <2> QED
    BY <1>4, <2>1, <2>2
<1>5. ASSUME NEW w \in Writer, Enqueue(w) \/ TrimCount(w) \/ TrimDequeue(w) PROVE Latest'
  BY <1>4, <1>5 DEF Enqueue, TrimCount, TrimDequeue, Trimming
<1>6. ASSUME NEW w \in Writer, TrimRemove(w) PROVE Latest'
  <2>1. \A id \in DOMAIN store' : id \in DOMAIN store /\ store'[id] = store[id]
    BY <1>6 DEF TrimRemove
  <2> QED
    BY <1>4, <1>6, <2>1 DEF TrimRemove, Trimming
<1>7. CASE UNCHANGED vars
  BY <1>7 DEF vars, Latest, Trimming, ValueOf
<1> QED
  BY <1>2, <1>3, <1>5, <1>6, <1>7 DEF Next, Step, Quiescent

\* In the order repository a finished order never reads back as an earlier snapshot,
\* however the saves and the evictions of other orders interleave with its own: the one
\* task that runs an order puts the final snapshot last (InMemoryOrderRepository.SaveAsync).
THEOREM FinalSnapshotWins ==
    ASSUME Overwrites = TRUE, OneWriterPerId
    PROVE  Spec => []LastSaveWins
<1>1. Init => TypeOK /\ Latest
  BY NumbersAssumption DEF Init, TypeOK, Labels, Latest, Trimming
<1>2. TypeOK /\ Latest /\ [Next]_vars => TypeOK' /\ Latest'
  BY TypeStep, LatestStep
<1>3. Latest => LastSaveWins
  BY DEF Latest, LastSaveWins
<1> QED
  BY <1>1, <1>2, <1>3, PTL DEF Spec

-----------------------------------------------------------------------------
\* A shipment that was not evicted is the one that was inserted: its creator's, while
\* that trims, and the answer of everyone who is done.
Inserted ==
    \A w \in Writer : IdOf[w] \notin evicted =>
        /\ Trimming(w) => IdOf[w] \in DOMAIN store /\ store[IdOf[w]] = ValueOf(w)
        /\ pc[w] = "done" => IdOf[w] \in DOMAIN store /\ store[IdOf[w]] = answer[w]

ShipmentInvariant == TypeOK /\ NoOverwriter /\ Inserted

LEMMA NoOverwriterStep ==
    Overwrites = FALSE /\ TypeOK /\ NoOverwriter /\ [Next]_vars => NoOverwriter'
<1> SUFFICES ASSUME Overwrites = FALSE, TypeOK, NoOverwriter, [Next]_vars PROVE NoOverwriter'
  OBVIOUS
<1>1. CASE UNCHANGED vars
  BY <1>1 DEF vars, NoOverwriter
<1>2. ASSUME NEW w \in Writer, Step(w) PROVE NoOverwriter'
  <2>1. \E label \in Labels \ {"overwrite"} : Goto(w, label)
    BY <1>2 DEF Step, Add, Overwrite, Enqueue, TrimCount, TrimDequeue, TrimRemove, Return, NoOverwriter, Labels
  <2> QED
    BY <2>1 DEF Goto, NoOverwriter, TypeOK
<1> QED
  BY <1>1, <1>2 DEF Next, Quiescent

LEMMA InsertedStep ==
    Overwrites = FALSE /\ ShipmentInvariant /\ [Next]_vars => Inserted'
<1> SUFFICES ASSUME Overwrites = FALSE, ShipmentInvariant, [Next]_vars PROVE Inserted'
  OBVIOUS
<1> USE DEF ShipmentInvariant
<1>1. ASSUME NEW w \in Writer, Add(w) PROVE Inserted'
  <2>1. CASE IdOf[w] \notin DOMAIN store
    <3>1. store' = Put(IdOf[w], ValueOf(w)) /\ UNCHANGED <<nth, answer, evicted>> /\ pc' = [pc EXCEPT ![w] = "enqueue"]
      BY <1>1, <2>1 DEF Add, Goto
    <3>2. store'[IdOf[w]] = ValueOf(w) /\ IdOf[w] \in DOMAIN store' /\ \A id \in DOMAIN store : id \in DOMAIN store' /\ store'[id] = store[id]
      BY <2>1, <3>1, PutType, PutEffect
    <3> QED
      BY <2>1, <3>1, <3>2 DEF Inserted, Trimming, ValueOf, TypeOK
  <2>2. CASE IdOf[w] \in DOMAIN store
    <3>1. store[IdOf[w]] \in Value /\ Return(w, store[IdOf[w]]) /\ UNCHANGED <<store, evicted>>
      BY <1>1, <2>2 DEF Add, TypeOK
    <3> QED
      BY <2>2, <3>1, ReturnEffect DEF Inserted, Trimming, ValueOf
  <2> QED
    BY <2>1, <2>2
<1>2. ASSUME NEW w \in Writer, Enqueue(w) \/ TrimCount(w) \/ TrimDequeue(w) PROVE Inserted'
  <2>1. Trimming(w) /\ UNCHANGED <<store, evicted>>
    BY <1>2 DEF Enqueue, TrimCount, TrimDequeue, Trimming
  <2>2. CASE Return(w, ValueOf(w))
    BY <2>1, <2>2, ReturnEffect, ValueType DEF Inserted, Trimming, ValueOf
  <2>3. CASE UNCHANGED <<nth, answer>> /\ \E label \in {"count", "dequeue", "remove"} : Goto(w, label)
    BY <2>1, <2>3 DEF Inserted, Trimming, ValueOf, Goto, TypeOK
  <2> QED
    BY <1>2, <2>2, <2>3 DEF Enqueue, TrimCount, TrimDequeue
<1>3. ASSUME NEW w \in Writer, TrimRemove(w) PROVE Inserted'
  <2>1. /\ \A id \in DOMAIN store : id \notin evicted' => id \in DOMAIN store' /\ store'[id] = store[id]
        /\ evicted \subseteq evicted'
    BY <1>3 DEF TrimRemove
  <2> QED
    BY <1>3, <2>1 DEF TrimRemove, Inserted, Trimming, ValueOf, Goto, TypeOK
<1>4. CASE UNCHANGED vars
  BY <1>4 DEF vars, Inserted, Trimming, ValueOf
<1> QED
  BY <1>1, <1>2, <1>3, <1>4 DEF Next, Step, Quiescent, NoOverwriter, Overwrite

\* However many requests race to create the shipment of an order, all are answered with
\* one shipment while it is not evicted (ShipmentBook.Create's GetOrAdd).
THEOREM OneShipment ==
    ASSUME Overwrites = FALSE
    PROVE  Spec => []SameShipment
<1>1. Init => ShipmentInvariant
  BY NumbersAssumption DEF Init, ShipmentInvariant, TypeOK, Labels, NoOverwriter, Inserted, Trimming
<1>2. ShipmentInvariant /\ [Next]_vars => ShipmentInvariant'
  BY TypeStep, NoOverwriterStep, InsertedStep DEF ShipmentInvariant
<1>3. ShipmentInvariant => SameShipment
  BY DEF ShipmentInvariant, Inserted, SameShipment
<1> QED
  BY <1>1, <1>2, <1>3, PTL DEF Spec
=============================================================================
