------------------------ MODULE PaymentServiceProofs ------------------------
(***************************************************************************)
(* Proofs about PaymentService for any number of handlers, keys, orders    *)
(* and requests.                                                           *)
(*                                                                         *)
(* Type correctness, NothingEscapes and Bounded hold of a store of any     *)
(* capacity. The theorems about charges and answers need that the keys in  *)
(* use fit the store (FitsCapacity): without it they are false, as the     *)
(* runs with a full store show.                                            *)
(***************************************************************************)
EXTENDS PaymentService, FiniteSetTheorems, TLAPS

-----------------------------------------------------------------------------
\* The fingerprint of a request in use is one of Prints.
LEMMA FingerprintType == \A b \in Body : Fingerprint(b) \in Prints
BY DEF Prints

\* IdempotencyRules.Decide replays a record exactly when it is completed and was
\* made for the same request.
LEMMA DecideReplay ==
    ASSUME NEW e \in IdempotencyRecord \cup {None}, NEW fp
    PROVE  Decide(e, fp) = "ReplayStored"
             <=> e # None /\ e.fingerprint = fp /\ e.status = "Completed"
BY NoneAssumption DEF Decide

\* A completed record carries a response.
LEMMA RecordShape ==
    ASSUME NEW e \in IdempotencyRecord
    PROVE  /\ e.fingerprint \in Prints
           /\ e.status \in {"InProgress", "Completed"}
           /\ e.status = "Completed" =>
                /\ e.response \in Response
                /\ e = [fingerprint |-> e.fingerprint, status |-> "Completed",
                        response |-> e.response]
           /\ e.status = "InProgress" =>
                e = [fingerprint |-> e.fingerprint, status |-> "InProgress"]
BY DEF IdempotencyRecord

\* Every step keeps the types.
LEMMA TypeStep == TypeOK /\ [Next]_vars => TypeOK'
<1> USE DEF At, Goto
<1> SUFFICES ASSUME TypeOK, [Next]_vars PROVE TypeOK'
  OBVIOUS
<1> USE DEF TypeOK, Steps
<1>1. CASE \E h \in Handler : \E k \in Key, b \in Body : TryAdd(h, k, b)
  <2> PICK h \in Handler, k \in Key, b \in Body : TryAdd(h, k, b)
    BY <1>1
  <2>1. [fingerprint |-> Fingerprint(b), status |-> "InProgress"] \in IdempotencyRecord
    BY FingerprintType DEF IdempotencyRecord
  <2>2. [key |-> k, body |-> b] # None
    BY NoneAssumption
  <2> QED
    BY <2>1, <2>2, BoundAssumption DEF TryAdd
<1>2. ASSUME NEW h \in Handler, Lookup(h) PROVE TypeOK'
  <2>1. req[h] \in [key : Key, body : Body]
    BY <1>2 DEF Lookup
  <2>2. answers' \subseteq Answer
    BY <1>2, <2>1, DecideReplay, RecordShape, FingerprintType DEF Lookup, Send, Answer
  <2> QED
    BY <1>2, <2>2 DEF Lookup, Return, storeVars, bankVars
<1>3. ASSUME NEW h \in Handler, Enqueue(h) PROVE TypeOK'
  BY <1>3 DEF Enqueue, bankVars
<1>4. ASSUME NEW h \in Handler, TrimCount(h) PROVE TypeOK'
  BY <1>4 DEF TrimCount, storeVars, bankVars
<1>5. ASSUME NEW h \in Handler, TrimDequeue(h) PROVE TypeOK'
  <2>1. CASE insertionOrder = << >>
    BY <1>5, <2>1 DEF TrimDequeue, bankVars
  <2>2. CASE insertionOrder # << >>
    <3>1. /\ Head(insertionOrder) \in Key \ {None}
          /\ Tail(insertionOrder) \in Seq(Key)
      BY <2>2, NoneAssumption
    <3> QED
      BY <1>5, <2>2, <3>1 DEF TrimDequeue, bankVars
  <2> QED
    BY <2>1, <2>2
<1>6. ASSUME NEW h \in Handler, TrimRemove(h) PROVE TypeOK'
  BY <1>6 DEF TrimRemove, bankVars
<1>7. ASSUME NEW h \in Handler, BeforeEffectFails(h) PROVE TypeOK'
  BY <1>7 DEF BeforeEffectFails, storeVars, bankVars
<1>8. ASSUME NEW h \in Handler, NEW i \in BOOLEAN, Decline(h, i) PROVE TypeOK'
  BY <1>8, NoneAssumption DEF Decline, Declined, Response, storeVars, bankVars
<1>9. ASSUME NEW h \in Handler, Authorize(h) PROVE TypeOK'
  <2>1. /\ req[h] \in [key : Key, body : Body]
        /\ req[h].body.order \in Order
    BY <1>9, BodyAssumption DEF Authorize
  <2>2. [id |-> issued, order |-> req[h].body.order, key |-> req[h].key,
         voided |-> FALSE] \in Authorization
    BY <2>1 DEF Authorization
  <2>3. Authorized(issued) \in Response \ {None}
    BY NoneAssumption DEF Authorized, Response
  <2>4. ledger' \subseteq Authorization
    BY <1>9, <2>2 DEF Authorize
  <2>5. /\ issued' \in Nat
        /\ made' \in [Handler -> Response \cup {None}]
        /\ pc' = [pc EXCEPT ![h] = "complete"]
        /\ made'[h] # None
        /\ \A g \in Handler \ {h} : made'[g] = made[g]
    BY <1>9, <2>3 DEF Authorize
  <2> QED
    BY <1>9, <2>4, <2>5 DEF Authorize, storeVars
<1>10. ASSUME NEW h \in Handler, Complete(h) PROVE TypeOK'
  <2>1. /\ req[h] \in [key : Key, body : Body]
        /\ made[h] \in Response
    BY <1>10 DEF Complete
  <2>2. ASSUME records[req[h].key] # None
        PROVE  [fingerprint |-> records[req[h].key].fingerprint,
                status |-> "Completed", response |-> made[h]] \in IdempotencyRecord
    BY <2>1, <2>2, RecordShape DEF IdempotencyRecord
  <2> QED
    BY <1>10, <2>1, <2>2 DEF Complete, bankVars
<1>11. ASSUME NEW h \in Handler, NEW d \in BOOLEAN, AfterEffect(h, d) PROVE TypeOK'
  <2>1. /\ req[h] \in [key : Key, body : Body]
        /\ made[h] \in Response
    BY <1>11 DEF AfterEffect
  <2>2. answers' \subseteq Answer
    BY <1>11, <2>1, FingerprintType DEF AfterEffect, Send, Answer
  <2> QED
    BY <1>11, <2>2 DEF AfterEffect, Return, storeVars, bankVars
<1>12. ASSUME NEW h \in Handler, Abandon(h) PROVE TypeOK'
  BY <1>12 DEF Abandon, Return, bankVars
<1>13. ASSUME NEW o \in Order, Void(o) PROVE TypeOK'
  <2>1. ASSUME NEW a \in ledger PROVE [a EXCEPT !.voided = TRUE] \in Authorization
    <3>1. a \in Authorization
      OBVIOUS
    <3> QED
      BY <3>1, Zenon DEF Authorization
  <2> QED
    BY <1>13, <2>1 DEF Void, storeVars
<1>14. CASE Restart
  BY <1>14, BoundAssumption DEF Restart
<1>15. CASE UNCHANGED vars
  BY <1>15 DEF vars
<1> QED
  BY <1>1, <1>2, <1>3, <1>4, <1>5, <1>6, <1>7, <1>8, <1>9, <1>10, <1>11, <1>12,
     <1>13, <1>14, <1>15 DEF Next, Continue

\* The types are those of the code in every reachable state: a handler never
\* completes without a response, never removes a key it has not dequeued.
THEOREM Typing == Spec => []TypeOK
<1>1. Init => TypeOK
  BY BoundAssumption DEF Init, TypeOK, Steps, At
<1> QED
  BY <1>1, TypeStep, PTL DEF Spec

-----------------------------------------------------------------------------
\* The keys in use fit the store, so Trim never evicts.
FitsCapacity == IsFiniteSet(Key) /\ Cardinality(Key) <= Capacity

\* records.Count never exceeds the number of keys.
LEMMA CountBound == FitsCapacity => ~(Count > Capacity)
<1> SUFFICES ASSUME FitsCapacity PROVE ~(Count > Capacity)
  OBVIOUS
<1>1. {k \in Key : records[k] # None} \subseteq Key
  OBVIOUS
<1>2. /\ Cardinality({k \in Key : records[k] # None}) <= Cardinality(Key)
      /\ Cardinality({k \in Key : records[k] # None}) \in Nat
      /\ Cardinality(Key) \in Nat
  BY <1>1, FS_Subset, FS_CardinalityType DEF FitsCapacity
<1> QED
  BY <1>2, BoundAssumption DEF FitsCapacity, Count

\* Every step of a service whose keys fit the store keeps the ownership
\* invariant: only the owner of a key writes its record or charges under it.
LEMMA OwnershipStep ==
    ASSUME FitsCapacity, OwnershipInvariant, [Next]_vars
    PROVE  OwnershipInvariant'
<1> USE DEF At, Goto, Owns
<1>t. TypeOK /\ TypeOK'
  BY TypeStep DEF OwnershipInvariant
<1>i. /\ OwnersHoldTheirRecords
      /\ LedgerIsAccountedFor
      /\ ResponsesAreTrue
      /\ AtMostOneAuthorization
  BY DEF OwnershipInvariant
<1> DEFINE Rest == /\ OwnersHoldTheirRecords
                   /\ LedgerIsAccountedFor
                   /\ ResponsesAreTrue
                   /\ AtMostOneAuthorization
<1>o1. \A g \in Handler : pc[g] \notin {"dequeue", "remove"}
  BY <1>i DEF OwnersHoldTheirRecords
<1>o2. \A g \in Handler : Owns(g) => records[req[g].key] =
         [fingerprint |-> Fingerprint(req[g].body), status |-> "InProgress"]
  BY <1>i DEF OwnersHoldTheirRecords
<1>o3. \A f, g \in Handler : Owns(f) /\ Owns(g) /\ req[f].key = req[g].key => f = g
  BY <1>i DEF OwnersHoldTheirRecords
<1>l1. \A a \in ledger : /\ records[a.key] # None
                         /\ a.order = records[a.key].fingerprint[1]
  BY <1>i DEF LedgerIsAccountedFor
<1>l2. \A a \in ledger :
         \/ /\ records[a.key].status = "Completed"
            /\ records[a.key].response = Authorized(a.id)
         \/ \E g \in Handler :
              pc[g] = "complete" /\ req[g].key = a.key /\ made[g] = Authorized(a.id)
  BY <1>i DEF LedgerIsAccountedFor
<1>r1. \A g \in Handler : pc[g] = "complete" => TrueOf(made[g], req[g].key)
  BY <1>i DEF ResponsesAreTrue
<1>r2. \A g \in Handler :
         Owns(g) /\ pc[g] # "complete" => \A a \in ledger : a.key # req[g].key
  BY <1>i DEF ResponsesAreTrue
<1>r3. \A g \in Handler : pc[g] = "after" => records[req[g].key] =
         [fingerprint |-> Fingerprint(req[g].body), status |-> "Completed",
          response |-> made[g]]
  BY <1>i DEF ResponsesAreTrue
<1>r4. \A c \in Key : records[c] # None /\ records[c].status = "Completed"
         => TrueOf(records[c].response, c)
  BY <1>i DEF ResponsesAreTrue
<1>r5. \A x \in answers : records[x.key] =
         [fingerprint |-> x.fingerprint, status |-> "Completed",
          response |-> x.response]
  BY <1>i DEF ResponsesAreTrue
<1>u. \A d, e \in ledger : d.key = e.key => d = e
  BY <1>i DEF AtMostOneAuthorization
<1>n. \A g \in Handler :
        /\ pc[g] # "idle" => req[g] \in [key : Key, body : Body]
        /\ Owns(g) => /\ records[req[g].key] # None
                      /\ records[req[g].key].status = "InProgress"
                      /\ records[req[g].key].fingerprint = Fingerprint(req[g].body)
        /\ At(g, "after") => /\ records[req[g].key] # None
                             /\ records[req[g].key].status = "Completed"
  <2> SUFFICES ASSUME NEW g \in Handler, pc[g] # "idle"
               PROVE  /\ req[g] \in [key : Key, body : Body]
                      /\ Owns(g) => /\ records[req[g].key] # None
                                    /\ records[req[g].key].status = "InProgress"
                                    /\ records[req[g].key].fingerprint
                                         = Fingerprint(req[g].body)
                      /\ At(g, "after") => /\ records[req[g].key] # None
                                           /\ records[req[g].key].status = "Completed"
    OBVIOUS
  <2>1. req[g] \in [key : Key, body : Body]
    BY <1>t DEF TypeOK
  <2>2. [fingerprint |-> Fingerprint(req[g].body), status |-> "InProgress"]
          \in IdempotencyRecord
    BY <2>1, FingerprintType DEF IdempotencyRecord
  <2>3. ASSUME At(g, "after")
        PROVE  [fingerprint |-> Fingerprint(req[g].body), status |-> "Completed",
                response |-> made[g]] \in IdempotencyRecord
    BY <2>1, <2>3, <1>t, FingerprintType DEF IdempotencyRecord, TypeOK
  <2> QED
    BY <2>1, <2>2, <2>3, <1>o2, <1>r3, NoneAssumption
<1>x. \A x \in answers : /\ x.key \in Key
                         /\ records[x.key] # None
                         /\ records[x.key].status = "Completed"
  <2> SUFFICES ASSUME NEW x \in answers
               PROVE  /\ x.key \in Key
                      /\ records[x.key] # None
                      /\ records[x.key].status = "Completed"
    OBVIOUS
  <2>1. x \in Answer
    BY <1>t DEF TypeOK
  <2>2. [fingerprint |-> x.fingerprint, status |-> "Completed",
         response |-> x.response] \in IdempotencyRecord
    BY <2>1 DEF Answer, IdempotencyRecord
  <2> QED
    BY <2>1, <2>2, <1>r5, NoneAssumption DEF Answer
<1>l. \A a \in ledger : a.key \in Key /\ a.id \in Nat
  BY <1>t DEF TypeOK, Authorization
<1>1. ASSUME NEW h \in Handler, NEW k \in Key, NEW b \in Body, TryAdd(h, k, b)
      PROVE  Rest'
  <2> DEFINE new == [fingerprint |-> Fingerprint(b), status |-> "InProgress"]
  <2>1. /\ pc[h] = "idle"
        /\ req' = [req EXCEPT ![h] = [key |-> k, body |-> b]]
        /\ ledger' = ledger /\ made' = made /\ answers' = answers
    BY <1>1 DEF TryAdd
  <2>2. /\ req'[h].key = k /\ req'[h].body = b
        /\ \A g \in Handler \ {h} : req'[g] = req[g]
    BY <2>1, <1>t DEF TypeOK
  <2>3. CASE records[k] # None
    <3>1. records' = records /\ pc' = [pc EXCEPT ![h] = "lookup"]
      BY <1>1, <2>3 DEF TryAdd
    <3>2. pc'[h] = "lookup" /\ \A g \in Handler \ {h} : pc'[g] = pc[g]
      BY <3>1, <1>t DEF TypeOK
    <3>3. OwnersHoldTheirRecords'
      BY <2>1, <2>2, <3>1, <3>2, <1>o1, <1>o2, <1>o3 DEF OwnersHoldTheirRecords
    <3>4. LedgerIsAccountedFor'
      BY <2>1, <2>2, <3>1, <3>2, <1>l1, <1>l2 DEF LedgerIsAccountedFor
    <3>5. ResponsesAreTrue'
      BY <2>1, <2>2, <3>1, <3>2, <1>r1, <1>r2, <1>r3, <1>r4, <1>r5
         DEF ResponsesAreTrue, TrueOf
    <3> QED
      BY <3>3, <3>4, <3>5, <2>1, <1>i DEF AtMostOneAuthorization
  <2>4. CASE records[k] = None
    <3>1. records' = [records EXCEPT ![k] = new] /\ pc' = [pc EXCEPT ![h] = "enqueue"]
      BY <1>1, <2>4 DEF TryAdd
    <3>2. pc'[h] = "enqueue" /\ \A g \in Handler \ {h} : pc'[g] = pc[g]
      BY <3>1, <1>t DEF TypeOK
    <3>3. records'[k] = new /\ \A c \in Key \ {k} : records'[c] = records[c]
      BY <3>1, <1>t DEF TypeOK
    <3>4. new.status = "InProgress"
      OBVIOUS
    <3>5. \A g \in Handler : Owns(g) \/ pc[g] = "after" => req[g].key \in Key \ {k}
      BY <2>4, <1>n
    <3>6. \A a \in ledger : a.key \in Key \ {k}
      BY <2>4, <1>l, <1>l1
    <3>7. \A x \in answers : x.key \in Key \ {k}
      BY <2>4, <1>x
    <3>8. OwnersHoldTheirRecords'
      <4>1. \A g \in Handler : pc'[g] \notin {"dequeue", "remove"}
        BY <3>2, <1>o1
      <4>2. \A g \in Handler : Owns(g)' => records'[req'[g].key] =
              [fingerprint |-> Fingerprint(req'[g].body), status |-> "InProgress"]
        BY <2>2, <3>2, <3>3, <3>5, <1>o2
      <4>3. \A f, g \in Handler :
              Owns(f)' /\ Owns(g)' /\ req'[f].key = req'[g].key => f = g
        BY <2>2, <3>2, <3>5, <1>o3
      <4> QED
        BY <4>1, <4>2, <4>3 DEF OwnersHoldTheirRecords
    <3> HIDE DEF new
    <3>9. LedgerIsAccountedFor'
      BY <2>1, <2>2, <3>2, <3>3, <3>6, <1>l1, <1>l2 DEF LedgerIsAccountedFor
    <3>10. ResponsesAreTrue'
      <4>1. \A g \in Handler : pc'[g] = "complete" => TrueOf(made[g], req[g].key)'
        BY <2>1, <2>2, <3>2, <1>r1 DEF TrueOf
      <4>2. \A g \in Handler : Owns(g)' /\ pc'[g] # "complete"
              => \A a \in ledger' : a.key # req'[g].key
        BY <2>1, <2>2, <3>2, <3>6, <1>r2
      <4>3. \A g \in Handler : pc'[g] = "after" => records'[req'[g].key] =
              [fingerprint |-> Fingerprint(req'[g].body), status |-> "Completed",
               response |-> made'[g]]
        BY <2>1, <2>2, <3>2, <3>3, <3>5, <1>r3
      <4>4. \A c \in Key : records'[c] # None /\ records'[c].status = "Completed"
              => TrueOf(records[c].response, c)'
        BY <2>1, <3>3, <3>4, <1>r4 DEF TrueOf
      <4>5. \A x \in answers' : records'[x.key] =
              [fingerprint |-> x.fingerprint, status |-> "Completed",
               response |-> x.response]
        BY <2>1, <3>3, <3>7, <1>r5
      <4> QED
        BY <4>1, <4>2, <4>3, <4>4, <4>5 DEF ResponsesAreTrue
    <3> QED
      BY <3>8, <3>9, <3>10, <2>1, <1>i DEF AtMostOneAuthorization
  <2> QED
    BY <2>3, <2>4
<1>2. ASSUME NEW h \in Handler, Lookup(h) PROVE Rest'
  BY <1>2, <1>t, <1>i, DecideReplay, RecordShape DEF Lookup, TypeOK, Send, Return, storeVars, bankVars,
         OwnersHoldTheirRecords, LedgerIsAccountedFor, ResponsesAreTrue, TrueOf,
         AtMostOneAuthorization
<1>3. ASSUME NEW h \in Handler, Enqueue(h) PROVE Rest'
  BY <1>3, <1>t, <1>i DEF Enqueue, bankVars, TypeOK,
         OwnersHoldTheirRecords, LedgerIsAccountedFor, ResponsesAreTrue, TrueOf,
         AtMostOneAuthorization
<1>4. ASSUME NEW h \in Handler, TrimCount(h) PROVE Rest'
  BY <1>4, <1>t, <1>i, CountBound DEF TrimCount, storeVars, bankVars, TypeOK,
         OwnersHoldTheirRecords, LedgerIsAccountedFor, ResponsesAreTrue, TrueOf,
         AtMostOneAuthorization
<1>5. ASSUME NEW h \in Handler, TrimDequeue(h) \/ TrimRemove(h) PROVE Rest'
  BY <1>5, <1>i DEF TrimDequeue, TrimRemove,
         OwnersHoldTheirRecords, LedgerIsAccountedFor, ResponsesAreTrue, TrueOf,
         AtMostOneAuthorization
<1>7. ASSUME NEW h \in Handler, BeforeEffectFails(h) PROVE Rest'
  BY <1>7, <1>t, <1>i DEF BeforeEffectFails, storeVars, bankVars, TypeOK,
         OwnersHoldTheirRecords, LedgerIsAccountedFor, ResponsesAreTrue, TrueOf,
         AtMostOneAuthorization
<1>8. ASSUME NEW h \in Handler, NEW i \in BOOLEAN, Decline(h, i) PROVE Rest'
  BY <1>8, <1>t, <1>i DEF Decline, Declined, Response, storeVars, bankVars, TypeOK,
         OwnersHoldTheirRecords, LedgerIsAccountedFor, ResponsesAreTrue, TrueOf,
         AtMostOneAuthorization
<1>9. ASSUME NEW h \in Handler, Authorize(h) PROVE Rest'
  <2> DEFINE k == req[h].key
             e == [id |-> issued, order |-> req[h].body.order, key |-> k,
                   voided |-> FALSE]
  <2>1. /\ ledger' = ledger \cup {e}
        /\ records' = records /\ req' = req /\ answers' = answers
        /\ pc[h] = "before" /\ pc'[h] = "complete"
        /\ made'[h] = Authorized(issued)
        /\ \A g \in Handler \ {h} : pc'[g] = pc[g] /\ made'[g] = made[g]
    BY <1>9, <1>t DEF Authorize, storeVars, TypeOK
  <2>2. e.id = issued /\ e.key = k /\ e.order = req[h].body.order
    OBVIOUS
  <2>3. \A a \in ledger : a.key # k
    BY <2>1, <1>r2
  <2>4. /\ records[k] # None
        /\ records[k].status = "InProgress"
        /\ records[k].fingerprint = Fingerprint(req[h].body)
    BY <2>1, <1>o2, <1>n
  <2>5. Fingerprint(req[h].body)[1] = req[h].body.order
    BY DEF Fingerprint
  <2>6. Authorized(issued).code = 201 /\ Authorized(issued).id = issued
    BY DEF Authorized
  <2> HIDE DEF e
  <2>7. OwnersHoldTheirRecords'
    BY <2>1, <1>o1, <1>o2, <1>o3 DEF OwnersHoldTheirRecords
  <2>8. LedgerIsAccountedFor'
    <3>1. \A a \in ledger' : /\ records'[a.key] # None
                              /\ a.order = records'[a.key].fingerprint[1]
      BY <2>1, <2>2, <2>4, <2>5, <1>l1
    <3>2. ASSUME NEW a \in ledger'
          PROVE  \/ /\ records'[a.key].status = "Completed"
                    /\ records'[a.key].response = Authorized(a.id)
                 \/ \E g \in Handler : /\ pc'[g] = "complete" /\ req'[g].key = a.key
                                        /\ made'[g] = Authorized(a.id)
      <4>1. CASE a = e
        BY <4>1, <2>1, <2>2
      <4>2. CASE a \in ledger
        BY <4>2, <2>1, <1>l2
      <4> QED
        BY <4>1, <4>2, <2>1
    <3> QED
      BY <3>1, <3>2 DEF LedgerIsAccountedFor
  <2>9. ResponsesAreTrue'
    <3>1. ASSUME NEW g \in Handler, pc'[g] = "complete"
          PROVE  TrueOf(made[g], req[g].key)'
      <4>1. CASE g = h
        BY <4>1, <2>1, <2>2, <2>6 DEF TrueOf
      <4>2. CASE g # h
        <5>1. pc[g] = "complete" /\ made'[g] = made[g]
          BY <4>2, <3>1, <2>1
        <5>2. req[g].key # k
          BY <4>2, <5>1, <2>1, <1>o3
        <5> QED
          BY <5>1, <5>2, <2>1, <2>2, <1>r1 DEF TrueOf
      <4> QED
        BY <4>1, <4>2
    <3>2. \A g \in Handler : Owns(g)' /\ pc'[g] # "complete"
            => \A a \in ledger' : a.key # req'[g].key
      BY <2>1, <2>2, <1>r2, <1>o3
    <3>3. \A g \in Handler : pc'[g] = "after" => records'[req'[g].key] =
            [fingerprint |-> Fingerprint(req'[g].body), status |-> "Completed",
             response |-> made'[g]]
      BY <2>1, <1>r3
    <3>4. \A c \in Key : records'[c] # None /\ records'[c].status = "Completed"
            => TrueOf(records[c].response, c)'
      BY <2>1, <2>2, <2>4, <1>r4 DEF TrueOf
    <3> QED
      BY <3>1, <3>2, <3>3, <3>4, <2>1, <1>r5 DEF ResponsesAreTrue
  <2>10. AtMostOneAuthorization'
    BY <2>1, <2>2, <2>3, <1>u DEF AtMostOneAuthorization
  <2> QED
    BY <2>7, <2>8, <2>9, <2>10
<1>10. ASSUME NEW h \in Handler, Complete(h) PROVE Rest'
  <2> DEFINE k == req[h].key
             done == [fingerprint |-> Fingerprint(req[h].body),
                      status |-> "Completed", response |-> made[h]]
  <2>1. pc[h] = "complete"
    BY <1>10 DEF Complete
  <2>2. /\ k \in Key
        /\ records[k] # None
        /\ records[k].status = "InProgress"
        /\ records[k].fingerprint = Fingerprint(req[h].body)
    BY <2>1, <1>n, <1>o2
  <2>3. /\ records' = [records EXCEPT ![k] = done]
        /\ pc' = [pc EXCEPT ![h] = "after"]
        /\ ledger' = ledger /\ req' = req /\ made' = made /\ answers' = answers
    BY <1>10, <2>2 DEF Complete, bankVars
  <2>4. /\ pc'[h] = "after" /\ \A g \in Handler \ {h} : pc'[g] = pc[g]
        /\ records'[k] = done
        /\ \A c \in Key \ {k} : records'[c] = records[c]
    BY <2>2, <2>3, <1>t DEF TypeOK
  <2>5. done # None
    <3>1. made[h] \in Response /\ req[h].body \in Body
      BY <2>1, <1>t, <1>n DEF TypeOK
    <3>2. done \in IdempotencyRecord
      BY <3>1, FingerprintType DEF IdempotencyRecord
    <3> QED
      BY <3>2, NoneAssumption
  <2>6. /\ done.status = "Completed" /\ done.response = made[h]
        /\ done.fingerprint = records[k].fingerprint
    BY <2>2
  <2>7. \A g \in Handler \ {h} : Owns(g) \/ pc[g] = "after" => req[g].key \in Key \ {k}
    BY <2>1, <2>2, <1>o3, <1>n
  <2>8. \A x \in answers : x.key \in Key \ {k}
    BY <2>2, <1>x
  <2> HIDE DEF done
  <2>9. OwnersHoldTheirRecords'
    BY <2>3, <2>4, <2>7, <1>o1, <1>o2, <1>o3 DEF OwnersHoldTheirRecords
  <2>10. LedgerIsAccountedFor'
    <3>1. \A a \in ledger' : /\ records'[a.key] # None
                              /\ a.order = records'[a.key].fingerprint[1]
      BY <2>3, <2>4, <2>5, <2>6, <1>l, <1>l1
    <3>2. ASSUME NEW a \in ledger
          PROVE  \/ /\ records'[a.key].status = "Completed"
                    /\ records'[a.key].response = Authorized(a.id)
                 \/ \E g \in Handler : /\ pc'[g] = "complete" /\ req'[g].key = a.key
                                        /\ made'[g] = Authorized(a.id)
      <4>1. CASE a.key = k
        <5>1. made[h] = Authorized(a.id)
          BY <4>1, <2>1, <2>2, <1>l2, <1>o3
        <5> QED
          BY <4>1, <5>1, <2>4, <2>6
      <4>2. CASE a.key # k
        BY <4>2, <2>3, <2>4, <1>l, <1>l2
      <4> QED
        BY <4>1, <4>2
    <3> QED
      BY <3>1, <3>2, <2>3 DEF LedgerIsAccountedFor
  <2>11. ResponsesAreTrue'
    <3>1. \A g \in Handler : pc'[g] = "complete" => TrueOf(made[g], req[g].key)'
      BY <2>3, <2>4, <1>r1 DEF TrueOf
    <3>2. \A g \in Handler : Owns(g)' /\ pc'[g] # "complete"
            => \A a \in ledger' : a.key # req'[g].key
      BY <2>3, <2>4, <1>r2
    <3>3. \A g \in Handler : pc'[g] = "after" => records'[req'[g].key] =
            [fingerprint |-> Fingerprint(req'[g].body), status |-> "Completed",
             response |-> made'[g]]
      BY <2>3, <2>4, <2>7, <1>r3 DEF done
    <3>4. \A c \in Key : records'[c] # None /\ records'[c].status = "Completed"
            => TrueOf(records[c].response, c)'
      BY <2>1, <2>3, <2>4, <2>6, <1>r1, <1>r4 DEF TrueOf
    <3>5. \A x \in answers' : records'[x.key] =
            [fingerprint |-> x.fingerprint, status |-> "Completed",
             response |-> x.response]
      BY <2>3, <2>4, <2>8, <1>r5
    <3> QED
      BY <3>1, <3>2, <3>3, <3>4, <3>5 DEF ResponsesAreTrue
  <2> QED
    BY <2>3, <2>9, <2>10, <2>11, <1>i DEF AtMostOneAuthorization
<1>11. ASSUME NEW h \in Handler, NEW d \in BOOLEAN, AfterEffect(h, d) PROVE Rest'
  BY <1>11, <1>t, <1>i DEF AfterEffect, Send, Return, storeVars, bankVars, TypeOK,
         OwnersHoldTheirRecords, LedgerIsAccountedFor, ResponsesAreTrue, TrueOf,
         AtMostOneAuthorization
<1>12. ASSUME NEW h \in Handler, Abandon(h) PROVE Rest'
  <2> DEFINE k == req[h].key
  <2>1. pc[h] = "abandon" /\ k \in Key
    BY <1>12, <1>n DEF Abandon
  <2>2. /\ records' = [records EXCEPT ![k] = None]
        /\ pc' = [pc EXCEPT ![h] = "idle"]
        /\ req' = [req EXCEPT ![h] = None]
        /\ made' = [made EXCEPT ![h] = None]
        /\ ledger' = ledger /\ answers' = answers
    BY <1>12 DEF Abandon, Return, bankVars
  <2>3. /\ pc'[h] = "idle"
        /\ \A g \in Handler \ {h} : pc'[g] = pc[g] /\ req'[g] = req[g] /\ made'[g] = made[g]
        /\ records'[k] = None
        /\ \A c \in Key \ {k} : records'[c] = records[c]
    BY <2>1, <2>2, <1>t DEF TypeOK
  <2>4. \A g \in Handler \ {h} : Owns(g) \/ pc[g] = "after" => req[g].key \in Key \ {k}
    BY <2>1, <1>o3, <1>n
  <2>5. \A a \in ledger : a.key \in Key \ {k}
    BY <2>1, <1>r2, <1>l
  <2>6. \A x \in answers : x.key \in Key \ {k}
    BY <2>1, <1>x, <1>n
  <2>7. OwnersHoldTheirRecords'
    BY <2>3, <2>4, <1>o1, <1>o2, <1>o3 DEF OwnersHoldTheirRecords
  <2>8. LedgerIsAccountedFor'
    <3>1. \A a \in ledger : records'[a.key] = records[a.key]
      BY <2>3, <2>5
    <3>2. \A g \in Handler : pc[g] = "complete" => g # h
      BY <2>1
    <3> QED
      BY <3>1, <3>2, <2>2, <2>3, <1>l1, <1>l2 DEF LedgerIsAccountedFor
  <2>9. ResponsesAreTrue'
    <3>1. \A g \in Handler : pc'[g] = "complete" => TrueOf(made[g], req[g].key)'
      BY <2>2, <2>3, <1>r1 DEF TrueOf
    <3>2. \A g \in Handler : Owns(g)' /\ pc'[g] # "complete"
            => \A a \in ledger' : a.key # req'[g].key
      BY <2>2, <2>3, <1>r2
    <3>3. \A g \in Handler : pc'[g] = "after" => records'[req'[g].key] =
            [fingerprint |-> Fingerprint(req'[g].body), status |-> "Completed",
             response |-> made'[g]]
      BY <2>3, <2>4, <1>r3
    <3>4. \A c \in Key : records'[c] # None /\ records'[c].status = "Completed"
            => TrueOf(records[c].response, c)'
      BY <2>2, <2>3, <1>r4 DEF TrueOf
    <3>5. \A x \in answers' : records'[x.key] =
            [fingerprint |-> x.fingerprint, status |-> "Completed",
             response |-> x.response]
      BY <2>2, <2>3, <2>6, <1>r5
    <3> QED
      BY <3>1, <3>2, <3>3, <3>4, <3>5 DEF ResponsesAreTrue
  <2> QED
    BY <2>2, <2>7, <2>8, <2>9, <1>i DEF AtMostOneAuthorization
<1>13. ASSUME NEW o \in Order, Void(o) PROVE Rest'
  <2> DEFINE V(a) == IF a.order = o THEN [a EXCEPT !.voided = TRUE] ELSE a
  <2>1. ledger' = {V(a) : a \in ledger}
    BY <1>13 DEF Void
  <2>2. \A a \in ledger : V(a).id = a.id /\ V(a).key = a.key /\ V(a).order = a.order
    BY <1>t DEF TypeOK, Authorization
  <2> HIDE DEF V
  <2>3. OwnersHoldTheirRecords'
    BY <1>13, <1>i DEF Void, storeVars, OwnersHoldTheirRecords
  <2>4. LedgerIsAccountedFor'
    BY <1>13, <2>1, <2>2, <1>i DEF Void, storeVars, LedgerIsAccountedFor
  <2>5. ResponsesAreTrue'
    BY <1>13, <2>1, <2>2, <1>i DEF Void, storeVars, ResponsesAreTrue, TrueOf
  <2>6. AtMostOneAuthorization'
    BY <2>1, <2>2, <1>u DEF AtMostOneAuthorization
  <2> QED
    BY <2>3, <2>4, <2>5, <2>6
<1>14. CASE Restart
  BY <1>14, <1>t DEF Restart, TypeOK, OwnershipInvariant,
         OwnersHoldTheirRecords, LedgerIsAccountedFor, ResponsesAreTrue, TrueOf,
         AtMostOneAuthorization
<1>15. CASE UNCHANGED vars
  BY <1>15, <1>t, <1>i DEF vars, OwnershipInvariant,
         OwnersHoldTheirRecords, LedgerIsAccountedFor, ResponsesAreTrue, TrueOf,
         AtMostOneAuthorization
<1> QED
  BY <1>t, <1>1, <1>2, <1>3, <1>4, <1>5, <1>7, <1>8, <1>9, <1>10, <1>11, <1>12,
     <1>13, <1>14, <1>15 DEF Next, Continue, OwnershipInvariant

\* The ownership invariant holds in every reachable state.
THEOREM Ownership ==
    ASSUME FitsCapacity
    PROVE  Spec => []OwnershipInvariant
<1>1. Init => OwnershipInvariant
  <2> SUFFICES ASSUME Init PROVE OwnershipInvariant
    OBVIOUS
  <2>1. TypeOK
    BY BoundAssumption DEF Init, TypeOK, Steps, At
  <2> QED
    BY <2>1 DEF Init, OwnershipInvariant, OwnersHoldTheirRecords, LedgerIsAccountedFor,
        ResponsesAreTrue, AtMostOneAuthorization, Owns, At
<1>2. OwnershipInvariant /\ [Next]_vars => OwnershipInvariant'
  BY OwnershipStep
<1> QED
  BY <1>1, <1>2, PTL DEF Spec

\* However requests race, fail, time out and are retried, the ledger never holds
\* two authorizations made under one Idempotency-Key.
THEOREM NoDoubleAuthorization ==
    ASSUME FitsCapacity
    PROVE  Spec => []AtMostOneAuthorization
<1>1. OwnershipInvariant => AtMostOneAuthorization
  BY DEF OwnershipInvariant
<1> QED
  BY <1>1, Ownership, PTL

\* The finally block of AuthorizeAsync never forgets a key that was charged.
THEOREM AbandonIsSafe ==
    ASSUME FitsCapacity
    PROVE  Spec => []AbandonMeansNothingCharged
<1>1. OwnershipInvariant => AbandonMeansNothingCharged
  BY DEF OwnershipInvariant, ResponsesAreTrue, AbandonMeansNothingCharged, Owns, At
<1> QED
  BY <1>1, Ownership, PTL

\* Every 201 or decline sent for a key is the same one.
THEOREM ReplaysAgree ==
    ASSUME FitsCapacity
    PROVE  Spec => []AnswersAgree
<1>1. OwnershipInvariant => AnswersAgree
  <2> SUFFICES ASSUME OwnershipInvariant, NEW x \in answers, NEW y \in answers,
                      x.key = y.key
               PROVE  x = y
    BY DEF AnswersAgree
  <2>1. x \in Answer /\ y \in Answer
    BY DEF OwnershipInvariant, TypeOK
  <2> DEFINE Done(z) == [fingerprint |-> z.fingerprint, status |-> "Completed",
                         response |-> z.response]
  <2>2. Done(x) = Done(y)
    BY DEF OwnershipInvariant, ResponsesAreTrue
  <2>3. x.fingerprint = y.fingerprint /\ x.response = y.response
    <3>1. /\ Done(x).fingerprint = x.fingerprint /\ Done(x).response = x.response
          /\ Done(y).fingerprint = y.fingerprint /\ Done(y).response = y.response
      OBVIOUS
    <3> HIDE DEF Done
    <3> QED
      BY <2>2, <3>1
  <2> QED
    BY <2>1, <2>3 DEF Answer
<1> QED
  BY <1>1, Ownership, PTL

\* A 201 names a ledger entry of that order, and a declined key has none.
THEOREM AnswersTrue ==
    ASSUME FitsCapacity
    PROVE  Spec => []AnswersAreTrue
<1>1. OwnershipInvariant => AnswersAreTrue
  <2> SUFFICES ASSUME OwnershipInvariant, NEW x \in answers
               PROVE  IF x.response.code = 201
                      THEN \E a \in ledger : /\ a.id = x.response.id
                                             /\ a.key = x.key
                                             /\ a.order = x.fingerprint[1]
                      ELSE \A a \in ledger : a.key # x.key
    BY DEF AnswersAreTrue
  <2>1. x \in Answer
    BY DEF OwnershipInvariant, TypeOK
  <2>2. records[x.key] = [fingerprint |-> x.fingerprint, status |-> "Completed",
                          response |-> x.response]
    BY DEF OwnershipInvariant, ResponsesAreTrue
  <2>3. /\ records[x.key] # None /\ x.key \in Key
        /\ records[x.key].status = "Completed"
        /\ records[x.key].response = x.response
        /\ records[x.key].fingerprint = x.fingerprint
    BY <2>1, <2>2, NoneAssumption DEF Answer, IdempotencyRecord
  <2>4. TrueOf(x.response, x.key)
    BY <2>3 DEF OwnershipInvariant, ResponsesAreTrue
  <2>5. \A a \in ledger : a.key = x.key => a.order = x.fingerprint[1]
    BY <2>3 DEF OwnershipInvariant, LedgerIsAccountedFor
  <2> QED
    BY <2>4, <2>5 DEF TrueOf
<1> QED
  BY <1>1, Ownership, PTL

-----------------------------------------------------------------------------
(* Refinement.  A key is settled when its ledger entry is written or, for a   *)
(* decline, when its record is completed.                                      *)

\* What the refinement mapping makes of a key, under the invariant.
LEMMA OutcomeOf ==
    ASSUME OwnershipInvariant, NEW k \in Key
    PROVE  /\ records[k] = None => Outcome(k) = {}
           /\ records[k] # None /\ records[k].status = "Completed"
                => Outcome(k) = {[fingerprint |-> records[k].fingerprint,
                                  response |-> records[k].response]}
           /\ records[k] # None /\ records[k].status = "InProgress"
                => Outcome(k) = {[fingerprint |-> records[k].fingerprint,
                                  response |-> Authorized(a.id)] :
                                     a \in {e \in ledger : e.key = k}}
<1> DEFINE Entries == {e \in ledger : e.key = k}
           Stored == {s \in {records[k]} : s # None /\ s.status = "Completed"}
<1>1. \A a \in Entries :
        /\ records[k] # None
        /\ records[k].status = "Completed" => records[k].response = Authorized(a.id)
  <2> SUFFICES ASSUME NEW a \in Entries
               PROVE  /\ records[k] # None
                      /\ records[k].status = "Completed"
                           => records[k].response = Authorized(a.id)
    OBVIOUS
  <2>1. /\ records[k] # None
        /\ \/ records[k].response = Authorized(a.id)
           \/ \E h \in Handler : At(h, "complete") /\ req[h].key = k
    BY DEF OwnershipInvariant, LedgerIsAccountedFor
  <2>2. ASSUME NEW h \in Handler, At(h, "complete"), req[h].key = k
        PROVE  records[k].status = "InProgress"
    <3>1. records[k] = [fingerprint |-> Fingerprint(req[h].body), status |-> "InProgress"]
      BY <2>2 DEF OwnershipInvariant, OwnersHoldTheirRecords, Owns, At
    <3> QED
      BY <3>1
  <2> QED
    BY <2>1, <2>2
<1>2. CASE records[k] = None
  <2>1. Entries = {} /\ Stored = {}
    BY <1>1, <1>2
  <2> QED
    BY <1>2, <2>1 DEF Outcome
<1>3. CASE records[k] # None /\ records[k].status = "Completed"
  <2>1. Stored = {records[k]}
    BY <1>3
  <2> QED
    BY <1>1, <1>3, <2>1 DEF Outcome
<1>4. CASE records[k] # None /\ records[k].status = "InProgress"
  <2>1. Stored = {}
    BY <1>4
  <2> QED
    BY <1>4, <2>1 DEF Outcome
<1> QED
  BY <1>2, <1>3, <1>4, RecordShape

\* Every step of the service is a step of the abstract service or a stutter.
LEMMA RefinementStep ==
    ASSUME FitsCapacity, OwnershipInvariant, OwnershipInvariant', [Next]_vars
    PROVE  [Abs!AbsNext]_(Abs!absVars)
<1> USE DEF At, Goto
<1>t. TypeOK /\ TypeOK'
  BY DEF OwnershipInvariant
<1>o. \A h \in Handler : /\ pc[h] # "idle" => req[h] \in [key : Key, body : Body]
                         /\ pc[h] \notin {"dequeue", "remove"}
  BY <1>t DEF TypeOK, OwnershipInvariant, OwnersHoldTheirRecords
<1>m. \A k \in Key : [c \in Key |-> Outcome(c)][k] = Outcome(k)
  OBVIOUS
<1>same. ASSUME NEW k \in Key, records'[k] = records[k], ledger' = ledger
         PROVE  Outcome(k)' = Outcome(k)
  BY <1>same DEF Outcome
<1>quiet. ASSUME \A k \in Key : Outcome(k)' = Outcome(k),
                 ledger' = ledger, issued' = issued
          PROVE  UNCHANGED <<[k \in Key |-> Outcome(k)], ledger, issued>>
  BY <1>quiet
<1>1. ASSUME NEW h \in Handler, NEW k \in Key, NEW b \in Body, TryAdd(h, k, b)
      PROVE  UNCHANGED Abs!absVars
  <2>1. ledger' = ledger /\ issued' = issued /\ answers' = answers
    BY <1>1 DEF TryAdd
  <2>2. CASE records[k] # None
    <3>1. records' = records
      BY <1>1, <2>2 DEF TryAdd
    <3> QED
      BY <3>1, <2>1, <1>same, <1>quiet DEF Abs!absVars
  <2>3. CASE records[k] = None
    <3> DEFINE new == [fingerprint |-> Fingerprint(b), status |-> "InProgress"]
    <3>1. records' = [records EXCEPT ![k] = new]
      BY <1>1, <2>3 DEF TryAdd
    <3>2. records'[k] = new /\ \A c \in Key \ {k} : records'[c] = records[c]
      BY <3>1, <1>t DEF TypeOK
    <3>3. \A a \in ledger : a.key # k
      BY <2>3 DEF OwnershipInvariant, LedgerIsAccountedFor
    <3>4. Outcome(k) = {} /\ Outcome(k)' = {}
      BY <2>1, <2>3, <3>2, <3>3 DEF Outcome
    <3> QED
      BY <3>2, <3>4, <2>1, <1>same, <1>quiet DEF Abs!absVars
  <2> QED
    BY <2>2, <2>3
<1>2. ASSUME NEW h \in Handler,
             Enqueue(h) \/ TrimCount(h) \/ TrimDequeue(h) \/ BeforeEffectFails(h)
               \/ \E i \in BOOLEAN : Decline(h, i)
      PROVE  UNCHANGED Abs!absVars
  <2>1. /\ records' = records /\ ledger' = ledger
        /\ issued' = issued /\ answers' = answers
    BY <1>2 DEF Enqueue, TrimCount, TrimDequeue, BeforeEffectFails, Decline,
         storeVars, bankVars
  <2> QED
    BY <2>1, <1>same, <1>quiet DEF Abs!absVars
<1>3. ASSUME NEW h \in Handler, TrimRemove(h) PROVE FALSE
  BY <1>3, <1>o DEF TrimRemove
<1>4. ASSUME NEW h \in Handler, Lookup(h) PROVE [Abs!AbsNext]_(Abs!absVars)
  <2> DEFINE k == req[h].key
             e == records[k]
  <2>1. /\ records' = records /\ ledger' = ledger /\ issued' = issued
        /\ pc[h] = "lookup"
    BY <1>4 DEF Lookup, storeVars, bankVars
  <2>2. k \in Key /\ e \in IdempotencyRecord \cup {None}
    BY <2>1, <1>o, <1>t DEF TypeOK
  <2>3. UNCHANGED <<[c \in Key |-> Outcome(c)], ledger, issued>>
    BY <2>1, <1>same, <1>quiet
  <2>4. CASE Decide(e, Fingerprint(req[h].body)) = "ReplayStored"
    <3>1. /\ e # None /\ e.fingerprint = Fingerprint(req[h].body)
          /\ e.status = "Completed"
      BY <2>2, <2>4, DecideReplay
    <3>2. answers' = answers \cup {[key |-> k, fingerprint |-> e.fingerprint,
                                   response |-> e.response]}
      BY <1>4, <2>4, <3>1 DEF Lookup, Send
    <3>3. Outcome(k) = {[fingerprint |-> e.fingerprint, response |-> e.response]}
      BY <2>2, <3>1, OutcomeOf
    <3>4. Abs!Reply(k)
      BY <2>2, <2>3, <3>2, <3>3, <1>m DEF Abs!Reply
    <3> QED
      BY <2>2, <3>4 DEF Abs!AbsNext
  <2>5. CASE Decide(e, Fingerprint(req[h].body)) # "ReplayStored"
    <3>1. answers' = answers
      BY <1>4, <2>5 DEF Lookup
    <3> QED
      BY <3>1, <2>3 DEF Abs!absVars
  <2> QED
    BY <2>4, <2>5
<1>5. ASSUME NEW h \in Handler, Authorize(h) PROVE Abs!AbsNext
  <2>k. PICK k \in Key : k = req[h].key
    BY <1>5, <1>o DEF Authorize
  <2>f. PICK fp \in Prints : fp = Fingerprint(req[h].body)
    BY <1>5, <1>o, FingerprintType DEF Authorize
  <2> DEFINE e == [id |-> issued, order |-> fp[1], key |-> k, voided |-> FALSE]
  <2>1. /\ records' = records /\ answers' = answers /\ issued' = issued + 1
        /\ pc[h] = "before"
        /\ ledger' = ledger \cup {e}
    BY <1>5, <2>k, <2>f DEF Authorize, storeVars, Fingerprint
  <2>3. records[k] = [fingerprint |-> fp, status |-> "InProgress"]
    BY <2>1, <2>k, <2>f DEF OwnershipInvariant, OwnersHoldTheirRecords, Owns
  <2>4. /\ records[k] # None /\ records[k].status = "InProgress"
        /\ records[k].fingerprint = fp
    BY <2>3, NoneAssumption DEF IdempotencyRecord
  <2>5. \A a \in ledger : a.key # k
    BY <2>1, <2>k DEF OwnershipInvariant, ResponsesAreTrue, Owns
  <2>6. e.key = k /\ e.id = issued
    OBVIOUS
  <2> HIDE DEF e
  <2>7. Outcome(k) = {}
    BY <2>4, <2>5 DEF Outcome
  <2>8. Outcome(k)' = {[fingerprint |-> fp, response |-> [code |-> 201, id |-> issued]]}
    <3>1. {a \in ledger' : a.key = k} = {e}
      BY <2>1, <2>5, <2>6
    <3>2. {s \in {records'[k]} : s # None /\ s.status = "Completed"} = {}
      BY <2>1, <2>4
    <3> QED
      BY <3>1, <3>2, <2>1, <2>4, <2>6 DEF Outcome, Authorized
  <2>9. \A c \in Key \ {k} : Outcome(c)' = Outcome(c)
    <3> SUFFICES ASSUME NEW c \in Key \ {k} PROVE Outcome(c)' = Outcome(c)
      OBVIOUS
    <3>1. {a \in ledger' : a.key = c} = {a \in ledger : a.key = c}
      BY <2>1, <2>6
    <3> QED
      BY <3>1, <2>1 DEF Outcome
  <2>10. Abs!SettleAuthorized(k, fp)
    BY <2>1, <2>7, <2>8, <2>9, <1>m DEF Abs!SettleAuthorized, e
  <2> QED
    BY <2>10 DEF Abs!AbsNext
<1>6. ASSUME NEW h \in Handler, Complete(h) PROVE [Abs!AbsNext]_(Abs!absVars)
  <2>k. PICK k \in Key : k = req[h].key
    BY <1>6, <1>o DEF Complete
  <2>f. PICK fp \in Prints : fp = Fingerprint(req[h].body)
    BY <1>6, <1>o, FingerprintType DEF Complete
  <2>r. PICK r \in Response : r = made[h]
    BY <1>6, <1>t DEF Complete, TypeOK
  <2> DEFINE done == [fingerprint |-> fp, status |-> "Completed", response |-> r]
  <2>1. pc[h] = "complete"
    BY <1>6 DEF Complete
  <2>2. records[k] = [fingerprint |-> fp, status |-> "InProgress"]
    BY <2>1, <2>k, <2>f DEF OwnershipInvariant, OwnersHoldTheirRecords, Owns
  <2>3. /\ records[k] # None /\ records[k].status = "InProgress"
        /\ records[k].fingerprint = fp
    BY <2>2, NoneAssumption DEF IdempotencyRecord
  <2>4. /\ records' = [records EXCEPT ![k] = done]
        /\ ledger' = ledger /\ issued' = issued /\ answers' = answers
    BY <1>6, <2>3, <2>k, <2>r DEF Complete, bankVars
  <2>5. records'[k] = done /\ \A c \in Key \ {k} : records'[c] = records[c]
    BY <2>4, <1>t DEF TypeOK
  <2>6. done # None
    <3>1. done \in IdempotencyRecord
      BY DEF IdempotencyRecord
    <3> QED
      BY <3>1, NoneAssumption
  <2>7. ASSUME NEW a \in ledger, a.key = k PROVE r = Authorized(a.id)
    <3>1. PICK g \in Handler :
            pc[g] = "complete" /\ req[g].key = k /\ made[g] = Authorized(a.id)
      BY <2>3, <2>7 DEF OwnershipInvariant, LedgerIsAccountedFor
    <3>2. g = h
      BY <3>1, <2>1, <2>k DEF OwnershipInvariant, OwnersHoldTheirRecords, Owns
    <3> QED
      BY <3>1, <3>2, <2>r
  <2>8. Outcome(k)' = {[fingerprint |-> fp, response |-> r]}
    <3>1. {s \in {records'[k]} : s # None /\ s.status = "Completed"} = {done}
      BY <2>5, <2>6
    <3>2. /\ done.fingerprint = fp /\ done.response = r
          /\ records'[k].fingerprint = fp
      BY <2>5
    <3> HIDE DEF done
    <3>3. \A a \in {e \in ledger' : e.key = k} : r = Authorized(a.id)
      BY <2>4, <2>7
    <3> QED
      BY <3>1, <3>2, <3>3 DEF Outcome
  <2>9. \A c \in Key \ {k} : Outcome(c)' = Outcome(c)
    BY <2>4, <2>5, <1>same
  <2>10. TrueOf(r, k)
    BY <2>1, <2>k, <2>r DEF OwnershipInvariant, ResponsesAreTrue
  <2> HIDE DEF done
  <2>11. CASE r.code = 201
    <3>1. PICK a \in ledger : a.id = r.id /\ a.key = k
      BY <2>10, <2>11 DEF TrueOf
    <3>2. {e \in ledger : e.key = k} = {a}
      BY <3>1 DEF OwnershipInvariant, AtMostOneAuthorization
    <3>3. Outcome(k) = {[fingerprint |-> fp, response |-> r]}
      BY <2>3, <2>7, <3>1, <3>2, OutcomeOf
    <3> QED
      BY <3>3, <2>4, <2>8, <2>9, <1>quiet DEF Abs!absVars
  <2>12. CASE r.code # 201
    <3>1. r = [code |-> 422]
      BY <2>12 DEF Response
    <3>2. \A a \in ledger : a.key # k
      BY <2>10, <2>12 DEF TrueOf
    <3>3. Outcome(k) = {}
      BY <2>3, <3>2 DEF Outcome
    <3>4. Abs!SettleDeclined(k, fp)
      BY <2>4, <2>8, <2>9, <3>1, <3>3, <1>m DEF Abs!SettleDeclined
    <3> QED
      BY <3>4 DEF Abs!AbsNext
  <2> QED
    BY <2>11, <2>12
<1>7. ASSUME NEW h \in Handler, NEW d \in BOOLEAN, AfterEffect(h, d)
      PROVE  [Abs!AbsNext]_(Abs!absVars)
  <2> DEFINE k == req[h].key
             fp == Fingerprint(req[h].body)
  <2>1. /\ records' = records /\ ledger' = ledger /\ issued' = issued
        /\ pc[h] = "after"
    BY <1>7 DEF AfterEffect, storeVars, bankVars
  <2>2. k \in Key /\ fp \in Prints /\ made[h] \in Response
    BY <2>1, <1>o, <1>t, FingerprintType DEF TypeOK
  <2>3. UNCHANGED <<[c \in Key |-> Outcome(c)], ledger, issued>>
    BY <2>1, <1>same, <1>quiet
  <2>4. CASE d
    <3>1. answers' = answers \cup {[key |-> k, fingerprint |-> fp, response |-> made[h]]}
      BY <1>7, <2>4 DEF AfterEffect, Send
    <3>2. records[k] = [fingerprint |-> fp, status |-> "Completed", response |-> made[h]]
      BY <2>1 DEF OwnershipInvariant, ResponsesAreTrue
    <3>3. records[k] # None
      BY <2>2, <3>2, NoneAssumption DEF IdempotencyRecord
    <3>4. /\ records[k].status = "Completed" /\ records[k].fingerprint = fp
          /\ records[k].response = made[h]
      BY <3>2
    <3>5. Outcome(k) = {[fingerprint |-> fp, response |-> made[h]]}
      BY <2>2, <3>3, <3>4, OutcomeOf
    <3>6. Abs!Reply(k)
      BY <2>3, <2>2, <3>1, <3>5, <1>m DEF Abs!Reply
    <3> QED
      BY <2>2, <3>6 DEF Abs!AbsNext
  <2>5. CASE ~d
    <3>1. answers' = answers
      BY <1>7, <2>5 DEF AfterEffect
    <3> QED
      BY <3>1, <2>3 DEF Abs!absVars
  <2> QED
    BY <2>4, <2>5
<1>8. ASSUME NEW h \in Handler, Abandon(h) PROVE UNCHANGED Abs!absVars
  <2>k. PICK k \in Key : k = req[h].key
    BY <1>8, <1>o DEF Abandon
  <2>1. /\ pc[h] = "abandon" /\ records' = [records EXCEPT ![k] = None]
        /\ ledger' = ledger /\ issued' = issued /\ answers' = answers
    BY <1>8, <2>k DEF Abandon, bankVars
  <2>3. records'[k] = None /\ \A c \in Key \ {k} : records'[c] = records[c]
    BY <2>1, <1>t DEF TypeOK
  <2>4. records[k] = [fingerprint |-> Fingerprint(req[h].body), status |-> "InProgress"]
    BY <2>1, <2>k DEF OwnershipInvariant, OwnersHoldTheirRecords, Owns
  <2>5. records[k].status = "InProgress"
    BY <2>4
  <2>6. \A a \in ledger : a.key # k
    BY <2>1, <2>k DEF OwnershipInvariant, ResponsesAreTrue, Owns
  <2>7. Outcome(k) = {} /\ Outcome(k)' = {}
    BY <2>1, <2>3, <2>5, <2>6 DEF Outcome
  <2> QED
    BY <2>1, <2>3, <2>7, <1>same, <1>quiet DEF Abs!absVars
<1>9. ASSUME NEW o \in Order, Void(o) PROVE Abs!AbsNext
  <2> DEFINE V(a) == IF a.order = o THEN [a EXCEPT !.voided = TRUE] ELSE a
  <2>1. /\ ledger' = {V(a) : a \in ledger}
        /\ records' = records /\ issued' = issued /\ answers' = answers
    BY <1>9 DEF Void, storeVars
  <2>2. \A a \in ledger : V(a).id = a.id /\ V(a).key = a.key
    BY <1>t DEF TypeOK, Authorization
  <2> HIDE DEF V
  <2>3. ASSUME NEW k \in Key PROVE Outcome(k)' = Outcome(k)
    <3> DEFINE R(a) == [fingerprint |-> records[k].fingerprint, response |-> Authorized(a.id)]
    <3>1. {R(a) : a \in {e \in ledger' : e.key = k}} = {R(a) : a \in {e \in ledger : e.key = k}}
      BY <2>1, <2>2
    <3> QED
      BY <3>1, <2>1 DEF Outcome
  <2>4. Abs!VoidOrder(o)
    BY <2>1, <2>3 DEF Abs!VoidOrder, V
  <2> QED
    BY <2>4 DEF Abs!AbsNext
<1>10. CASE Restart
  <2>1. \A k \in Key : Outcome(k)' = {}
    BY <1>10 DEF Restart, Outcome
  <2>2. Abs!Forget
    BY <1>10, <2>1 DEF Restart, Abs!Forget
  <2> QED
    BY <2>2 DEF Abs!AbsNext
<1>11. CASE UNCHANGED vars
  <2>1. records' = records /\ ledger' = ledger /\ issued' = issued /\ answers' = answers
    BY <1>11 DEF vars
  <2> QED
    BY <2>1, <1>same, <1>quiet DEF Abs!absVars
<1> QED
  BY <1>1, <1>2, <1>3, <1>4, <1>5, <1>6, <1>7, <1>8, <1>9, <1>10, <1>11 DEF Next, Continue

\* PaymentService implements IdempotentPayments: all its handlers, races, faults
\* and retries settle each key at most once and repeat that outcome.
THEOREM Refinement ==
    ASSUME FitsCapacity
    PROVE  Spec => ImplementsIdempotentPayments
<1>1. Init => Abs!AbsInit
  BY DEF Init, Abs!AbsInit, Outcome
<1>2. OwnershipInvariant /\ OwnershipInvariant' /\ [Next]_vars
        => [Abs!AbsNext]_(Abs!absVars)
  BY RefinementStep
<1> QED
  BY <1>1, <1>2, Ownership, PTL DEF Spec, ImplementsIdempotentPayments, Abs!AbsSpec

-----------------------------------------------------------------------------
(* Eviction, whether or not the keys fit the store.                         *)

StoredKeys == {k \in Key : records[k] # None}
Trimmers == {h \in Handler : pc[h] \in {"enqueue", "count", "dequeue", "remove"}}

\* What a handler's step leaves of the other handlers.
LEMMA OthersKept ==
    ASSUME TypeOK, NEW h \in Handler, Continue(h) \/ \E k \in Key, b \in Body : TryAdd(h, k, b)
    PROVE  \A g \in Handler \ {h} : pc'[g] = pc[g] /\ req'[g] = req[g] /\ oldest'[g] = oldest[g]
<1> USE DEF TypeOK, Goto, At, Return
<1>1. CASE \E k \in Key, b \in Body : TryAdd(h, k, b)
  BY <1>1 DEF TryAdd
<1>2. CASE Lookup(h) \/ Abandon(h) \/ \E delivered \in BOOLEAN : AfterEffect(h, delivered)
  BY <1>2 DEF Lookup, Abandon, AfterEffect
<1>3. CASE Enqueue(h) \/ TrimCount(h) \/ TrimDequeue(h) \/ TrimRemove(h)
  BY <1>3 DEF Enqueue, TrimCount, TrimDequeue, TrimRemove
<1>4. CASE BeforeEffectFails(h) \/ Authorize(h) \/ Complete(h) \/ \E injected \in BOOLEAN : Decline(h, injected)
  BY <1>4 DEF BeforeEffectFails, Authorize, Complete, Decline
<1> QED
  BY <1>1, <1>2, <1>3, <1>4 DEF Continue

\* The steps outside TryBegin insert and evict nothing, but may abandon a record.
LEMMA OutsideTryBegin ==
    ASSUME TypeOK, NEW h \in Handler,
           \/ Lookup(h) \/ Abandon(h) \/ BeforeEffectFails(h) \/ Authorize(h) \/ Complete(h)
           \/ (\E delivered \in BOOLEAN : AfterEffect(h, delivered)) \/ (\E injected \in BOOLEAN : Decline(h, injected))
    PROVE  /\ StoredKeys' \subseteq StoredKeys /\ UNCHANGED insertionOrder
           /\ pc[h] \notin {"enqueue", "count", "dequeue", "remove"} /\ pc'[h] \notin {"enqueue", "count", "dequeue", "remove"}
<1> USE DEF TypeOK, Goto, At, Return, storeVars
<1>1. CASE Lookup(h) \/ \E delivered \in BOOLEAN : AfterEffect(h, delivered)
  BY <1>1 DEF Lookup, AfterEffect, StoredKeys
<1>2. CASE Abandon(h)
  BY <1>2 DEF Abandon, StoredKeys
<1>3. CASE BeforeEffectFails(h) \/ Authorize(h) \/ \E injected \in BOOLEAN : Decline(h, injected)
  BY <1>3 DEF BeforeEffectFails, Authorize, Decline, StoredKeys
<1>4. CASE Complete(h)
  BY <1>4 DEF Complete, StoredKeys
<1> QED
  BY <1>1, <1>2, <1>3, <1>4

\* TryAdd: a new key is stored by a handler on its way to the queue.
LEMMA TryAddEffect ==
    ASSUME TypeOK, NEW h \in Handler, NEW k \in Key, NEW b \in Body, TryAdd(h, k, b)
    PROVE  /\ pc[h] = "idle" /\ UNCHANGED insertionOrder
           /\ \/ k \notin StoredKeys /\ StoredKeys' = StoredKeys \cup {k} /\ pc'[h] = "enqueue" /\ req'[h].key = k
              \/ StoredKeys' = StoredKeys /\ pc'[h] = "lookup"
<1>1. [fingerprint |-> Fingerprint(b), status |-> "InProgress"] # None
  BY NoneAssumption, FingerprintType DEF IdempotencyRecord
<1> QED
  BY <1>1 DEF TryAdd, TypeOK, Goto, At, StoredKeys

\* Append and Tail, as sets.
LEMMA QueueFacts ==
    ASSUME NEW q \in Seq(Key), NEW k \in Key
    PROVE  /\ \E i \in 1..Len(Append(q, k)) : Append(q, k)[i] = k
           /\ \A x : (\E i \in 1..Len(q) : q[i] = x) => \E i \in 1..Len(Append(q, k)) : Append(q, k)[i] = x
           /\ q # << >> => Head(q) \in Key /\ Tail(q) \in Seq(Key)
                           /\ \A x : (\E i \in 1..Len(q) : q[i] = x) => x = Head(q) \/ \E i \in 1..Len(Tail(q)) : Tail(q)[i] = x
<1>1. Len(q) \in Nat /\ Len(Append(q, k)) = Len(q) + 1 /\ Append(q, k)[Len(q) + 1] = k
      /\ \A i \in 1..Len(q) : Append(q, k)[i] = q[i]
  OBVIOUS
<1>2. \E i \in 1..Len(Append(q, k)) : Append(q, k)[i] = k
  <2>1. Len(q) + 1 \in 1..Len(Append(q, k))
    BY <1>1
  <2> QED
    BY <1>1, <2>1
<1>3. ASSUME NEW i \in 1..Len(q) PROVE i \in 1..Len(Append(q, k)) /\ Append(q, k)[i] = q[i]
  BY <1>1
<1>4. ASSUME q # << >>, NEW i \in 1..Len(q) PROVE q[i] = Head(q) \/ \E j \in 1..Len(Tail(q)) : Tail(q)[j] = q[i]
  <2>1. CASE i = 1
    BY <2>1
  <2>2. CASE i # 1
    <3>1. i - 1 \in 1..Len(Tail(q)) /\ Tail(q)[i - 1] = q[i]
      BY <1>4, <2>2
    <3> QED
      BY <3>1
  <2> QED
    BY <2>1, <2>2
<1> QED
  BY <1>2, <1>3, <1>4

LEMMA EvictableStep == TypeOK /\ RecordsAreEvictable /\ [Next]_vars => RecordsAreEvictable'
<1> SUFFICES ASSUME TypeOK, RecordsAreEvictable, [Next]_vars PROVE RecordsAreEvictable'
  OBVIOUS
<1>0. RecordsAreEvictable' <=> \A k \in StoredKeys' :
        \/ \E i \in 1..Len(insertionOrder') : insertionOrder'[i] = k
        \/ \E h \in Handler : pc'[h] = "enqueue" /\ req'[h].key = k
        \/ \E h \in Handler : pc'[h] = "remove" /\ oldest'[h] = k
  BY DEF RecordsAreEvictable, At, StoredKeys
<1>i. \A k \in StoredKeys :
        \/ \E i \in 1..Len(insertionOrder) : insertionOrder[i] = k
        \/ \E h \in Handler : pc[h] = "enqueue" /\ req[h].key = k
        \/ \E h \in Handler : pc[h] = "remove" /\ oldest[h] = k
  BY DEF RecordsAreEvictable, At, StoredKeys
<1>1. ASSUME NEW h \in Handler, NEW k \in Key, NEW b \in Body, TryAdd(h, k, b) PROVE RecordsAreEvictable'
  <2>1. \A g \in Handler \ {h} : pc'[g] = pc[g] /\ req'[g] = req[g] /\ oldest'[g] = oldest[g]
    BY <1>1, OthersKept
  <2> QED
    BY <1>0, <1>i, <1>1, <2>1, TryAddEffect
<1>2. ASSUME NEW h \in Handler, Continue(h) PROVE RecordsAreEvictable'
  <2>0. \A g \in Handler \ {h} : pc'[g] = pc[g] /\ req'[g] = req[g] /\ oldest'[g] = oldest[g]
    BY <1>2, OthersKept
  <2>1. CASE StoredKeys' \subseteq StoredKeys /\ UNCHANGED insertionOrder /\ pc[h] \notin {"enqueue", "remove"}
    BY <1>0, <1>i, <2>0, <2>1
  <2>2. CASE TrimCount(h)
    BY <2>1, <2>2 DEF TrimCount, At, StoredKeys, storeVars
  <2>3. CASE Enqueue(h)
    <3>1. pc[h] = "enqueue" /\ insertionOrder' = Append(insertionOrder, req[h].key) /\ StoredKeys' = StoredKeys
      BY <2>3 DEF Enqueue, At, StoredKeys
    <3>2. insertionOrder \in Seq(Key) /\ req[h].key \in Key
      BY <3>1 DEF TypeOK, At
    <3> QED
      BY <1>0, <1>i, <2>0, <3>1, <3>2, QueueFacts
  <2>4. CASE TrimDequeue(h)
    <3>1. pc[h] = "dequeue" /\ StoredKeys' = StoredKeys /\ insertionOrder \in Seq(Key)
      BY <2>4 DEF TrimDequeue, At, StoredKeys, TypeOK
    <3>2. CASE insertionOrder = << >>
      BY <2>1, <2>4, <3>1, <3>2 DEF TrimDequeue
    <3>3. CASE insertionOrder # << >>
      <4>1. pc'[h] = "remove" /\ oldest'[h] = Head(insertionOrder) /\ insertionOrder' = Tail(insertionOrder)
        BY <2>4, <3>3 DEF TrimDequeue, Goto, TypeOK
      <4>2. \A x : (\E i \in 1..Len(insertionOrder) : insertionOrder[i] = x)
                      => x = Head(insertionOrder) \/ \E i \in 1..Len(insertionOrder') : insertionOrder'[i] = x
        <5>1. Head(insertionOrder) \in Key
          BY <3>1, <3>3
        <5> QED
          BY <3>1, <3>3, <4>1, <5>1, QueueFacts
      <4> QED
        BY <1>0, <1>i, <2>0, <3>1, <4>1, <4>2
    <3> QED
      BY <3>2, <3>3
  <2>5. CASE TrimRemove(h)
    <3>1. pc[h] = "remove" /\ StoredKeys' = StoredKeys \ {oldest[h]} /\ UNCHANGED insertionOrder
      BY <2>5 DEF TrimRemove, At, StoredKeys, TypeOK
    <3> QED
      BY <1>0, <1>i, <2>0, <3>1
  <2> QED
    BY <1>2, <2>1, <2>2, <2>3, <2>4, <2>5, OutsideTryBegin DEF Continue
<1>3. CASE Restart
  BY <1>3 DEF Restart, RecordsAreEvictable
<1>4. CASE (\E o \in Order : Void(o)) \/ UNCHANGED vars
  BY <1>4 DEF Void, vars, storeVars, RecordsAreEvictable, At
<1> QED
  BY <1>1, <1>2, <1>3, <1>4 DEF Next

\* No record escapes eviction, however concurrent inserts, trims and abandoned
\* requests interleave, and whether or not the store is full (IdempotencyStore).
THEOREM NothingEscapes == Spec => []RecordsAreEvictable
<1>1. Init => RecordsAreEvictable
  BY DEF Init, RecordsAreEvictable
<1>2. Init => TypeOK
  BY BoundAssumption DEF Init, TypeOK, Steps, At
<1>3. TypeOK /\ RecordsAreEvictable /\ [Next]_vars => TypeOK' /\ RecordsAreEvictable'
  BY TypeStep, EvictableStep
<1> QED
  BY <1>1, <1>2, <1>3, PTL DEF Spec

-----------------------------------------------------------------------------
BoundInvariant == TypeOK /\ RecordsAreEvictable /\ IsFiniteSet(StoredKeys) /\ StoreBounded

\* When the queue is empty every stored key belongs to a handler that is about to
\* enqueue or to remove it, so there are no more keys than such handlers.
LEMMA EmptyQueueBound ==
    ASSUME IsFiniteSet(Handler), TypeOK, RecordsAreEvictable, insertionOrder = << >>,
           NEW w \in Handler, pc[w] = "dequeue"
    PROVE  Cardinality(StoredKeys) <= Cardinality(Trimmers \ {w})
<1> DEFINE key == [h \in Handler |-> IF pc[h] = "enqueue" THEN req[h].key ELSE oldest[h]]
           users == {h \in Handler : pc[h] \in {"enqueue", "remove"} /\ key[h] \in StoredKeys}
           f == [h \in users |-> key[h]]
<1>1. \A k \in StoredKeys : \E h \in users : f[h] = k
  <2> TAKE k \in StoredKeys
  <2>1. ~\E i \in 1..Len(insertionOrder) : insertionOrder[i] = k
    OBVIOUS
  <2> QED
    BY <2>1 DEF RecordsAreEvictable, StoredKeys, At
<1>2. f \in Surjection(users, StoredKeys)
  BY <1>1 DEF Surjection
<1>3. users \subseteq Trimmers \ {w} /\ Trimmers \ {w} \subseteq Handler
  BY DEF Trimmers
<1> HIDE DEF users, f
<1>4. /\ IsFiniteSet(users) /\ IsFiniteSet(Trimmers \ {w})
      /\ Cardinality(users) <= Cardinality(Trimmers \ {w})
  BY <1>3, FS_Subset
<1>5. Cardinality(StoredKeys) <= Cardinality(users) /\ IsFiniteSet(StoredKeys)
  BY <1>2, <1>4, FS_Surjection DEF ExistsSurjection
<1> QED
  BY <1>4, <1>5, FS_CardinalityType

LEMMA BoundStep == IsFiniteSet(Handler) /\ BoundInvariant /\ [Next]_vars => BoundInvariant'
<1> SUFFICES ASSUME IsFiniteSet(Handler), BoundInvariant, [Next]_vars
             PROVE  IsFiniteSet(StoredKeys') /\ Cardinality(StoredKeys') <= Capacity + Cardinality(Trimmers')
  BY TypeStep, EvictableStep DEF BoundInvariant, StoreBounded, Count, StoredKeys, Trimmers
<1> USE DEF BoundInvariant
<1>0. /\ IsFiniteSet(Trimmers) /\ IsFiniteSet(Trimmers') /\ IsFiniteSet(StoredKeys) /\ Capacity \in Nat
      /\ Cardinality(Trimmers) \in Nat /\ Cardinality(Trimmers') \in Nat /\ Cardinality(StoredKeys) \in Nat
      /\ Cardinality(StoredKeys) <= Capacity + Cardinality(Trimmers)
  <2>1. Trimmers \subseteq Handler /\ Trimmers' \subseteq Handler
    BY DEF Trimmers
  <2>2. IsFiniteSet(Trimmers) /\ IsFiniteSet(Trimmers')
    BY <2>1, FS_Subset
  <2> QED
    BY <2>2, FS_CardinalityType, BoundAssumption DEF StoreBounded, Count, StoredKeys, Trimmers
<1>1. ASSUME StoredKeys' \subseteq StoredKeys, Trimmers' = Trimmers
      PROVE  IsFiniteSet(StoredKeys') /\ Cardinality(StoredKeys') <= Capacity + Cardinality(Trimmers')
  <2>1. IsFiniteSet(StoredKeys') /\ Cardinality(StoredKeys') <= Cardinality(StoredKeys) /\ Cardinality(StoredKeys') \in Nat
    BY <1>0, <1>1, FS_Subset, FS_CardinalityType
  <2> QED
    BY <1>0, <1>1, <2>1
<1>2. ASSUME NEW h \in Handler, NEW k \in Key, NEW b \in Body, TryAdd(h, k, b)
      PROVE  IsFiniteSet(StoredKeys') /\ Cardinality(StoredKeys') <= Capacity + Cardinality(Trimmers')
  <2>1. \A g \in Handler \ {h} : pc'[g] = pc[g]
    BY <1>2, OthersKept
  <2>2. CASE k \notin StoredKeys /\ StoredKeys' = StoredKeys \cup {k} /\ pc'[h] = "enqueue"
    <3>1. h \notin Trimmers /\ Trimmers' = Trimmers \cup {h}
      BY <1>2, <2>1, <2>2, TryAddEffect DEF Trimmers
    <3>2. Cardinality(Trimmers') = Cardinality(Trimmers) + 1
      BY <1>0, <3>1, FS_AddElement
    <3>3. IsFiniteSet(StoredKeys') /\ Cardinality(StoredKeys') = Cardinality(StoredKeys) + 1
      BY <1>0, <2>2, FS_AddElement
    <3> QED
      BY <1>0, <3>2, <3>3
  <2>3. CASE StoredKeys' = StoredKeys /\ pc'[h] = "lookup"
    <3>1. Trimmers' = Trimmers
      BY <1>2, <2>1, <2>3, TryAddEffect DEF Trimmers
    <3> QED
      BY <1>1, <2>3, <3>1
  <2> QED
    BY <1>2, <2>2, <2>3, TryAddEffect
<1>3. ASSUME NEW h \in Handler, Continue(h)
      PROVE  IsFiniteSet(StoredKeys') /\ Cardinality(StoredKeys') <= Capacity + Cardinality(Trimmers')
  <2>0. \A g \in Handler \ {h} : pc'[g] = pc[g]
    BY <1>3, OthersKept
  <2>1. ASSUME pc[h] \in {"enqueue", "count", "dequeue", "remove"} <=> pc'[h] \in {"enqueue", "count", "dequeue", "remove"}
        PROVE  Trimmers' = Trimmers
    BY <2>0, <2>1 DEF Trimmers
  <2>2. CASE Enqueue(h) \/ TrimRemove(h)
    <3>1. StoredKeys' \subseteq StoredKeys /\ pc[h] \in {"enqueue", "remove"} /\ pc'[h] = "count"
      BY <2>2 DEF Enqueue, TrimRemove, StoredKeys, At, Goto, TypeOK
    <3> QED
      BY <1>1, <2>1, <3>1
  <2>3. CASE TrimCount(h)
    <3>1. StoredKeys' = StoredKeys /\ pc[h] = "count"
      BY <2>3 DEF TrimCount, StoredKeys, At, storeVars
    <3>2. CASE Count > Capacity
      BY <1>1, <2>1, <2>3, <3>1, <3>2 DEF TrimCount, Goto, TypeOK
    <3>3. CASE ~(Count > Capacity)
      BY <1>0, <3>1, <3>3 DEF Count, StoredKeys
    <3> QED
      BY <3>2, <3>3
  <2>4. CASE TrimDequeue(h)
    <3>1. StoredKeys' = StoredKeys /\ pc[h] = "dequeue"
      BY <2>4 DEF TrimDequeue, StoredKeys, At
    <3>2. CASE insertionOrder # << >>
      <4>1. pc'[h] = "remove"
        BY <2>4, <3>2 DEF TrimDequeue, Goto, TypeOK
      <4> QED
        BY <1>1, <2>1, <3>1, <4>1
    <3>3. CASE insertionOrder = << >>
      <4>1. pc'[h] = "before"
        BY <2>4, <3>3 DEF TrimDequeue, Goto, TypeOK
      <4>2. Trimmers' = Trimmers \ {h}
        BY <2>0, <3>1, <4>1 DEF Trimmers
      <4>3. Cardinality(StoredKeys) <= Cardinality(Trimmers \ {h})
        BY <3>1, <3>3, EmptyQueueBound
      <4> QED
        BY <1>0, <3>1, <4>2, <4>3
    <3> QED
      BY <3>2, <3>3
  <2>5. ASSUME StoredKeys' \subseteq StoredKeys,
               pc[h] \notin {"enqueue", "count", "dequeue", "remove"}, pc'[h] \notin {"enqueue", "count", "dequeue", "remove"}
        PROVE  IsFiniteSet(StoredKeys') /\ Cardinality(StoredKeys') <= Capacity + Cardinality(Trimmers')
    BY <1>1, <2>1, <2>5
  <2> QED
    BY <1>3, <2>2, <2>3, <2>4, <2>5, OutsideTryBegin DEF Continue
<1>4. CASE Restart
  <2>1. StoredKeys' = {}
    BY <1>4 DEF Restart, StoredKeys
  <2> QED
    BY <1>0, <2>1, FS_EmptySet
<1>5. CASE (\E o \in Order : Void(o)) \/ UNCHANGED vars
  <2>1. StoredKeys' = StoredKeys /\ Trimmers' = Trimmers
    BY <1>5 DEF Void, vars, storeVars, StoredKeys, Trimmers
  <2> QED
    BY <1>1, <2>1
<1> QED
  BY <1>2, <1>3, <1>4, <1>5 DEF Next

\* The store exceeds its capacity by at most the requests that are inside TryBegin,
\* for any number of concurrent requests: a trimming handler stops only when the
\* store fits or when everything beyond it is in other handlers' hands.
THEOREM Bounded ==
    ASSUME IsFiniteSet(Handler)
    PROVE  Spec => []StoreBounded
<1>1. Init => BoundInvariant
  <2> SUFFICES ASSUME Init PROVE BoundInvariant
    OBVIOUS
  <2>1. TypeOK /\ RecordsAreEvictable
    BY BoundAssumption DEF Init, TypeOK, Steps, At, RecordsAreEvictable
  <2>2. StoredKeys = {} /\ IsFiniteSet(StoredKeys) /\ Cardinality(StoredKeys) = 0
    <3>1. StoredKeys = {}
      BY DEF Init, StoredKeys
    <3> QED
      BY <3>1, FS_EmptySet
  <2>3. Cardinality({h \in Handler : pc[h] \in {"enqueue", "count", "dequeue", "remove"}}) \in Nat
    BY FS_Subset, FS_CardinalityType
  <2> QED
    BY <2>1, <2>2, <2>3, BoundAssumption DEF BoundInvariant, StoreBounded, Count, StoredKeys
<1>2. BoundInvariant /\ [Next]_vars => BoundInvariant'
  BY BoundStep
<1>3. BoundInvariant => StoreBounded
  BY DEF BoundInvariant
<1> QED
  BY <1>1, <1>2, <1>3, PTL DEF Spec
=============================================================================
