--------------------------- MODULE PaymentService ---------------------------
(***************************************************************************)
(* PaymentService: concurrent requests of POST /payments/authorizations    *)
(* and POST /payments/voids over the two in-memory singletons of the pod,  *)
(* the idempotency store and the provider ledger.                          *)
(*                                                                         *)
(* A request handler runs on a thread of its own.  Every call it makes on  *)
(* a concurrent collection is one atomic step, because that is all that    *)
(* ConcurrentDictionary and ConcurrentQueue promise; everything between    *)
(* two such calls is local to the handler.                                 *)
(***************************************************************************)
EXTENDS Naturals, Sequences, FiniteSets

CONSTANTS
    Handler,          \* threads that serve requests
    Key,              \* Idempotency-Key header values
    Order,            \* order ids
    Token,            \* payment tokens
    DeclinedToken,    \* the test tokens PaymentRules.Decide declines
    Body,             \* the request bodies callers send
    Capacity,         \* IdempotencyStore.Capacity
    MaxRequests,      \* bound: authorize requests that arrive
    None              \* no record, no request, no response

\* An amount is a positive decimal, counted in tenths of a cent.
ASSUME BodyAssumption ==
    /\ DeclinedToken \subseteq Token
    /\ Body \subseteq [order : Order, amount : Nat \ {0}, token : Token]

ASSUME BoundAssumption == Capacity \in Nat /\ MaxRequests \in Nat

VARIABLES
    records,         \* IdempotencyStore.records
    insertionOrder,  \* IdempotencyStore.insertionOrder
    ledger,          \* PaymentLedger.authorizations, as a set
    issued,          \* how many authorization ids were handed out
    pc,              \* the next step of each handler
    req,             \* the request a handler serves: its key and body
    oldest,          \* the key a handler dequeued in Trim
    made,            \* the response a handler computed
    arrived,         \* authorize requests that arrived so far
    answers          \* history: the 201 and 422 answers this pod has sent

storeVars == <<records, insertionOrder>>
bankVars == <<ledger, issued>>
vars == <<records, insertionOrder, ledger, issued, pc, req, oldest, made,
          arrived, answers>>

\* SHA-256 of orderId|amount:0.00|currency|token.  The format rounds the amount
\* to cents, half away from zero; the digest is taken to be injective.
Fingerprint(b) == <<b.order, (b.amount + 5) \div 10, b.token>>

\* A stored response is a 201 with its authorization id or the 422 decline.
Response == [code : {201}, id : Nat] \cup {[code |-> 422]}
Authorized(id) == [code |-> 201, id |-> id]
Declined == [code |-> 422]

Prints == {Fingerprint(b) : b \in Body}
IdempotencyRecord ==
    [fingerprint : Prints, status : {"InProgress"}]
    \cup [fingerprint : Prints, status : {"Completed"}, response : Response]

\* A ledger entry; the key that produced it is a history field.
Authorization == [id : Nat, order : Order, key : Key, voided : BOOLEAN]
Answer == [key : Key, fingerprint : Prints, response : Response]

\* The model value None is none of the values it stands beside.
ASSUME NoneAssumption ==
    /\ None \notin IdempotencyRecord
    /\ None \notin Response
    /\ None \notin [key : Key, body : Body]
    /\ None \notin Key

-----------------------------------------------------------------------------
\* PaymentRules.Decide
Approved(token) == token \notin DeclinedToken

\* IdempotencyRules.Decide
MutDecideIgnoresFingerprint(existing, fp) ==
    CASE existing = None -> "StartNew"
      [] existing # None /\ existing.status = "Completed" -> "ReplayStored"
      [] OTHER -> "RejectInProgress"
Decide(existing, fp) ==
    CASE existing = None -> "StartNew"
      [] existing # None /\ existing.fingerprint # fp -> "RejectFingerprintMismatch"
      [] existing # None /\ existing.fingerprint = fp
           /\ existing.status = "Completed" -> "ReplayStored"
      [] OTHER -> "RejectInProgress"

Count == Cardinality({k \in Key : records[k] # None})

At(h, step) == pc[h] = step
Goto(h, step) == pc' = [pc EXCEPT ![h] = step]

\* The handler returns: its locals are gone.
Return(h) ==
    /\ Goto(h, "idle")
    /\ req' = [req EXCEPT ![h] = None]
    /\ oldest' = [oldest EXCEPT ![h] = None]
    /\ made' = [made EXCEPT ![h] = None]

Send(h, r) ==
    answers' = answers \cup
        {[key |-> req[h].key, fingerprint |-> Fingerprint(req[h].body),
          response |-> r]}

Init ==
    /\ records = [k \in Key |-> None]
    /\ insertionOrder = << >>
    /\ ledger = {}
    /\ issued = 0
    /\ pc = [h \in Handler |-> "idle"]
    /\ req = [h \in Handler |-> None]
    /\ oldest = [h \in Handler |-> None]
    /\ made = [h \in Handler |-> None]
    /\ arrived = 0
    /\ answers = {}

-----------------------------------------------------------------------------
(* AuthorizeAsync.  A request without a usable key or body is answered 400  *)
(* before it touches any state; only the others arrive here.                *)

\* TryBegin's TryAdd: the one step that decides who owns the key.
MutTryAddOverwrites(h, k, b) ==
    /\ At(h, "idle")
    /\ arrived < MaxRequests
    /\ arrived' = arrived + 1
    /\ req' = [req EXCEPT ![h] = [key |-> k, body |-> b]]
    /\ IF records[k] = None \/ records[k].status = "InProgress"
       THEN /\ records' = [records EXCEPT ![k] =
                 [fingerprint |-> Fingerprint(b), status |-> "InProgress"]]
            /\ Goto(h, "enqueue")
       ELSE records' = records /\ Goto(h, "lookup")
    /\ UNCHANGED <<insertionOrder, ledger, issued, oldest, made, answers>>
TryAdd(h, k, b) ==
    /\ At(h, "idle")
    /\ arrived < MaxRequests
    /\ arrived' = arrived + 1
    /\ req' = [req EXCEPT ![h] = [key |-> k, body |-> b]]
    /\ IF records[k] = None
       THEN /\ records' = [records EXCEPT ![k] =
                 [fingerprint |-> Fingerprint(b), status |-> "InProgress"]]
            /\ Goto(h, "enqueue")
       ELSE records' = records /\ Goto(h, "lookup")
    /\ UNCHANGED <<insertionOrder, ledger, issued, oldest, made, answers>>

\* TryBegin after a failed TryAdd: the record is looked up again, so it may have
\* been completed or abandoned meanwhile.  A replay answers with the stored
\* response; StartNew, in progress (both 409) and mismatch (422) change nothing.
Lookup(h) ==
    /\ At(h, "lookup")
    /\ LET existing == records[req[h].key]
       IN  IF Decide(existing, Fingerprint(req[h].body)) = "ReplayStored"
           THEN Send(h, existing.response)
           ELSE answers' = answers
    /\ Return(h)
    /\ UNCHANGED <<storeVars, bankVars, arrived>>

MutEnqueueForgets(h) ==
    /\ At(h, "enqueue")
    /\ Goto(h, "count")
    /\ UNCHANGED <<storeVars, bankVars, req, oldest, made, arrived, answers>>
Enqueue(h) ==
    /\ At(h, "enqueue")
    /\ insertionOrder' = Append(insertionOrder, req[h].key)
    /\ Goto(h, "count")
    /\ UNCHANGED <<records, bankVars, req, oldest, made, arrived, answers>>

\* Trim: records.Count, TryDequeue and TryRemove are three atomic calls.
MutTrimOffByOne(h) ==
    /\ At(h, "count")
    /\ Goto(h, IF Count > Capacity + 1 THEN "dequeue" ELSE "before")
    /\ UNCHANGED <<storeVars, bankVars, req, oldest, made, arrived, answers>>
TrimCount(h) ==
    /\ At(h, "count")
    /\ Goto(h, IF Count > Capacity THEN "dequeue" ELSE "before")
    /\ UNCHANGED <<storeVars, bankVars, req, oldest, made, arrived, answers>>

TrimDequeue(h) ==
    /\ At(h, "dequeue")
    /\ IF insertionOrder = << >>
       THEN Goto(h, "before") /\ UNCHANGED <<insertionOrder, oldest>>
       ELSE /\ oldest' = [oldest EXCEPT ![h] = Head(insertionOrder)]
            /\ insertionOrder' = Tail(insertionOrder)
            /\ Goto(h, "remove")
    /\ UNCHANGED <<records, bankVars, req, made, arrived, answers>>

TrimRemove(h) ==
    /\ At(h, "remove")
    /\ records' = [records EXCEPT ![oldest[h]] = None]
    /\ oldest' = [oldest EXCEPT ![h] = None]
    /\ Goto(h, "count")
    /\ UNCHANGED <<insertionOrder, bankVars, req, made, arrived, answers>>

\* The fault point before the effect.  Fail answers an error; a caller that
\* gives up during an injected delay cancels the request.  Both leave through
\* the finally block.
BeforeEffectFails(h) ==
    /\ At(h, "before")
    /\ Goto(h, "abandon")
    /\ UNCHANGED <<storeVars, bankVars, req, oldest, made, arrived, answers>>

\* The request is declined, by an injected rejection or by PaymentRules.
MutDeclineNoResponse(h, injected) ==
    /\ At(h, "before")
    /\ injected \/ ~Approved(req[h].body.token)
    /\ Goto(h, "complete")
    /\ UNCHANGED <<storeVars, bankVars, req, oldest, made, arrived, answers>>
Decline(h, injected) ==
    /\ At(h, "before")
    /\ injected \/ ~Approved(req[h].body.token)
    /\ made' = [made EXCEPT ![h] = Declined]
    /\ Goto(h, "complete")
    /\ UNCHANGED <<storeVars, bankVars, req, oldest, arrived, answers>>

\* PaymentLedger.Authorize: a new entry with a fresh id, under the ledger's lock.
Authorize(h) ==
    /\ At(h, "before")
    /\ Approved(req[h].body.token)
    /\ ledger' = ledger \cup
         {[id |-> issued, order |-> req[h].body.order, key |-> req[h].key,
           voided |-> FALSE]}
    /\ issued' = issued + 1
    /\ made' = [made EXCEPT ![h] = Authorized(issued)]
    /\ Goto(h, "complete")
    /\ UNCHANGED <<storeVars, req, oldest, arrived, answers>>

\* IdempotencyStore.Complete: AddOrUpdate throws when the record is gone.
Complete(h) ==
    /\ At(h, "complete")
    /\ LET k == req[h].key
       IN  IF records[k] = None
           THEN records' = records /\ Goto(h, "abandon")
           ELSE /\ records' = [records EXCEPT ![k] =
                     [fingerprint |-> records[k].fingerprint,
                      status |-> "Completed", response |-> made[h]]]
                /\ Goto(h, "after")
    /\ UNCHANGED <<insertionOrder, bankVars, req, oldest, made, arrived, answers>>

\* The fault point after the effect delays the answer; the caller may have
\* given up, and then the answer is lost.  Its decision is discarded.
MutCompletedSetTooLate(h, delivered) ==
    /\ At(h, "after")
    /\ IF delivered
       THEN Send(h, made[h]) /\ Return(h)
       ELSE answers' = answers /\ Goto(h, "abandon") /\ UNCHANGED <<req, oldest, made>>
    /\ UNCHANGED <<storeVars, bankVars, arrived>>
AfterEffect(h, delivered) ==
    /\ At(h, "after")
    /\ IF delivered THEN Send(h, made[h]) ELSE answers' = answers
    /\ Return(h)
    /\ UNCHANGED <<storeVars, bankVars, arrived>>

\* The finally block: completed is false.
MutAbandonKeepsRecord(h) ==
    /\ At(h, "abandon")
    /\ Return(h)
    /\ UNCHANGED <<storeVars, bankVars, arrived, answers>>
Abandon(h) ==
    /\ At(h, "abandon")
    /\ records' = [records EXCEPT ![req[h].key] = None]
    /\ Return(h)
    /\ UNCHANGED <<insertionOrder, bankVars, arrived, answers>>

-----------------------------------------------------------------------------
\* VoidAsync: PaymentLedger.Void under the ledger's lock.  An injected failure
\* answers an error and changes nothing.
Void(o) ==
    /\ ledger' = {IF a.order = o THEN [a EXCEPT !.voided = TRUE] ELSE a : a \in ledger}
    /\ UNCHANGED <<storeVars, issued, pc, req, oldest, made, arrived, answers>>

\* The pod restarts: both singletons live in its memory and are lost, with the
\* requests it was serving.
Restart ==
    /\ records' = [k \in Key |-> None]
    /\ insertionOrder' = << >>
    /\ ledger' = {}
    /\ pc' = [h \in Handler |-> "idle"]
    /\ req' = [h \in Handler |-> None]
    /\ oldest' = [h \in Handler |-> None]
    /\ made' = [h \in Handler |-> None]
    /\ answers' = {}
    /\ UNCHANGED <<issued, arrived>>

\* What a handler that has started does next.
Continue(h) ==
    \/ Lookup(h)
    \/ Enqueue(h)
    \/ TrimCount(h)
    \/ TrimDequeue(h)
    \/ TrimRemove(h)
    \/ BeforeEffectFails(h)
    \/ \E injected \in BOOLEAN : Decline(h, injected)
    \/ Authorize(h)
    \/ Complete(h)
    \/ \E delivered \in BOOLEAN : AfterEffect(h, delivered)
    \/ Abandon(h)

Next ==
    \/ \E h \in Handler : \E k \in Key, b \in Body : TryAdd(h, k, b)
    \/ \E h \in Handler : Continue(h)
    \/ \E o \in Order : Void(o)
    \/ Restart

Spec == Init /\ [][Next]_vars

\* A started handler is never suspended for good: its only waits are injected
\* delays, which FaultRuleValidator bounds.
FairSpec == Spec /\ \A h \in Handler : WF_vars(Continue(h))

-----------------------------------------------------------------------------
Steps == {"idle", "lookup", "enqueue", "count", "dequeue", "remove", "before",
          "complete", "after", "abandon"}

\* The types of the store, the ledger and the handlers' locals; a handler that
\* serves a request has it at hand, and one about to complete has a response.
TypeOK ==
    /\ records \in [Key -> IdempotencyRecord \cup {None}]
    /\ insertionOrder \in Seq(Key)
    /\ ledger \subseteq Authorization
    /\ issued \in Nat
    /\ pc \in [Handler -> Steps]
    /\ req \in [Handler -> [key : Key, body : Body] \cup {None}]
    /\ oldest \in [Handler -> Key \cup {None}]
    /\ made \in [Handler -> Response \cup {None}]
    /\ arrived \in 0..MaxRequests
    /\ answers \subseteq Answer
    /\ \A h \in Handler :
         /\ ~At(h, "idle") => req[h] # None
         /\ At(h, "remove") => oldest[h] # None
         /\ pc[h] \in {"complete", "after"} => made[h] # None

\* Requests racing on one Idempotency-Key (retries after a timeout, duplicates)
\* never produce two ledger entries, whatever faults hit them.
AtMostOneAuthorization ==
    \A a, b \in ledger : a.key = b.key => a = b

\* The finally block forgets the key only when nothing was charged under it
\* ("Nothing was charged, so a later attempt with the same key may start again").
AbandonMeansNothingCharged ==
    \A h \in Handler :
        At(h, "abandon") => \A a \in ledger : a.key # req[h].key

\* Everyone who gets a 201 or a decline for a key gets the same one, and only
\* for the request the key was first used with.
AnswersAgree ==
    \A x, y \in answers : x.key = y.key => x = y

\* What callers are told is what the ledger holds: a 201 names an entry made for
\* that order, and a key that was answered "declined" has no entry at all, which
\* is what the order service's compensation plan relies on.
AnswersAreTrue ==
    \A x \in answers :
        IF x.response.code = 201
        THEN \E a \in ledger : /\ a.id = x.response.id
                               /\ a.key = x.key
                               /\ a.order = x.fingerprint[1]
        ELSE \A a \in ledger : a.key # x.key

\* The store is bounded: what exceeds Capacity is about to be trimmed by a
\* handler that is still in TryBegin.
StoreBounded ==
    Count <= Capacity + Cardinality({h \in Handler :
                           pc[h] \in {"enqueue", "count", "dequeue", "remove"}})

\* Nothing escapes eviction: a record is in the queue, or on its way into it, or
\* being evicted right now.
RecordsAreEvictable ==
    \A k \in Key : records[k] # None =>
        \/ \E i \in 1..Len(insertionOrder) : insertionOrder[i] = k
        \/ \E h \in Handler : At(h, "enqueue") /\ req[h].key = k
        \/ \E h \in Handler : At(h, "remove") /\ oldest[h] = k

\* No key stays in progress for good (it would answer 409 to every retry).
InProgressResolves ==
    \A k \in Key :
        (records[k] # None /\ records[k].status = "InProgress")
            ~> (records[k] = None \/ records[k].status = "Completed")

-----------------------------------------------------------------------------
(* Why at most one request is ever processed per key: the handler that won   *)
(* TryAdd owns the record until it completes or abandons it, and the ledger,  *)
(* the records and the answers say the same of every key.                     *)

Owns(h) == pc[h] \in {"enqueue", "count", "before", "complete", "abandon"}

\* Trim finds nothing to evict; every owner's record is in progress and was made
\* for its request; two owners own different keys.
OwnersHoldTheirRecords ==
    \A h \in Handler :
        /\ pc[h] \notin {"dequeue", "remove"}
        /\ Owns(h) => records[req[h].key] =
             [fingerprint |-> Fingerprint(req[h].body), status |-> "InProgress"]
        /\ \A g \in Handler :
             Owns(g) /\ Owns(h) /\ req[g].key = req[h].key => g = h

\* Every ledger entry is known to the store: by the record's response, or by the
\* owner that is about to store it.
LedgerIsAccountedFor ==
    \A a \in ledger :
        /\ records[a.key] # None
        /\ a.order = records[a.key].fingerprint[1]
        /\ \/ /\ records[a.key].status = "Completed"
              /\ records[a.key].response = Authorized(a.id)
           \/ \E h \in Handler :
                At(h, "complete") /\ req[h].key = a.key /\ made[h] = Authorized(a.id)

\* A response r made for key k is true of the ledger.
TrueOf(r, k) ==
    IF r.code = 201 THEN \E a \in ledger : a.id = r.id /\ a.key = k
    ELSE \A a \in ledger : a.key # k

\* Responses, stored or about to be, are true; owners before the effect have
\* charged nothing; answers sent and about to be sent are the stored ones.
ResponsesAreTrue ==
    /\ \A h \in Handler :
         /\ At(h, "complete") => TrueOf(made[h], req[h].key)
         /\ Owns(h) /\ ~At(h, "complete") => \A a \in ledger : a.key # req[h].key
         /\ At(h, "after") => records[req[h].key] =
              [fingerprint |-> Fingerprint(req[h].body), status |-> "Completed",
               response |-> made[h]]
    /\ \A k \in Key :
         records[k] # None /\ records[k].status = "Completed"
             => TrueOf(records[k].response, k)
    /\ \A x \in answers :
         records[x.key] = [fingerprint |-> x.fingerprint, status |-> "Completed",
                           response |-> x.response]

\* The inductive invariant that AtMostOneAuthorization rests on.
OwnershipInvariant ==
    /\ TypeOK
    /\ OwnersHoldTheirRecords
    /\ LedgerIsAccountedFor
    /\ ResponsesAreTrue
    /\ AtMostOneAuthorization

-----------------------------------------------------------------------------
\* Refinement mapping: a key is settled by its ledger entry or by the response
\* its record was completed with.
Outcome(k) ==
    {[fingerprint |-> records[k].fingerprint, response |-> Authorized(a.id)] :
        a \in {e \in ledger : e.key = k}}
    \cup {[fingerprint |-> r.fingerprint, response |-> r.response] :
        r \in {s \in {records[k]} : s # None /\ s.status = "Completed"}}

Abs == INSTANCE IdempotentPayments
         WITH RequestId <- Prints, outcome <- [k \in Key |-> Outcome(k)]

\* The races over the store, the faults and the retries add up to a service that
\* settles every key once and repeats that outcome to everyone.
ImplementsIdempotentPayments == Abs!AbsSpec
=============================================================================
