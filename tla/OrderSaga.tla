----------------------------- MODULE OrderSaga -----------------------------
(***************************************************************************)
(* One order transaction: OrderTransactionCoordinator, the gateways with   *)
(* their retry pipelines, the requests on the way, and the four services   *)
(* the transaction changes.                                                *)
(*                                                                         *)
(* Orders meet only in the stock level, and another order may take or      *)
(* return stock at any moment, so one order against a stock that is        *)
(* sufficient or not at any moment is every order.                         *)
(*                                                                         *)
(* A caller that gives up on an attempt (its timeout, a broken connection) *)
(* does not take the request back: the request stays in net and may still  *)
(* take effect, at any later time, or be lost.                             *)
(***************************************************************************)
EXTENDS Naturals, Sequences, FiniteSets

CONSTANTS
    PaymentPod,    \* PaymentService pods that receive requests: one, and two
                   \* while a rollout overlaps the old pod and the new one
    MaxAttempts,   \* DependencyProfile.MaxAttempts per operation
    Injected,      \* classes of error status that fault rules answer with
    None           \* no failure, no result, no reservation, no snapshot

Forward == {"reserve", "evaluate", "authorize", "create"}
UndoOp == [VoidPayment |-> "void", ReleaseInventory |-> "release"]
Op == Forward \cup {"void", "release"}

ASSUME AttemptsAssumption == MaxAttempts \in [Op -> Nat \ {0}]
\* FaultRuleValidator allows every status from 400 to 599.
ASSUME InjectedAssumption ==
    Injected \subseteq {"rejected", "notFound", "conflict", "transient", "error"}

VARIABLES
    pc,            \* where ExecuteAsync is
    state, failure, compensation, \* the order
    plan,          \* the undo steps still to do
    stored,        \* the snapshot the repository holds for GET
    budgetOver,    \* the transaction's budget has been cancelled
    call,          \* per operation: the gateway call
    net,           \* requests on the way: [op, attempt]
    reservation,   \* InventoryService: the order's reservation
    payRecord,     \* PaymentService: the order's idempotency record, per pod
    payOwner,      \* the attempt that holds it
    ledger,        \* PaymentService: the order's authorization, per pod
    shipped,       \* ShippingService: the order's shipment exists
    quiet          \* history: no forward request was on its way when the order failed

orderVars == <<state, failure, compensation, plan, stored, quiet>>
serviceVars == <<reservation, payRecord, payOwner, ledger, shipped>>
vars == <<pc, state, failure, compensation, plan, stored, budgetOver, call, net,
          reservation, payRecord, payOwner, ledger, shipped, quiet>>

L == INSTANCE OrderLifecycle WITH Unset <- None, answered <- pc = "finished"

\* null is none of the values that it stands beside.
ASSUME NoneAssumption ==
    None \notin {"Success", "Reserved", "Released"} \cup L!FailureKind
                  \cup [stage : L!Stage, kind : L!FailureKind]

-----------------------------------------------------------------------------
(* The retry pipeline of a gateway call.                                    *)

Idle == [phase |-> "idle", attempt |-> 0, result |-> None]
Started == [phase |-> "ready", attempt |-> 1, result |-> None]

\* An attempt ends with an answer (by class of status code), with the attempt
\* timeout, or with a connection failure.
Outcome == {"ok", "rejected", "notFound", "conflict", "transient", "error",
            "timeout", "connection"}

\* RetryClassifier.ShouldRetry.  transient is 502, 503 or 504.
ShouldRetry(op, o) ==
    o \in {"timeout", "connection", "transient"} \/ (o = "conflict" /\ op = "authorize")

MutResultConflictIsSuccess(op, o) ==
    CASE o \in {"ok", "conflict"} -> "Success"
      [] o = "notFound" /\ op = "release" -> "Success"
      [] o = "rejected" -> "BusinessRejection"
      [] o = "timeout" -> "Timeout"
      [] o = "connection" -> "Unavailable"
      [] OTHER -> "DependencyError"
\* DownstreamCall: the outcome of the last attempt as a StageResult.
ResultOf(op, o) ==
    CASE o = "ok" -> "Success"
      [] o = "notFound" /\ op = "release" -> "Success"
      [] o = "rejected" -> "BusinessRejection"
      [] o = "timeout" -> "Timeout"
      [] o = "connection" -> "Unavailable"
      [] OTHER -> "DependencyError"

Waiting(op, n) == call[op].phase = "waiting" /\ call[op].attempt = n
Active(op) == call[op].phase \in {"ready", "waiting"}

SetCall(op, c) == call' = [call EXCEPT ![op] = c]
EndCall(op, result) ==
    SetCall(op, [phase |-> "done", attempt |-> 0, result |-> result])

\* As AttemptEnds, without the limit on attempts.
MutAttemptEndsUnlimited(op, o) ==
    IF ShouldRetry(op, o)
    THEN SetCall(op, [phase |-> "ready", attempt |-> call[op].attempt, result |-> None])
    ELSE EndCall(op, ResultOf(op, o))
\* As AttemptEnds, with one retry more than MaxAttempts allows.
MutAttemptEndsOneMore(op, o) ==
    IF ShouldRetry(op, o) /\ call[op].attempt <= MaxAttempts[op]
    THEN SetCall(op, [phase |-> "ready", attempt |-> call[op].attempt + 1,
                      result |-> None])
    ELSE EndCall(op, ResultOf(op, o))
\* An attempt ended with o: retry after a pause, or finish the call.
AttemptEnds(op, o) ==
    IF ShouldRetry(op, o) /\ call[op].attempt < MaxAttempts[op]
    THEN SetCall(op, [phase |-> "ready", attempt |-> call[op].attempt + 1,
                      result |-> None])
    ELSE EndCall(op, ResultOf(op, o))

\* A request leaves, unless the budget of the transaction is over.  Undo calls
\* run on CancellationToken.None.
SendAttempt(op) ==
    /\ call[op].phase = "ready"
    /\ op \in Forward => ~budgetOver
    /\ net' = net \cup {[op |-> op, attempt |-> call[op].attempt]}
    /\ SetCall(op, [call[op] EXCEPT !.phase = "waiting"])
    /\ UNCHANGED <<pc, orderVars, budgetOver, serviceVars>>

\* An open circuit refuses the attempt; undo calls have no breaker.  The state of
\* the breaker depends on other orders, so it may be open at any attempt.
CircuitRefuses(op) ==
    /\ op \in Forward
    /\ call[op].phase = "ready"
    /\ EndCall(op, "Unavailable")
    /\ UNCHANGED <<pc, orderVars, budgetOver, net, serviceVars>>

\* The attempt timeout fires or the connection breaks; the request is not undone.
GiveUp(op, o) ==
    /\ call[op].phase = "waiting"
    /\ o \in {"timeout", "connection"}
    /\ AttemptEnds(op, o)
    /\ UNCHANGED <<pc, orderVars, budgetOver, net, serviceVars>>

\* The stage budget of the pipeline, or the transaction budget, cancels the call
\* between or during attempts.
StageBudgetExpires(op) ==
    /\ Active(op)
    /\ EndCall(op, "Timeout")
    /\ UNCHANGED <<pc, orderVars, budgetOver, net, serviceVars>>

TransactionBudgetExpires ==
    /\ ~budgetOver
    /\ pc \in {"fanOut", "payment", "shipping"}
    /\ budgetOver' = TRUE
    /\ UNCHANGED <<pc, orderVars, call, net, serviceVars>>

CancelledByBudget(op) ==
    /\ budgetOver
    /\ op \in Forward
    /\ Active(op)
    /\ EndCall(op, "Timeout")
    /\ UNCHANGED <<pc, orderVars, budgetOver, net, serviceVars>>

-----------------------------------------------------------------------------
(* The services.                                                            *)

\* The answer o is lost, or reaches the caller if it still waits for this attempt.
Answer(m, o) ==
    \/ UNCHANGED call
    \/ Waiting(m.op, m.attempt) /\ AttemptEnds(m.op, o)

Take(op, m) == m.op = op /\ net' = net \ {m}

serviceOnly == UNCHANGED <<pc, orderVars, budgetOver>>

Lose(m) ==
    /\ net' = net \ {m}
    /\ serviceOnly
    /\ UNCHANGED <<call, serviceVars>>

\* FaultOutcome.Fail: an error status and no effect.  In AuthorizeAsync faults come
\* after the idempotency decision: see EndAuthorize.
InjectedFailure(m, o) ==
    /\ m.op # "authorize"
    /\ o \in Injected
    /\ Take(m.op, m)
    /\ Answer(m, o)
    /\ serviceOnly /\ UNCHANGED serviceVars

\* FaultOutcome.Reject, or the service's own rule (stock, risk, zone).  A live
\* reservation is found before the stock is looked at, but after the fault.
Reject(m) ==
    /\ m.op \in {"reserve", "evaluate", "create"}
    /\ Take(m.op, m)
    /\ Answer(m, "rejected")
    /\ serviceOnly /\ UNCHANGED serviceVars

\* StockLedger.Reserve; a released reservation is replaced by a new one.
Reserve(m) ==
    /\ Take("reserve", m)
    /\ reservation' = "Reserved"
    /\ Answer(m, "ok")
    /\ serviceOnly /\ UNCHANGED <<payRecord, payOwner, ledger, shipped>>

Approve(m) ==
    /\ Take("evaluate", m)
    /\ Answer(m, "ok")
    /\ serviceOnly /\ UNCHANGED serviceVars

CreateShipment(m) ==
    /\ Take("create", m)
    /\ shipped' = TRUE
    /\ Answer(m, "ok")
    /\ serviceOnly /\ UNCHANGED <<reservation, payRecord, payOwner, ledger>>

\* StockLedger.Release, and 404 when there is no reservation.
Release(m) ==
    /\ Take("release", m)
    /\ reservation' = IF reservation = None THEN None ELSE "Released"
    /\ Answer(m, IF reservation = None THEN "notFound" ELSE "ok")
    /\ serviceOnly /\ UNCHANGED <<payRecord, payOwner, ledger, shipped>>

\* PaymentLedger.Void on pod p; nothing to void is a success too.
Void(m, p) ==
    /\ Take("void", m)
    /\ ledger' = [ledger EXCEPT ![p] = IF @ = "open" THEN "voided" ELSE @]
    /\ Answer(m, "ok")
    /\ serviceOnly /\ UNCHANGED <<reservation, payRecord, payOwner, shipped>>

\* TryBegin of the order's idempotency key on pod p.  Every attempt carries the same
\* key and the same request (PaymentService models the store in full).
BeginAuthorize(m, p) ==
    /\ Take("authorize", m)
    /\ IF payRecord[p] = "none"
       THEN /\ payRecord' = [payRecord EXCEPT ![p] = "inProgress"]
            /\ payOwner' = [payOwner EXCEPT ![p] = m.attempt]
            /\ UNCHANGED call
       ELSE /\ Answer(m, [inProgress |-> "conflict", authorized |-> "ok",
                          declined |-> "rejected"][payRecord[p]])
            /\ UNCHANGED <<payRecord, payOwner>>
    /\ serviceOnly /\ UNCHANGED <<reservation, ledger, shipped>>

\* The rest of AuthorizeAsync for the attempt that holds the record.
EndAuthorize(p, record, charge, o) ==
    LET m == [op |-> "authorize", attempt |-> payOwner[p]] IN
    /\ payRecord[p] = "inProgress"
    /\ payRecord' = [payRecord EXCEPT ![p] = record]
    /\ payOwner' = [payOwner EXCEPT ![p] = 0]
    /\ ledger' = [ledger EXCEPT ![p] = IF charge THEN "open" ELSE @]
    /\ Answer(m, o)
    /\ serviceOnly /\ UNCHANGED <<net, reservation, shipped>>

Authorize(p) == EndAuthorize(p, "authorized", TRUE, "ok")
MutDeclineNotStored(p) == EndAuthorize(p, "none", FALSE, "rejected")
Decline(p) == EndAuthorize(p, "declined", FALSE, "rejected")
FailAuthorize(p, o) ==
    o \in Injected /\ EndAuthorize(p, "none", FALSE, o)
\* RequestAborted: the handler notices that its caller has gone and abandons the key.
AbortAuthorize(p) ==
    /\ ~Waiting("authorize", payOwner[p])
    /\ EndAuthorize(p, "none", FALSE, "connection")

ServiceStep ==
    \/ \E m \in net :
         \/ Lose(m)
         \/ \E o \in Injected : InjectedFailure(m, o)
         \/ Reject(m)
         \/ Reserve(m)
         \/ Approve(m)
         \/ CreateShipment(m)
         \/ Release(m)
         \/ \E p \in PaymentPod : Void(m, p) \/ BeginAuthorize(m, p)
    \/ \E p \in PaymentPod :
         \/ Authorize(p)
         \/ Decline(p)
         \/ \E o \in Injected : FailAuthorize(p, o)
         \/ AbortAuthorize(p)

-----------------------------------------------------------------------------
(* The coordinator.                                                         *)

ToSnapshot == [state |-> state, failure |-> failure, compensation |-> compensation]

Done(op) == call[op].phase = "done"
Succeeded(op) == Done(op) /\ call[op].result = "Success"
Failed(op) == Done(op) /\ call[op].result # "Success"

\* ExecuteAsync up to the first await: save the Pending order, start both checks.
Begin ==
    /\ pc = "start"
    /\ pc' = "fanOut"
    /\ stored' = ToSnapshot
    /\ call' = [call EXCEPT !["reserve"] = Started, !["evaluate"] = Started]
    /\ UNCHANGED <<state, failure, compensation, plan, quiet, budgetOver, net, serviceVars>>

\* Order.TransitionTo, then the next gateway call; the earlier results are used up.
TransitionTo(target, next, op) ==
    /\ L!CanTransition(state, target)
    /\ state' = target
    /\ pc' = next
    /\ call' = [[o \in Op |-> Idle] EXCEPT ![op] = Started]
    /\ UNCHANGED <<failure, compensation, plan, stored, quiet, budgetOver, net, serviceVars>>

\* Fail and CompensationPlan.For.  quiet records whether a forward request that
\* nobody waits for may still take effect.
Fail(stage, kind) ==
    LET f == [stage |-> stage, kind |-> kind] IN
    /\ L!CanTransition(state, L!FailureStateFor(stage))
    /\ state' = L!FailureStateFor(stage)
    /\ failure' = f
    /\ plan' = L!PlanFor(f)
    /\ pc' = "compensate"
    /\ quiet' = (net = {} /\ \A p \in PaymentPod : payRecord[p] # "inProgress")
    /\ UNCHANGED <<compensation, stored, budgetOver, call, net, serviceVars>>

\* Task.WhenAll, then FanOutResolution.Resolve: inventory first.
MutResolveEarly ==
    /\ pc = "fanOut"
    /\ \/ Failed("reserve") /\ Fail("Inventory", call["reserve"].result)
       \/ ~Failed("reserve") /\ Failed("evaluate") /\ Fail("Fraud", call["evaluate"].result)
       \/ Succeeded("reserve") /\ Succeeded("evaluate")
          /\ TransitionTo("InventoryReserved", "payment", "authorize")
Resolve ==
    /\ pc = "fanOut"
    /\ Done("reserve") /\ Done("evaluate")
    /\ \/ Failed("reserve") /\ Fail("Inventory", call["reserve"].result)
       \/ Succeeded("reserve") /\ Failed("evaluate") /\ Fail("Fraud", call["evaluate"].result)
       \/ Succeeded("reserve") /\ Succeeded("evaluate")
          /\ TransitionTo("InventoryReserved", "payment", "authorize")

AfterPayment ==
    /\ pc = "payment"
    /\ \/ Failed("authorize") /\ Fail("Payment", call["authorize"].result)
       \/ Succeeded("authorize") /\ TransitionTo("PaymentAuthorized", "shipping", "create")

AfterShipping ==
    /\ pc = "shipping"
    /\ \/ Failed("create") /\ Fail("Shipping", call["create"].result)
       \/ /\ Succeeded("create")
          /\ L!CanTransition(state, "ShipmentCreated")
          /\ state' = "ShipmentCreated"
          /\ pc' = "complete"
          /\ UNCHANGED <<failure, compensation, plan, stored, quiet, budgetOver, call, net,
                         serviceVars>>

Complete ==
    /\ pc = "complete"
    /\ L!CanTransition(state, "Completed")
    /\ state' = "Completed"
    /\ pc' = "compensate"   \* with an empty plan
    /\ UNCHANGED <<failure, compensation, plan, stored, quiet, budgetOver, call, net, serviceVars>>

\* CompensateAsync: the undo calls one after the other, each recorded.
StartUndo ==
    /\ pc = "compensate"
    /\ plan # << >>
    /\ call[UndoOp[Head(plan)]].phase = "idle"
    /\ SetCall(UndoOp[Head(plan)], Started)
    /\ UNCHANGED <<pc, orderVars, budgetOver, net, serviceVars>>

Recorded(status) == Append(compensation, [action |-> Head(plan), status |-> status])

\* As RecordUndo, but a failed undo ends the loop.
MutRecordUndoStopsAtFailure ==
    /\ pc = "compensate" /\ plan # << >>
    /\ Done(UndoOp[Head(plan)])
    /\ LET ok == Succeeded(UndoOp[Head(plan)]) IN
       /\ compensation' = Recorded(IF ok THEN "Succeeded" ELSE "Failed")
       /\ plan' = IF ok THEN Tail(plan) ELSE << >>
    /\ UNCHANGED <<pc, state, failure, stored, quiet, budgetOver, call, net, serviceVars>>
RecordUndo ==
    /\ pc = "compensate" /\ plan # << >>
    /\ Done(UndoOp[Head(plan)])
    /\ compensation' = Recorded(IF Succeeded(UndoOp[Head(plan)]) THEN "Succeeded" ELSE "Failed")
    /\ plan' = Tail(plan)
    /\ UNCHANGED <<pc, state, failure, stored, quiet, budgetOver, call, net, serviceVars>>

Finish ==
    /\ pc = "compensate" /\ plan = << >>
    /\ stored' = ToSnapshot
    /\ pc' = "finished"
    /\ UNCHANGED <<state, failure, compensation, plan, quiet, budgetOver, call, net, serviceVars>>

\* The OrderService process dies: the transaction and the repository are gone, and
\* nothing resumes the order.  (After the answer only the snapshot is left to lose.)
Crash ==
    /\ pc \notin {"start", "finished", "crashed"}
    /\ pc' = "crashed"
    /\ stored' = None
    /\ plan' = << >>
    /\ call' = [op \in Op |-> Idle]
    /\ UNCHANGED <<state, failure, compensation, quiet, budgetOver, net, serviceVars>>

\* One transaction: once it is over and nothing is under way, nothing happens.
Quiescent ==
    /\ pc \in {"finished", "crashed"}
    /\ net = {}
    /\ \A p \in PaymentPod : payRecord[p] # "inProgress"
    /\ UNCHANGED vars

-----------------------------------------------------------------------------
Init ==
    /\ pc = "start"
    /\ state = "Pending" /\ failure = None /\ compensation = << >>
    /\ plan = << >> /\ stored = None /\ quiet = FALSE
    /\ budgetOver = FALSE
    /\ call = [op \in Op |-> Idle]
    /\ net = {}
    /\ reservation = None /\ shipped = FALSE
    /\ payRecord = [p \in PaymentPod |-> "none"]
    /\ payOwner = [p \in PaymentPod |-> 0]
    /\ ledger = [p \in PaymentPod |-> "none"]

\* What OrderService does without help from anyone else: its own code and its timers.
OrderStep ==
    \/ Begin \/ Resolve \/ AfterPayment \/ AfterShipping \/ Complete
    \/ StartUndo \/ RecordUndo \/ Finish
    \/ \E op \in Op :
         \/ SendAttempt(op) \/ CircuitRefuses(op)
         \/ \E o \in {"timeout", "connection"} : GiveUp(op, o)
         \/ StageBudgetExpires(op) \/ CancelledByBudget(op)
    \/ TransactionBudgetExpires

Next == OrderStep \/ ServiceStep \/ Crash \/ Quiescent

Spec == Init /\ [][Next]_vars

\* The runtime schedules the coordinator, and every wait of it is bounded by a timer.
FairSpec == Spec /\ WF_vars(OrderStep)

-----------------------------------------------------------------------------
(* Properties.                                                              *)

Call == [phase : {"idle", "ready", "waiting", "done"}, attempt : Nat,
         result : L!FailureKind \cup {"Success", None}]
UndoAction == DOMAIN UndoOp
Failure == [stage : L!Stage, kind : L!FailureKind] \cup {None}
OrderState == DOMAIN L!AllowedTransitions \cup
    {"Completed", "InventoryFailed", "FraudFailed", "PaymentFailed", "ShippingFailed"}
Compensation == Seq([action : UndoAction, status : {"Succeeded", "Failed"}])

\* Types of the order, its calls, the requests on the way and the services' state; an
\* attempt number never exceeds its profile's MaxAttempts.
TypeOK ==
    /\ pc \in {"start", "fanOut", "payment", "shipping", "complete", "compensate",
               "finished", "crashed"}
    /\ state \in OrderState
    /\ failure \in Failure
    /\ compensation \in Compensation
    /\ plan \in Seq(UndoAction)
    /\ stored \in [state : OrderState, failure : Failure, compensation : Compensation] \cup {None}
    /\ budgetOver \in BOOLEAN /\ quiet \in BOOLEAN /\ shipped \in BOOLEAN
    /\ call \in [Op -> Call]
    /\ \A op \in Op : call[op].attempt <= MaxAttempts[op]
    /\ net \subseteq [op : Op, attempt : Nat]
    /\ \A m \in net : m.attempt \in 1..MaxAttempts[m.op]
    /\ reservation \in {None, "Reserved", "Released"}
    /\ payRecord \in [PaymentPod -> {"none", "inProgress", "authorized", "declined"}]
    /\ payOwner \in [PaymentPod -> 0..MaxAttempts["authorize"]]
    /\ ledger \in [PaymentPod -> {"none", "open", "voided"}]

Finished == pc = "finished"
AllUndone == \A i \in 1..Len(compensation) : compensation[i].status = "Succeeded"
Holds == reservation = "Reserved" \/ \E p \in PaymentPod : ledger[p] = "open"

\* The coordinator implements the order lifecycle: it only takes the transitions of
\* OrderStateMachine, and answers after every undo step of the failure was recorded.
ImplementsLifecycle == L!LifecycleSpec

\* An order answered as Completed holds its stock and an authorization that is not
\* voided, and its shipment exists, whatever retries and late requests did.
CompletedMeansEverything ==
    Finished /\ state = "Completed" =>
        /\ reservation = "Reserved"
        /\ shipped
        /\ \E p \in PaymentPod : ledger[p] = "open"

\* A failed order whose undo steps all succeeded holds neither stock nor money, if no
\* forward request was still on its way when it failed.  (A business rejection by
\* inventory is left out: its plan undoes nothing, and an earlier attempt whose answer was
\* lost may have reserved, although docs/transaction-flow.md:87 says "no stock was reserved".)
NothingHeldAfterUndo ==
    /\ Finished /\ failure # None /\ quiet /\ AllUndone
    /\ failure # [stage |-> "Inventory", kind |-> "BusinessRejection"]
    => ~Holds

\* An order that failed because its payment was declined is never charged, although
\* its plan sends no void: no attempt, however late, authorizes it.
DeclinedNeverCharged ==
    failure = [stage |-> "Payment", kind |-> "BusinessRejection"] =>
        \A p \in PaymentPod : ledger[p] = "none"

\* Once an order has failed, no gateway call of a forward step is running, so no
\* retry of a forward step can start behind its undo.
NoForwardCallAfterFailure ==
    failure # None => \A op \in Forward : call[op].phase \in {"idle", "done"}

\* Every order is answered, whatever is lost or delayed, unless OrderService dies.
EveryOrderIsAnswered == (pc = "start") ~> (pc \in {"finished", "crashed"})

-----------------------------------------------------------------------------
(* What the documentation says and the code does not ensure.                *)

\* docs/transaction-flow.md:37 "earlier steps were undone", when every undo succeeded.
EarlierStepsUndone ==
    /\ Finished /\ failure # None /\ AllUndone
    /\ failure.stage \in {"Payment", "Shipping"}
    => ~Holds
=============================================================================
