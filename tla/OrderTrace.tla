----------------------------- MODULE OrderTrace -----------------------------
(***************************************************************************)
(* One order from Kong to the stored trace: the spans OrderService and the *)
(* services record while the transaction runs (OrderTelemetry.cs,          *)
(* DownstreamCall, the retry strategy), what Kong exports, what the        *)
(* pipeline loses or damages on the way, and the contracts that judge the  *)
(* result.  The ghost variables keep what really happened.                 *)
(*                                                                         *)
(* A tick is 100 ms.  Inventory and fraud run side by side, each on its    *)
(* own time line from the moment the fan-out starts.                       *)
(***************************************************************************)
EXTENDS Contracts

CONSTANTS
    InventoryOutcomes, FraudOutcomes, PaymentOutcomes, ShippingOutcomes,   \* what one attempt may meet
    UndoOutcomes,
    MaxTrouble,     \* attempts of one order that do not just succeed
    Restarts        \* how often PaymentService may lose its memory during the order

VARIABLES
    pc,             \* the stage that runs, "answer", "export" or "judged"
    clock,          \* the time line of the stage that runs
    joined,         \* when the slower of the fan-out stages ended
    attempt,        \* attempts of this stage already made
    opened,         \* when this stage started
    results,        \* stage -> how it ended; "" before
    path,           \* states recorded on the transaction
    undo,           \* undo stages still to run
    spans,          \* spans finished so far
    response,       \* PaymentService's idempotency entry: "none", "authorized", "declined"
    restarts, trouble,
    authorized,     \* ghost: authorizations PaymentService recorded
    reached,        \* ghost: stage -> calls that reached the service
    damage          \* what the pipeline did to the trace

traceVars == <<pc, clock, joined, attempt, opened, results, path, undo, spans, response,
               restarts, trouble, authorized, reached, damage>>

\* Both bounds are counts, of any size.
ASSUME TroubleAssumption == MaxTrouble \in Nat /\ Restarts \in Nat

AllStages == Stages \cup CompensationStages

\* DependencyProfiles, in ticks; the service behind a stage.
Profile ==
    [s \in AllStages |->
       CASE s = "inventory.reserve" -> [service |-> "inventory-service", timeout |-> 10, max |-> 2, outcomes |-> InventoryOutcomes]
         [] s = "fraud.evaluate" -> [service |-> "fraud-service", timeout |-> 7, max |-> 2, outcomes |-> FraudOutcomes]
         [] s = "payment.authorize" -> [service |-> "payment-service", timeout |-> 15, max |-> 3, outcomes |-> PaymentOutcomes]
         [] s = "shipping.create" -> [service |-> "shipping-service", timeout |-> 10, max |-> 3, outcomes |-> ShippingOutcomes]
         [] s = "compensation.payment.void" -> [service |-> "payment-service", timeout |-> 5, max |-> 2, outcomes |-> UndoOutcomes]
         [] s = "compensation.inventory.release" -> [service |-> "inventory-service", timeout |-> 5, max |-> 2, outcomes |-> UndoOutcomes]]

\* What an attempt can meet.  "late" is a reply delayed after the effect,
\* "timeout" one delayed before it, "unreached" a timeout with no replica,
\* "busy" a 409, 502, 503 or 504, "refused" a failed connection, "open" a
\* circuit breaker that lets nothing out.
Outcomes == {"ok", "slow", "late", "timeout", "unreached", "busy", "refused", "open", "rejected", "error"}
SlowTicks == 12
Backoff == 2

TimesOut(o) == o \in {"late", "timeout", "unreached"}
Sends(o) == o # "open"
Reaches(o) == o \notin {"unreached", "refused", "open"}
\* RetryClassifier.ShouldRetry
ShouldRetry(o) == TimesOut(o) \/ o \in {"busy", "refused"}
Ticks(s, o) == CASE TimesOut(o) -> Profile[s].timeout [] o = "slow" -> SlowTicks [] o = "open" -> 0 [] OTHER -> 1

\* DownstreamCall: the result of a stage whose last attempt met o.
ResultOf(o) ==
    CASE o \in {"ok", "slow"} -> "ok" [] o = "rejected" -> "rejected"
      [] o \in {"error", "busy"} -> "error" [] o \in {"refused", "open"} -> "unavailable" [] OTHER -> "timeout"

Request == [id |-> "request", run |-> "run", order |-> "order"]

MakeSpan(id, parent, service, name, kind, start, end) ==
    [id |-> id, parent |-> parent, service |-> service, name |-> name, kind |-> kind, start |-> start, end |-> end,
     status |-> "UNSET", attempt |-> 0, retryCount |-> 0, retryEvents |-> 0, httpStatus |-> 0, state |-> "",
     states |-> << >>, failureKind |-> "", request |-> Request.id, run |-> Request.run, order |-> Request.order,
     replay |-> FALSE, recorded |-> FALSE, secret |-> FALSE, k8s |-> TRUE]

TraceInit ==
    /\ pc = "inventory.reserve" /\ clock = 3 /\ opened = 3 /\ joined = 3 /\ attempt = 0
    /\ results = [s \in AllStages |-> ""] /\ path = << >> /\ undo = << >> /\ spans = {}
    /\ response = "none" /\ restarts = 0 /\ trouble = 0 /\ authorized = 0 /\ reached = [s \in AllStages |-> 0]
    /\ damage = "none"

-----------------------------------------------------------------------------
(* One attempt of the stage that runs, and the end of the stage.            *)

\* PaymentEndpoints.AuthorizeAsync: a stored answer is replayed at once; only
\* a fresh request meets a fault, a decline or a recorded authorization.
Meets(s, o) ==
    s = "payment.authorize" => /\ response = "authorized" => o \in {"ok", "busy", "unreached", "refused", "open"}
                               /\ response # "declined"

Records(s, o) == s = "payment.authorize" /\ response = "none" /\ o \in {"ok", "slow", "late"}
Replays(s, o) == s = "payment.authorize" /\ response = "authorized" /\ o = "ok"

ClientSpan(s, o) ==
    [MakeSpan(<<s, attempt + 1>>, <<s, 0>>, OrderService, "POST", "CLIENT", clock, clock + Ticks(s, o)) EXCEPT
       !.attempt = attempt + 1]

ServerSpan(s, o) ==
    [MakeSpan(<<s, 10 + attempt>>, <<s, attempt + 1>>, Profile[s].service,
              IF s = "payment.authorize" THEN "POST /authorizations" ELSE "server", "SERVER", clock, clock + Ticks(s, o)) EXCEPT
       !.recorded = Records(s, o), !.replay = Replays(s, o)]

\* RecordRetry counts on the stage; RecordStageResult marks only technical failures.
StageSpan(s, result, end) ==
    [MakeSpan(<<s, 0>>, <<"order.transaction", 0>>, OrderService, s, "INTERNAL", opened, end) EXCEPT
       !.retryCount = attempt, !.retryEvents = attempt,
       !.failureKind = IF result = "ok" THEN "" ELSE result,
       !.status = IF result \in {"ok", "rejected"} THEN "UNSET" ELSE "ERROR"]

UndoStage(action) == [VoidPayment |-> "compensation.payment.void", ReleaseInventory |-> "compensation.inventory.release"][action]

\* CompensationPlan.For
Plan(s, result) ==
    IF s = "inventory.reserve" /\ result = "rejected" THEN << >>
    ELSE IF s \in {"inventory.reserve", "fraud.evaluate"} \/ (s = "payment.authorize" /\ result = "rejected")
    THEN <<UndoStage("ReleaseInventory")>>
    ELSE <<UndoStage("VoidPayment"), UndoStage("ReleaseInventory")>>

FailureState(s) ==
    CASE s = "inventory.reserve" -> "InventoryFailed" [] s = "fraud.evaluate" -> "FraudFailed"
      [] s = "payment.authorize" -> "PaymentFailed" [] OTHER -> "ShippingFailed"

Step(next, states, rest) == pc' = next /\ path' = path \o states /\ undo' = rest
GoOn(rest) == IF rest = << >> THEN "answer" ELSE rest[1]
Fail(s, result) == Step(GoOn(Plan(s, result)), <<FailureState(s)>>, Plan(s, result))

\* RunStagesAsync and CompensateAsync: what follows the end of stage s.
After(s, result) ==
    IF s = "inventory.reserve" THEN Step("fraud.evaluate", << >>, << >>)
    ELSE IF s = "fraud.evaluate" /\ results["inventory.reserve"] # "ok" THEN Fail("inventory.reserve", results["inventory.reserve"])
    ELSE IF s \in Stages /\ result # "ok" THEN Fail(s, result)
    ELSE IF s = "fraud.evaluate" THEN Step("payment.authorize", <<"InventoryReserved">>, << >>)
    ELSE IF s = "payment.authorize" THEN Step("shipping.create", <<"PaymentAuthorized">>, << >>)
    ELSE IF s = "shipping.create" THEN Step("answer", <<"ShipmentCreated", "Completed">>, << >>)
    ELSE Step(GoOn(Tail(undo)), << >>, Tail(undo))

Try(o) ==
    /\ pc \in AllStages /\ o \in Profile[pc].outcomes /\ Meets(pc, o)
    /\ trouble' = trouble + (IF o = "ok" THEN 0 ELSE 1) /\ trouble' <= MaxTrouble
    /\ authorized' = authorized + (IF Records(pc, o) THEN 1 ELSE 0)
    /\ response' = IF Records(pc, o) THEN "authorized"
                   ELSE IF pc = "payment.authorize" /\ o = "rejected" THEN "declined" ELSE response
    /\ reached' = [reached EXCEPT ![pc] = @ + (IF Reaches(o) THEN 1 ELSE 0)]
    /\ LET made == spans \cup (IF Sends(o) THEN {ClientSpan(pc, o)} ELSE {})
                          \cup (IF Reaches(o) THEN {ServerSpan(pc, o)} ELSE {})
           end == clock + Ticks(pc, o)
       IN  IF ShouldRetry(o) /\ attempt + 1 < Profile[pc].max
           THEN /\ spans' = made /\ attempt' = attempt + 1 /\ clock' = end + Backoff
                /\ UNCHANGED <<pc, path, undo, results, opened, joined>>
           ELSE /\ spans' = made \cup {StageSpan(pc, ResultOf(o), end)}
                /\ results' = [results EXCEPT ![pc] = ResultOf(o)]
                /\ After(pc, ResultOf(o))
                /\ joined' = IF end > joined THEN end ELSE joined
                /\ clock' = (IF pc = "inventory.reserve" THEN 3 ELSE joined')
                /\ opened' = clock' /\ attempt' = 0
    /\ UNCHANGED <<restarts, damage>>

\* A PaymentService pod that restarts loses its idempotency entries.
ServiceRestart ==
    /\ pc = "payment.authorize" /\ restarts < Restarts /\ response # "none"
    /\ restarts' = restarts + 1 /\ response' = "none"
    /\ UNCHANGED <<pc, clock, joined, attempt, opened, results, path, undo, spans, trouble, authorized, reached, damage>>

-----------------------------------------------------------------------------
(* The answer, and the way to the trace storage.                            *)

Final == Last(path)
FailedStage == CHOOSE s \in Stages : FailureState(s) = Final
\* OrderOutcomeMapping.StatusCodeFor, 201 for a completed order.
StatusCode ==
    IF Final = "Completed" THEN 201
    ELSE [rejected |-> 422, error |-> 502, unavailable |-> 503, timeout |-> 504][results[FailedStage]]
Technical == StatusCode >= 500

TransactionSpan ==
    [MakeSpan(<<"order.transaction", 0>>, <<"order.server", 0>>, OrderService, "order.transaction", "INTERNAL", 2, clock) EXCEPT
       !.states = path, !.state = Final, !.status = IF Technical THEN "ERROR" ELSE "UNSET"]

\* After a 5xx Kong finishes a new balancer span instead of the one it sent upstream.
KongSpans ==
    {MakeSpan(<<"kong", 0>>, NoParent, Edge, "kong", "SERVER", 0, clock + 2),
     [MakeSpan(<<"kong.balancer", IF Technical THEN 1 ELSE 0>>, <<"kong", 0>>, Edge, "kong.balancer", "CLIENT", 1, clock + 1) EXCEPT
        !.httpStatus = StatusCode, !.status = IF Technical THEN "ERROR" ELSE "UNSET"]}

Answer ==
    /\ pc = "answer" /\ pc' = "export"
    /\ spans' = spans \cup {TransactionSpan} \cup KongSpans \cup
         {MakeSpan(<<"order.server", 0>>, <<"kong.balancer", 0>>, OrderService, "POST /orders", "SERVER", 1, clock + 1)}
    /\ UNCHANGED <<clock, joined, attempt, opened, results, path, undo, response, restarts, trouble, authorized, reached, damage>>

\* The pipeline stores everything, loses a span or a whole service's batch,
\* misses the pod association, or lets an attribute through that it must delete.
Store(what, trace) ==
    /\ pc = "export" /\ pc' = "judged"
    /\ damage' = what /\ spans' = trace
    /\ UNCHANGED <<clock, joined, attempt, opened, results, path, undo, response, restarts, trouble, authorized, reached>>

Export ==
    \/ Store("none", spans)
    \/ \E s \in spans : Store("lost", spans \ {s})
    \/ \E service \in Services(spans) : Store("batch", {s \in spans : s.service # service})
    \/ \E s \in spans : Store("attribute", (spans \ {s}) \cup {[s EXCEPT !.k8s = FALSE]})
    \/ \E s \in spans : Store("attribute", (spans \ {s}) \cup {[s EXCEPT !.secret = TRUE]})
    \/ \E s \in {x \in spans : x.kind = "SERVER" /\ x.service # Edge} :
         Store("attribute", (spans \ {s}) \cup {[s EXCEPT !.run = "other"]})

-----------------------------------------------------------------------------
(* The verdict of every contract about the order.                           *)

TraceTypeOK ==
    /\ pc \in AllStages \cup {"answer", "export", "judged"}
    /\ clock \in Nat /\ opened \in Nat /\ joined \in Nat /\ attempt \in 0..2
    /\ \A s \in AllStages : results[s] \in {"", "ok", "rejected", "error", "unavailable", "timeout"}
    /\ Range(path) \subseteq Range(FullPath) \cup {FailureState(s) : s \in Stages}
    /\ Range(undo) \subseteq CompensationStages
    /\ \A s \in spans : s.service \in AllServices /\ s.start <= s.end
    /\ response \in {"none", "authorized", "declined"} /\ restarts \in 0..Restarts
    /\ authorized \in 0..(Restarts + 1) /\ damage \in {"none", "lost", "batch", "attribute"}

TheRequest(label) ==
    {[status |-> StatusCode, label |-> label, id |-> Request.id, run |-> Request.run, order |-> Request.order,
      trace |-> spans]}

FlowNames == DOMAIN FailedFlows
TraceContracts == {"normal_order", "slow_payment", "payment_retry", "dependency_unavailable",
                   "collector_outage", "trace_storage_outage", "pod_deletion"} \cup FlowNames

Accepts(c) ==
    Verdict(CASE c = "normal_order" -> NormalOrder(TheRequest(""))
              [] c = "slow_payment" -> SlowPayment(TheRequest(""), 10)
              [] c = "payment_retry" -> PaymentRetry(TheRequest(""), 15)
              [] c = "dependency_unavailable" -> DependencyUnavailable(TheRequest(""))
              [] c = "collector_outage" -> CollectorOutage(TheRequest("during-outage"))
              [] c = "trace_storage_outage" -> TraceStorageOutage(TheRequest("during-outage"), 1, 2)
              [] c = "pod_deletion" -> FailuresKept(TheRequest(""))
              [] OTHER -> FailedFlow(TheRequest(""), FailedFlows[c]))

Called(s) == results[s] # ""
Never(s) == ~Called(s)
\* Attempts really made of a stage that has ended: as many as its span counts.
TheSpan(id) == CHOOSE x \in spans : x.id = id
Made(s) == TheSpan(<<s, 0>>).retryCount + 1
OnlySlow(s) == Final = "Completed" /\ \A x \in Stages \ {s} : Made(x) = 1 /\ DurationOf(TheSpan(<<x, 0>>)) = 1
FirstAuthorization == TheSpan(<<"payment.authorize", 10>>)
UndoTried == \A s \in CompensationStages : Called(s)

\* What really happened is what the contract is named after.
Happened(c) ==
    CASE c = "normal_order" -> Final = "Completed" /\ authorized >= 1
      [] c = "slow_payment" -> Final = "Completed"
      [] c = "payment_retry" -> Final = "Completed" /\ authorized = 1 /\ reached["payment.authorize"] = 2
      [] c = "payment_timeout" -> Final = "PaymentFailed" /\ results["payment.authorize"] = "timeout" /\ Never("shipping.create") /\ UndoTried
      [] c = "inventory_failure" -> Final = "InventoryFailed" /\ authorized = 0 /\ Never("payment.authorize")
      [] c = "fraud_rejection" -> Final = "FraudFailed" /\ authorized = 0 /\ Called("compensation.inventory.release")
      [] c = "shipping_failure" -> Final = "ShippingFailed" /\ authorized >= 1 /\ UndoTried
      [] c = "collector_outage" -> damage = "batch"
      [] c = "trace_storage_outage" -> Final = "Completed"
      [] c = "pod_deletion" -> StatusCode \in {503, 504}
      [] c = "dependency_unavailable" ->
           Final = "ShippingFailed" /\ UndoTried /\ (damage = "none" => reached["shipping.create"] = 0)

\* Every span still has its caller, but for the one Kong replaces after a 5xx.
CallersKept ==
    \A s \in spans : \/ s.parent \in Known(spans) \cup {NoParent}
                     \/ Technical /\ s.name = "POST /orders"

\* A contract that passes tells the truth about the order, whatever single
\* loss or slip of the pipeline the stored trace went through: the order ended
\* as the contract says, the payment was recorded as often as it says, the
\* undo steps were tried, every call shown still has its caller, no span was
\* attributed to the wrong run, none lost its pod and no attribute that has to
\* be deleted came through.
AcceptedMeansTrue ==
    pc = "judged" => \A c \in TraceContracts : 
      Accepts(c) => /\ Happened(c) /\ damage # "attribute"
                    /\ c # "collector_outage" => CallersKept

\* The story each contract was written for.
Story(c) ==
    CASE c = "normal_order" -> Final = "Completed"
      [] c = "slow_payment" -> OnlySlow("payment.authorize") /\ Made("payment.authorize") = 1 /\ DurationOf(FirstAuthorization) = SlowTicks
      [] c = "payment_retry" -> OnlySlow("payment.authorize") /\ Happened(c) /\ Made("payment.authorize") = 2 /\ FirstAuthorization.recorded
      [] c = "payment_timeout" -> Happened(c) /\ reached["payment.authorize"] = 3
      [] c = "inventory_failure" -> results["inventory.reserve"] = "error" /\ reached["fraud.evaluate"] > 0
      [] c = "collector_outage" -> FALSE
      [] c = "trace_storage_outage" -> Final = "Completed"
      [] c = "pod_deletion" -> StatusCode \in {503, 504}
      [] c = "fraud_rejection" -> Final = "FraudFailed" /\ results["fraud.evaluate"] = "rejected"
      [] c = "shipping_failure" -> results["shipping.create"] = "error"
      [] c = "dependency_unavailable" -> results["shipping.create"] = "timeout" /\ reached["shipping.create"] = 0

\* No false alarm: when the pipeline stores every span as it was recorded, a
\* contract accepts the order it was written for, Kong's replaced balancer
\* span after a 5xx answer included.
TruthfulTraceAccepted ==
    pc = "judged" /\ damage = "none" => \A c \in TraceContracts : Story(c) => Accepts(c)

TraceNext == (\E o \in Outcomes : Try(o)) \/ ServiceRestart \/ Answer \/ Export
=============================================================================
