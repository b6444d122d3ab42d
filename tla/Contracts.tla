----------------------------- MODULE Contracts -----------------------------
(***************************************************************************)
(* What the stored traces and the counters of a scenario must show         *)
(* (contracts.py).  A contract is the set of its check results; a request  *)
(* is a record with its status, label, identifiers and stored trace, {} if *)
(* none was stored by the end of the wait.                                 *)
(***************************************************************************)
EXTENDS TraceChecks

FullPath == <<"InventoryReserved", "PaymentAuthorized", "ShipmentCreated", "Completed">>

Result(name, passed) == [name |-> name, passed |-> passed]

\* record.passed over what verify adds: a contract without checks fails.
Verdict(results) == results # {} /\ \A r \in results : r.passed

\* wait_for_trace polls until the services are there, or answers what it has.
Stored(r, required) == r.trace # {} /\ required \subseteq Services(r.trace)

NotKept(requests, required, name) == {Result(name, FALSE) : r \in {q \in requests : ~Stored(q, required)}}

StoredTraces(requests, required, name, Checks(_)) ==
    NotKept(requests, required, name)
      \cup UNION {Checks(r) : r \in {q \in requests : Stored(q, required)}}

WithStatus(requests, status) == {r \in requests : r.status = status}
Labelled(requests, label) == {r \in requests : r.label = label}

Common(r) ==
    {Result("trace integrity", Integrity(r.trace)), Result("kubernetes metadata", KubernetesMetadata(r.trace)),
     Result("correlation", Correlation(r.trace, r)), Result("sensitive data", SensitiveData(r.trace))}

-----------------------------------------------------------------------------
(* Contracts about the trace of each order.                                 *)

NormalOrder(requests) ==
    StoredTraces(WithStatus(requests, 201), AllServices, "traces kept", LAMBDA r :
      Common(r) \cup
        {Result("topology", Topology(r.trace, AllServices, {})), Result("stage order", StageOrder(r.trace)),
         Result("state events", StatePath(r.trace, FullPath)), Result("error marking", ErrorMarking(r.trace, FALSE))})

SlowPayment(requests, minTrace) ==
    StoredTraces(WithStatus(requests, 201), AllServices, "slow traces kept without debug", LAMBDA r :
      Common(r) \cup
        {Result("latency attribution", LatencyDominance(r.trace, "payment.authorize", 60, minTrace)),
         Result("state events", StatePath(r.trace, FullPath))})

PaymentRetry(requests, minTrace) ==
    StoredTraces(WithStatus(requests, 201), AllServices, "retried traces kept", LAMBDA r :
      Common(r) \cup
        {Result("retry attempts", Retries(r.trace, "payment.authorize", 2)),
         Result("idempotent replay", IdempotentReplay(r.trace)),
         Result("accumulated latency", LatencyDominance(r.trace, "payment.authorize", 50, minTrace)),
         Result("state events", StatePath(r.trace, FullPath))})

\* _failed_flow; an expectation is [status, path, required, forbidden, stages,
\* forbiddenStages, technical, retried], retried = 0 when none is expected.
FailedFlow(requests, e) ==
    {Result("traces kept", FALSE) : x \in {y \in {0} : WithStatus(requests, e.status) = {}}} \cup
    StoredTraces(WithStatus(requests, e.status), e.required, "failure traces kept", LAMBDA r :
      Common(r) \cup
        {Result("topology", Topology(r.trace, e.required, e.forbidden)),
         Result("stages", StagesPresent(r.trace, e.stages, e.forbiddenStages)),
         Result("stage order", StageOrder(r.trace)), Result("state events", StatePath(r.trace, e.path)),
         Result("error marking", ErrorMarking(r.trace, e.technical)),
         Result("retry attempts", e.retried > 0 => Retries(r.trace, "payment.authorize", e.retried))})

FanOut == {Edge, OrderService, "inventory-service", "fraud-service"}

FailedFlows ==
    [payment_timeout |->
       [status |-> 504, path |-> <<"InventoryReserved", "PaymentFailed">>, required |-> FanOut \cup {"payment-service"},
        forbidden |-> {"shipping-service"}, stages |-> {"payment.authorize"} \cup CompensationStages,
        forbiddenStages |-> {"shipping.create"}, technical |-> TRUE, retried |-> 3],
     inventory_failure |->
       [status |-> 502, path |-> <<"InventoryFailed">>, required |-> FanOut,
        forbidden |-> {"payment-service", "shipping-service"}, stages |-> {"inventory.reserve", "fraud.evaluate"},
        forbiddenStages |-> {"payment.authorize", "shipping.create"}, technical |-> TRUE, retried |-> 0],
     fraud_rejection |->
       [status |-> 422, path |-> <<"FraudFailed">>, required |-> FanOut,
        forbidden |-> {"payment-service", "shipping-service"}, stages |-> {"fraud.evaluate", "compensation.inventory.release"},
        forbiddenStages |-> {"payment.authorize", "shipping.create"}, technical |-> FALSE, retried |-> 0],
     shipping_failure |->
       [status |-> 502, path |-> <<"InventoryReserved", "PaymentAuthorized", "ShippingFailed">>, required |-> AllServices,
        forbidden |-> {}, stages |-> {"shipping.create"} \cup CompensationStages,
        forbiddenStages |-> {}, technical |-> TRUE, retried |-> 0]]

\* A call timed out, and nothing of the service it was for.
ShippingMissing(t) ==
    /\ \E s \in SpansNamed(t, "shipping.create") : s.failureKind = "timeout"
    /\ ByService(t, "shipping-service", "SERVER") = {}

DependencyUnavailable(requests) ==
    {Result("missing dependency visible", FALSE) : x \in {y \in {0} : WithStatus(requests, 504) = {}}} \cup
    StoredTraces(WithStatus(requests, 504), {Edge, OrderService, "payment-service"}, "failure traces kept", LAMBDA r :
      Common(r) \cup
        {Result("missing dependency visible", ShippingMissing(r.trace)),
         Result("retry attempts", Retries(r.trace, "shipping.create", 3)),
         Result("stages", StagesPresent(r.trace, CompensationStages, {}))})

-----------------------------------------------------------------------------
(* Contracts about outages of the telemetry pipeline itself.                *)

Complete(requests, label) ==
    StoredTraces(Labelled(requests, label), AllServices, "complete traces", LAMBDA r :
      Common(r) \cup {Result("state events", StatePath(r.trace, FullPath))})

\* Traces before and after are complete; those of the window are missing.
CollectorOutage(requests) ==
    LET during == Labelled(requests, "during-outage")
    IN  Complete(requests, "before-outage") \cup Complete(requests, "after-recovery") \cup
        {Result("spans from the outage window are missing",
                during # {} /\ \A r \in during : OrderService \notin Services(r.trace))}

\* Nothing of the window is lost, and the exporter's queue was used, not full.
TraceStorageOutage(requests, peak, capacity) ==
    Complete(requests, "during-outage") \cup
      {Result("traces from the outage delivered later", Labelled(requests, "during-outage") # {}),
       Result("writes waited in a bounded queue while the storage was down", peak > 0 /\ (capacity = 0 \/ peak < capacity))}

-----------------------------------------------------------------------------
(* Contracts about which pod served the kept requests: a sequence, by start *)
(* time, of [pod, slow, late].                                              *)

Pods(served) == {served[i].pod : i \in DOMAIN served}

\* The failures of a pod deletion, whose traces are always kept.
FailuresKept(requests) ==
    StoredTraces({r \in requests : r.status \in {503, 504}}, {OrderService}, "failure traces kept", LAMBDA r : Common(r))

PodDeletion(served, deleted) == deleted \in Pods(served) /\ Pods(served) \ {deleted} # {}

\* Replaced pods first, new pods last.
RollingRestart(served, replaced) ==
    /\ served # <<>> /\ replaced # {}
    /\ served[1].pod \in replaced
    /\ Last(served).pod \notin replaced

ReadinessLoss(served, unready) ==
    LET late == {served[i].pod : i \in {k \in DOMAIN served : served[k].late}}
    IN  late # {} /\ unready \notin late

ReplicaDegradation(served, degraded) ==
    LET slow == {served[i].pod : i \in {k \in DOMAIN served : served[k].slow}}
        fast == {served[i].pod : i \in {k \in DOMAIN served : ~served[k].slow}}
    IN  slow = {degraded} /\ fast \ slow # {}

-----------------------------------------------------------------------------
(* Contracts about counters.  A counter is read at every poll; wait ends    *)
(* with the first reading that has caught up, or with the last one.         *)

MetricDelta(reading, before) == reading - before

WaitMetricDelta(readings, before, expected) ==
    LET enough == {i \in DOMAIN readings : MetricDelta(readings[i], before) >= expected}
    IN  MetricDelta(readings[IF enough = {} THEN Len(readings) ELSE Min(enough)], before)

\* As EdgeRejection, but OrderService may have handled more than passed Kong.
MutEdgeRejection(statuses, status, kong, orders, kongBefore, ordersBefore, kept) ==
    LET rejected == Cardinality({i \in DOMAIN statuses : statuses[i] = status})
        accepted == Cardinality({i \in DOMAIN statuses : statuses[i] \notin {status, 0}})
    IN  /\ WaitMetricDelta(kong, kongBefore, rejected) = rejected
        /\ WaitMetricDelta(orders, ordersBefore, accepted) >= accepted
        /\ \A services \in kept : services = {Edge}
\* Every rejection counted at Kong, only the others reached OrderService, and
\* the rejection traces that sampling kept (their services) end at Kong.
EdgeRejection(statuses, status, kong, orders, kongBefore, ordersBefore, kept) ==
    LET rejected == Cardinality({i \in DOMAIN statuses : statuses[i] = status})
        accepted == Cardinality({i \in DOMAIN statuses : statuses[i] \notin {status, 0}})
    IN  /\ WaitMetricDelta(kong, kongBefore, rejected) = rejected
        /\ WaitMetricDelta(orders, ordersBefore, accepted) = accepted
        /\ \A services \in kept : services = {Edge}

\* Every refusal counted, and none of the refused requests went on.
AuthDenied(statuses, readings, inventoryCalls) ==
    /\ \A code \in {401, 403} :
         LET observed == Cardinality({i \in DOMAIN statuses : statuses[i] = code})
         IN  WaitMetricDelta(readings[code], 0, observed) = observed
    /\ inventoryCalls = 0

NoNewErrors(errors, before) == MetricDelta(errors, before) = 0

\* Rejections counted, no application error, nothing dropped by the pipeline.
TrafficSpike(statuses, kong, errors, dropped, refused, points) ==
    LET rejected == Cardinality({i \in DOMAIN statuses : statuses[i] = 429})
    IN  /\ WaitMetricDelta(kong, 0, rejected) = rejected
        /\ NoNewErrors(errors, 0) /\ dropped = 0 /\ refused = 0 /\ points > 0
=============================================================================
