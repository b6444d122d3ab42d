---------------------------- MODULE TraceChecks ----------------------------
(***************************************************************************)
(* The rules that decide whether a stored trace tells the truth about an   *)
(* order (tracechecks.py), over the typed trace of traces.py.              *)
(*                                                                         *)
(* A trace is a set of spans.  Times are whole ticks; ids are pairs of a   *)
(* name and a number; an attribute a span does not have is 0, "" or FALSE. *)
(* A check is TRUE when the code returns an empty list of problems.        *)
(***************************************************************************)
EXTENDS Integers, Sequences, FiniteSets, SequencesExt, FiniteSetsExt

NoParent == <<"", 0>>

Edge == "kong-gateway"
OrderService == "order-service"
Downstream == {"inventory-service", "fraud-service", "payment-service", "shipping-service"}
AllServices == {Edge, OrderService} \cup Downstream
AllowedEdges == {<<Edge, OrderService>>} \cup {<<OrderService, s>> : s \in Downstream}
Stages == {"inventory.reserve", "fraud.evaluate", "payment.authorize", "shipping.create"}
CompensationStages == {"compensation.payment.void", "compensation.inventory.release"}

-----------------------------------------------------------------------------
(* Spans and traces.                                                        *)

DurationOf(s) == s.end - s.start
Overlaps(a, b) == a.start < b.end /\ b.start < a.end

Services(t) == {s.service : s \in t}
SpansNamed(t, name) == {s \in t : s.name = name}
ByService(t, service, kind) == {s \in t : s.service = service /\ s.kind = kind}
ChildrenOf(t, s) == {c \in t : c.parent = s.id}
Known(t) == {s.id : s \in t}
ByStart(S) == CHOOSE q \in SetToSeqs(S) : \A i, j \in DOMAIN q : i < j => q[i].start <= q[j].start

\* The one span of that name, if there is exactly one.
IsSingle(t, name) == Cardinality(SpansNamed(t, name)) = 1
Single(t, name) == CHOOSE s \in SpansNamed(t, name) : TRUE
Transaction(t) == Single(t, "order.transaction")
HasTransaction(t) == IsSingle(t, "order.transaction")

-----------------------------------------------------------------------------
\* As GatewaySpanGaps, but only a trace without an exported balancer span has one.
MutGatewaySpanGaps(t) ==
    {s \in ByService(t, OrderService, "SERVER") :
       s.parent \notin Known(t) /\ ByService(t, Edge, "CLIENT") = {}}
\* OrderService spans whose missing parent is Kong's abandoned balancer span:
\* only after a 5xx answer, and only of the same request.
GatewaySpanGaps(t) ==
    LET balancers == {s \in ByService(t, Edge, "CLIENT") : s.name = "kong.balancer"}
        roots == {s \in ByService(t, Edge, "SERVER") : s.parent = NoParent}
    IN  {s \in ByService(t, OrderService, "SERVER") :
           /\ Cardinality(balancers) = 1 /\ Cardinality(roots) = 1
           /\ \A b \in balancers : b.status = "ERROR" /\ b.httpStatus >= 500
           /\ s.parent \notin Known(t)
           /\ \A r \in roots : s.request = r.request /\ r.start <= s.start}

\* As Integrity, but any missing parent of an OrderService server span is let pass.
MutIntegrity(t) ==
    LET roots == {s \in t : s.parent = NoParent}
    IN  /\ \A s \in t : s.parent = NoParent \/ s.parent \in Known(t) \/ s.kind = "SERVER"
        /\ Cardinality(roots) = 1
        /\ \A r \in roots : r.service = Edge
\* No orphan but the explained ones, and one root, Kong's.
Integrity(t) ==
    LET roots == {s \in t : s.parent = NoParent}
    IN  /\ \A s \in t : s.parent = NoParent \/ s.parent \in Known(t) \/ s \in GatewaySpanGaps(t)
        /\ Cardinality(roots) = 1
        /\ \A r \in roots : r.service = Edge

ServiceEdges(t) ==
    {<<q[1].service, q[2].service>> :
       q \in {x \in t \X t : x[2].parent = x[1].id /\ x[1].service # x[2].service}}

Topology(t, required, forbidden) ==
    /\ required \subseteq Services(t)
    /\ forbidden \cap Services(t) = {}
    /\ ServiceEdges(t) \subseteq AllowedEdges

StagesPresent(t, required, forbidden) ==
    /\ \A name \in required : SpansNamed(t, name) # {}
    /\ \A name \in forbidden : SpansNamed(t, name) = {}

\* Inventory and fraud overlap, payment after both, shipping after payment,
\* compensation after the last business stage.
StageOrder(t) ==
    /\ IsSingle(t, "inventory.reserve") /\ IsSingle(t, "fraud.evaluate")
    /\ LET inventory == Single(t, "inventory.reserve")
           fraud == Single(t, "fraud.evaluate")
           payment == Single(t, "payment.authorize")
           shipping == Single(t, "shipping.create")
           business == UNION {SpansNamed(t, name) : name \in Stages}
       IN  /\ Overlaps(inventory, fraud)
           /\ IsSingle(t, "payment.authorize") => payment.start >= inventory.end /\ payment.start >= fraud.end
           /\ IsSingle(t, "payment.authorize") /\ IsSingle(t, "shipping.create") => shipping.start >= payment.end
           /\ \A name \in CompensationStages : \A c \in SpansNamed(t, name), s \in business : c.start >= s.end

StatePath(t, path) ==
    /\ HasTransaction(t)
    /\ Transaction(t).states = path
    /\ Transaction(t).state = Last(path)

ErrorMarking(t, technical) == HasTransaction(t) /\ (technical <=> Transaction(t).status = "ERROR")

Attempts(t, name) == ByStart({c \in ChildrenOf(t, Single(t, name)) : c.kind = "CLIENT"})

\* Attempts numbered 1..n in order, one retry event and count per retry.
Retries(t, name, n) ==
    /\ IsSingle(t, name)
    /\ LET numbers == [i \in 1..Len(Attempts(t, name)) |-> Attempts(t, name)[i].attempt]
           stage == Single(t, name)
       IN  /\ numbers = [i \in 1..n |-> i]
           /\ stage.retryEvents = n - 1
           /\ n > 1 => stage.retryCount = n - 1

\* Recorded exactly once over all attempts, and the last one was a replay.
IdempotentReplay(t) ==
    LET servers == ByStart({s \in ByService(t, "payment-service", "SERVER") : s.name = "POST /authorizations"})
    IN  /\ Len(servers) >= 2
        /\ Cardinality({i \in 1..Len(servers) : servers[i].recorded}) = 1
        /\ Last(servers).replay

\* The stage takes at least percent of the transaction and is its longest child.
LatencyDominance(t, name, percent, minTrace) ==
    /\ HasTransaction(t) /\ IsSingle(t, name)
    /\ LET tx == Transaction(t)
           stage == Single(t, name)
       IN  /\ 100 * DurationOf(stage) >= percent * DurationOf(tx)
           /\ \A c \in ChildrenOf(t, tx) : DurationOf(c) <= DurationOf(stage)
           /\ \A r \in {s \in t : s.parent = NoParent} : DurationOf(r) >= minTrace

KubernetesMetadata(t) == \A s \in t : s.k8s

\* The identifiers of the request on OrderService's span, and the run's id downstream.
Correlation(t, request) ==
    /\ ByService(t, OrderService, "SERVER") # {}
    /\ \A s \in ByService(t, OrderService, "SERVER") : s.request = request.id /\ s.run = request.run
    /\ HasTransaction(t) => Transaction(t).order = request.order
    /\ \A s \in t : s.service \in Downstream /\ s.kind = "SERVER" => s.run = request.run

\* No attribute with a telling name, and no canary anywhere.
SensitiveData(t) == \A s \in t : ~s.secret
=============================================================================
