-------------------------- MODULE ScenarioVerdict --------------------------
(***************************************************************************)
(* One scenario run seen from its verdict: the planned traffic (workload.  *)
(* py), the answers, the orders read back and the counters and pods of the *)
(* telemetry, and the checks that decide whether the run passed            *)
(* (expectations.py, contracts.py, engine.py).  The ghost of a request is  *)
(* what really became of it.                                               *)
(***************************************************************************)
EXTENDS Contracts

CONSTANTS
    Steps,              \* workload steps to plan
    Driven,             \* the steps whose traffic is run, too
    Scale,              \* rates and times are whole numbers of 1 / Scale
    Kinds,              \* scenarios to run
    MaxCarried          \* counts of earlier traffic the first snapshot missed, at most

ASSUME ScaleAssumption == Scale \in Nat \ {0} /\ MaxCarried \in Nat

\* The fields of a step by themselves; absent ones are 0.  The floats of the
\* schema are fractions of one denominator.  Where the product of two is whole,
\* the one the machine computes may lie a shade below it (0.29 * 100): inexact
\* has the parts of the plan this happens to.
ASSUME StepsAssumption ==
    Steps \subseteq [profile : {"single", "burst", "concurrent", "steady", "spike"}, requests : Nat \ {0},
                     concurrency : Nat \ {0}, rate : Nat, duration : Nat, spikeRate : Nat, spikeSeconds : Nat,
                     inexact : SUBSET {"start", "spike", "tail"}, debug : BOOLEAN, identity : STRING]

VARIABLES
    kind, step,
    phase,              \* "traffic", "readback", "settle" or "done"
    answers,            \* request -> its outcome, "unsent" or "waiting"
    served,             \* requests that reached a pod, by start time: [pod, slow, late]
    world,              \* "before", "during" or "after" the Kubernetes event
    counted,            \* counter -> what Prometheus has more of it than metrics_before
    lag,                \* counter -> what happened, but no scrape or no reading has seen
    missing,            \* orders that could not be read back
    status              \* the record's status

verdictVars == <<kind, step, phase, answers, served, world, counted, lag, missing, status>>

-----------------------------------------------------------------------------
(* The schema's validation and the plan of a step.                          *)

\* WorkloadStep.check_profile, the optional fields being 0 when absent.
ValidStep(s) ==
    /\ s.profile \in {"steady", "spike"} => s.rate > 0 /\ s.duration > 0
    /\ s.profile = "spike" => s.spikeRate > 0 /\ s.spikeSeconds > 0 /\ s.spikeSeconds < s.duration
    /\ s.debug => s.identity = "scenario-runner"

\* CountRule.one_kind; -1 stands for an absent bound.
ValidRule(r) == r.all <=> r.exactly = -1 /\ r.min = -1 /\ r.max = -1

\* The times of a spike are in units of 1 / (2 * Scale * rate * spikeRate)
\* seconds of these fields, so that every planned start is whole.
SpikeStart(s) == (s.duration - s.spikeSeconds) * s.rate * s.spikeRate
TailStart(s) == (s.duration + s.spikeSeconds) * s.rate * s.spikeRate

\* int() of a rate times a time, the exact product being product / over.
Truncated(s, part, product, over) == (product - (IF part \in s.inexact THEN 1 ELSE 0)) \div over

\* As Evenly, but the first request comes after a gap.
MutEvenly(from, gap, n) == [i \in 1..n |-> from + i * gap]
\* n requests, one every gap.
Evenly(from, gap, n) == [i \in 1..n |-> from + (i - 1) * gap]

\* A request every 1 / rate seconds; of a spike, the middle has its own rate.
Schedule(s) ==
    LET square == Scale * Scale
        quiet(part) == Truncated(s, part, s.rate * (s.duration - s.spikeSeconds), 2 * square)
        gap == 2 * square * s.spikeRate
    IN  CASE s.profile = "single" -> <<0>>
          [] s.profile \in {"burst", "concurrent"} -> [i \in 1..s.requests |-> 0]
          [] s.profile = "steady" -> Evenly(0, 2 * square, Truncated(s, "start", s.rate * s.duration, square))
          [] OTHER -> Evenly(0, gap, quiet("start"))
                        \o Evenly(SpikeStart(s), 2 * square * s.rate, Truncated(s, "spike", s.spikeRate * s.spikeSeconds, square))
                        \o Evenly(TailStart(s), gap, quiet("tail"))

Planned == 1..Len(Schedule(step))
Limit(s) == IF s.profile = "concurrent" THEN s.concurrency ELSE 10000
Waiting == {i \in Planned : answers[i] = "waiting"}

-----------------------------------------------------------------------------
(* What can become of a request: its answer, and the truth behind it.       *)

Outcome(code, order, authorizations, undone, arrived) ==
    [status |-> code, order |-> order, authorizations |-> authorizations, undone |-> undone, arrived |-> arrived]

Fates ==
    [completed |-> Outcome(201, "Completed", 1, << >>, TRUE),
     charged_twice |-> Outcome(201, "Completed", 2, << >>, TRUE),
     \* A transport error: the client has no answer, the order may exist.
     unanswered |-> Outcome(0, "Completed", 1, << >>, TRUE),
     over_limit |-> Outcome(429, "", 0, << >>, FALSE),
     too_large |-> Outcome(413, "", 0, << >>, FALSE),
     \* Rejected to the client, yet passed on.
     over_limit_leaked |-> Outcome(429, "Completed", 1, << >>, TRUE),
     too_large_leaked |-> Outcome(413, "", 0, << >>, TRUE),
     \* Answered by Kong itself, OrderService saw nothing.
     dropped_by_kong |-> Outcome(504, "", 0, << >>, FALSE),
     payment_failed |-> Outcome(503, "PaymentFailed", 0, <<"VoidPayment", "ReleaseInventory">>, TRUE),
     payment_late |-> Outcome(504, "PaymentFailed", 0, <<"VoidPayment", "ReleaseInventory">>, TRUE),
     \* Undone, though the payment had taken effect.
     charged_late |-> Outcome(504, "PaymentFailed", 1, <<"VoidPayment", "ReleaseInventory">>, TRUE),
     fraud_failed |-> Outcome(503, "FraudFailed", 0, <<"ReleaseInventory">>, TRUE),
     no_token |-> Outcome(401, "", 0, << >>, TRUE),
     no_permission |-> Outcome(403, "", 0, << >>, TRUE),
     \* Refused to the client, yet the order was processed.
     refused_too_late |-> Outcome(403, "Completed", 1, << >>, TRUE),
     undo_failed |-> Outcome(504, "PaymentFailed", 0, <<"ReleaseInventory">>, TRUE)]

EdgeKinds == {"kong-rate-limit", "oversized-request"}
EdgeStatus(k) == IF k = "oversized-request" THEN 413 ELSE 429
PodKinds == {"rolling-restart", "readiness-loss", "replica-degradation", "pod-deletion"}

FatesOf(k) ==
    CASE k = "normal-order" -> {"completed", "charged_twice", "unanswered"}
      [] k = "kong-rate-limit" -> {"completed", "over_limit", "over_limit_leaked", "dropped_by_kong", "unanswered"}
      [] k = "oversized-request" -> {"too_large", "too_large_leaked", "dropped_by_kong"}
      [] k = "traffic-spike" -> {"completed", "over_limit", "payment_failed"}
      [] k = "auth-denied" -> {"no_token", "no_permission", "refused_too_late"}
      [] k = "payment-timeout" -> {"payment_late", "charged_late", "undo_failed"}
      [] k = "pod-deletion" -> {"completed", "payment_failed", "payment_late", "undo_failed"}
      [] OTHER -> {"completed", "fraud_failed"}

\* The pods that may serve a request now.
PodsNow ==
    CASE kind \in {"rolling-restart", "pod-deletion"} ->
           [before |-> {"old"}, during |-> {"old", "new"}, after |-> {"new"}][world]
      [] kind = "readiness-loss" -> IF world = "after" THEN {"healthy"} ELSE {"faulty", "healthy"}
      [] OTHER -> {"faulty", "healthy"}

-----------------------------------------------------------------------------
(* The traffic.                                                             *)

\* METRIC_KEYS: the counters of the requests that a scenario's contract reads.
MetricKeys(k) ==
    CASE k = "kong-rate-limit" -> {"kong_429", "order_posts"}
      [] k = "oversized-request" -> {"kong_413", "order_posts"}
      [] k = "auth-denied" -> {"order_401", "order_403", "inventory_calls"}
      [] k = "traffic-spike" -> {"kong_429", "order_errors"}
      [] k \in {"rolling-restart", "readiness-loss"} -> {"order_errors"}
      [] OTHER -> {}

\* METRICS: which requests a counter counts.
Counts(key, o) ==
    \/ key = "kong_429" /\ o.status = 429
    \/ key = "kong_413" /\ o.status = 413
    \/ key = "order_posts" /\ o.arrived
    \/ key = "order_401" /\ o.status = 401
    \/ key = "order_403" /\ o.status = 403
    \/ key = "order_errors" /\ o.status >= 500 /\ o.arrived
    \/ key = "inventory_calls" /\ o.order # ""

\* snapshot_metrics has been taken, maybe before Prometheus had all of the
\* traffic that went before.
Fresh(k, s) ==
    /\ kind = k /\ step = s /\ phase = "traffic" /\ answers = [i \in 1..Len(Schedule(s)) |-> "unsent"]
    /\ served = << >> /\ world = "before" /\ missing = {} /\ status = "running"
    /\ counted = [c \in MetricKeys(k) |-> 0] /\ lag \in [MetricKeys(k) -> 0..MaxCarried]

VerdictInit == \E k \in Kinds, s \in {x \in Steps : ValidStep(x)} : Fresh(k, s)

\* As Send, but the limiter is not asked.
MutSend(i, pod) ==
    /\ phase = "traffic" /\ step \in Driven
    /\ answers[i] = "unsent" /\ pod \in PodsNow
    /\ answers' = [answers EXCEPT ![i] = "waiting"]
    /\ served' = Append(served, [pod |-> pod, slow |-> pod = "faulty", late |-> world = "after"])
    /\ UNCHANGED <<kind, step, phase, world, counted, lag, missing, status>>
\* _send: a planned request starts once its time has come and the step's
\* semaphore lets it.  Its token may take long to get, so that a later one
\* overtakes it.
Send(i, pod) ==
    /\ phase = "traffic" /\ step \in Driven
    /\ answers[i] = "unsent" /\ Cardinality(Waiting) < Limit(step) /\ pod \in PodsNow
    /\ answers' = [answers EXCEPT ![i] = "waiting"]
    /\ served' = Append(served, [pod |-> pod, slow |-> pod = "faulty", late |-> world = "after"])
    /\ UNCHANGED <<kind, step, phase, world, counted, lag, missing, status>>

\* The answer, or httpx.HTTPError; answers come back in any order.
Reply(i, fate) ==
    /\ answers[i] = "waiting" /\ fate \in FatesOf(kind)
    /\ answers' = [answers EXCEPT ![i] = fate]
    /\ lag' = [c \in MetricKeys(kind) |-> lag[c] + (IF Counts(c, Fates[fate]) THEN 1 ELSE 0)]
    /\ UNCHANGED <<kind, step, phase, served, world, counted, missing, status>>

\* The rollout, the deletion, or the end of the pooled connections' lifetime.
Disturb ==
    /\ phase = "traffic" /\ kind \in PodKinds
    /\ world' = [before |-> "during", during |-> "after", after |-> "after"][world]
    /\ world' # world
    /\ UNCHANGED <<kind, step, phase, answers, served, counted, lag, missing, status>>

\* Prometheus gets to know some of what a counter lags behind: spans are
\* exported, aggregated and scraped with no bound the verdict knows of.  What
\* it knew before the verdict's time nobody asks for.
Scrape(c, n) ==
    /\ phase = "settle" /\ n \in 1..lag[c]
    /\ counted' = [counted EXCEPT ![c] = @ + n]
    /\ lag' = [lag EXCEPT ![c] = @ - n]
    /\ UNCHANGED <<kind, step, phase, answers, served, world, missing, status>>

Finish ==
    /\ phase = "traffic" /\ \A i \in Planned : answers[i] \in DOMAIN Fates
    /\ phase' = "readback"
    /\ UNCHANGED <<kind, step, answers, served, world, counted, lag, missing, status>>

-----------------------------------------------------------------------------
(* The verdict.                                                             *)

FateOf(i) == Fates[answers[i]]
\* _order_reference: the client knows the orders whose answer it got.
Referenced(i) == FateOf(i).status \notin {0, 403, 413, 429} /\ FateOf(i).order # ""

\* _read_back_orders: an order that cannot be read is left out, silently.
ReadBack(lost) ==
    /\ phase = "readback" /\ lost \subseteq {i \in Planned : Referenced(i)}
    /\ missing' = lost /\ phase' = "settle"
    /\ UNCHANGED <<kind, step, answers, served, world, counted, lag, status>>

Orders == {i \in Planned : Referenced(i)} \ missing
CountWith(P(_)) == Cardinality({i \in Planned : P(i)})

Rule(all, exactly, min, max) == [all |-> all, exactly |-> exactly, min |-> min, max |-> max]
All == Rule(TRUE, -1, -1, -1)
Exactly(n) == Rule(FALSE, n, -1, -1)
Between(low, high) == Rule(FALSE, -1, low, high)

Only(v, rule) == [x \in {v} |-> rule]
Two(v, rule, w, other) == [x \in {v, w} |-> IF x = v THEN rule ELSE other]

\* ApplicationExpectations; -1 and "any" when the scenario does not state one.
Expected(k) ==
    CASE k = "normal-order" ->
           [statuses |-> Only(201, All), states |-> Only("Completed", All), authorizations |-> 1, compensation |-> <<"any">>]
      [] k = "oversized-request" ->
           [statuses |-> Only(413, All), states |-> << >>, authorizations |-> -1, compensation |-> <<"any">>]
      [] k = "auth-denied" ->
           [statuses |-> Two(401, Exactly(2), 403, Exactly(1)), states |-> << >>, authorizations |-> -1,
            compensation |-> <<"any">>]
      [] k = "payment-timeout" ->
           [statuses |-> Only(504, All), states |-> Only("PaymentFailed", All), authorizations |-> 0,
            compensation |-> <<"VoidPayment", "ReleaseInventory">>]
      [] k \in {"kong-rate-limit", "traffic-spike"} ->
           [statuses |-> Two(201, Between(1, 2), 429, Between(1, 2)), states |-> Only("Completed", Between(1, 2)),
            authorizations |-> -1, compensation |-> <<"any">>]
      [] k = "pod-deletion" ->
           [statuses |-> [v \in {201, 503, 504} |-> IF v = 201 THEN Between(1, -1) ELSE Between(-1, 1)],
            states |-> Two("Completed", Between(1, -1), "PaymentFailed", Between(-1, 1)),
            authorizations |-> -1, compensation |-> <<"any">>]
      [] OTHER -> [statuses |-> Only(201, All), states |-> Only("Completed", All), authorizations |-> -1, compensation |-> <<"any">>]

CountMatches(rule, count, total) ==
    IF rule.all THEN count = total /\ total > 0
    ELSE /\ rule.exactly # -1 => count = rule.exactly
         /\ rule.min # -1 => count >= rule.min
         /\ rule.max # -1 => count <= rule.max

ASSUME RuleAssumption ==
    \A k \in Kinds : \A v \in DOMAIN Expected(k).statuses : ValidRule(Expected(k).statuses[v])

\* Every listed value as often as its rule says, and no other value.
EvaluateCounts(rules, value) ==
    /\ \A v \in DOMAIN rules :
         CountMatches(rules[v], Cardinality({i \in DOMAIN value : value[i] = v}), Cardinality(DOMAIN value))
    /\ {value[i] : i \in DOMAIN value} \subseteq DOMAIN rules

EvaluateStatuses(e) == EvaluateCounts(e.statuses, [i \in Planned |-> FateOf(i).status])
EvaluateStates(e) == e.states # << >> => EvaluateCounts(e.states, [i \in Orders |-> FateOf(i).order])

EvaluateCompensation(e) ==
    LET failed == {i \in Orders : FateOf(i).order = "PaymentFailed"}
    IN  e.compensation # <<"any">> => /\ \A i \in failed : FateOf(i).undone = e.compensation
                                      /\ failed # {} \/ e.compensation = << >>

\* The ledger of a ready payment pod, asked for the orders read back if the
\* scenario states a number.
MayBeReady(k) == IF Expected(k).authorizations = -1 THEN {TRUE} ELSE BOOLEAN
PaymentAuthorizations(ready) == [i \in IF ready THEN Orders ELSE {} |-> FateOf(i).authorizations]

EvaluateAuthorizations(e, perOrder) ==
    e.authorizations # -1 => /\ \A i \in DOMAIN perOrder : perOrder[i] = e.authorizations
                             /\ DOMAIN perOrder # {}

ApplicationChecks(e, ready) ==
    {Result("HTTP statuses", EvaluateStatuses(e)), Result("order states", EvaluateStates(e)),
     Result("compensation", EvaluateCompensation(e)),
     Result("payment authorizations", EvaluateAuthorizations(e, PaymentAuthorizations(ready)))}

StatusList == [i \in Planned |-> FateOf(i).status]
AnsweredAs(codes) == CountWith(LAMBDA i : FateOf(i).status \in codes)

\* What the contract waits for a counter to reach; metric_delta waits for nothing.
Awaited(c) ==
    CASE c = "kong_429" -> AnsweredAs({429})
      [] c = "kong_413" -> AnsweredAs({413})
      [] c = "order_401" -> AnsweredAs({401})
      [] c = "order_403" -> AnsweredAs({403})
      [] c = "order_posts" -> CountWith(LAMBDA i : FateOf(i).status \notin {EdgeStatus(kind), 0})
      [] OTHER -> 0

\* What the verdict goes by, having read a counter as the readings say.
Read(c, readings) == WaitMetricDelta(readings[c], 0, Awaited(c))

\* CONTRACTS and METRIC_KEYS: the counters are compared with the snapshot
\* taken before any traffic, here 0; kept are the requests whose trace is stored.
ServicesOf(i) == IF FateOf(i).arrived THEN {Edge, OrderService} ELSE {Edge}

TelemetryChecks(kept, readings) ==
    CASE kind \in EdgeKinds ->
           {Result("edge", EdgeRejection(StatusList, EdgeStatus(kind),
                                      readings[IF kind = "oversized-request" THEN "kong_413" ELSE "kong_429"],
                                      readings["order_posts"], 0, 0, {ServicesOf(i) : i \in kept}))}
      [] kind = "auth-denied" ->
           {Result("denied", AuthDenied(StatusList, [code \in {401, 403} |-> readings[IF code = 401 THEN "order_401" ELSE "order_403"]],
                                        Read("inventory_calls", readings)))}
      [] kind = "traffic-spike" ->
           {Result("spike", TrafficSpike(StatusList, readings["kong_429"], Read("order_errors", readings),
                                         0, 0, 1))}
      [] kind = "rolling-restart" ->
           {Result("no errors", NoNewErrors(Read("order_errors", readings), 0)),
            Result("traffic moved", RollingRestart(served, {"old"}))}
      [] kind = "readiness-loss" ->
           {Result("no errors", NoNewErrors(Read("order_errors", readings), 0)),
            Result("unready replica removed", ReadinessLoss(served, "faulty"))}
      [] kind = "replica-degradation" -> {Result("latency attributed", ReplicaDegradation(served, "faulty"))}
      [] kind = "pod-deletion" -> {Result("workload attribution", PodDeletion(served, "old"))}
      [] OTHER -> {}

\* The first reading of each counter, and the last one if need be: some have
\* caught up in the meantime.
Readings(caught) == [c \in MetricKeys(kind) |-> <<counted[c], counted[c] + (IF c \in caught THEN lag[c] ELSE 0)>>]

\* run: both layers' checks, then the record's status.  Sampling may keep the
\* trace of any rejected request, payment-service may have no ready pod, and
\* some counters may catch up while the verdict waits.  What it went by is what
\* is counted; the rest it has not seen.
Judge(kept, ready, caught) ==
    /\ phase = "settle" /\ phase' = "done"
    /\ status' = IF Verdict(ApplicationChecks(Expected(kind), ready) \cup TelemetryChecks(kept, Readings(caught)))
                 THEN "passed" ELSE "failed"
    /\ counted' = [c \in MetricKeys(kind) |-> Read(c, Readings(caught))]
    /\ lag' = [c \in MetricKeys(kind) |-> counted[c] + lag[c] - Read(c, Readings(caught))]
    /\ UNCHANGED <<kind, step, answers, served, world, missing>>

RejectedAtEdge == {i \in Planned : kind \in EdgeKinds /\ FateOf(i).status = EdgeStatus(kind)}

VerdictNext ==
    \/ \E i \in Planned, pod \in {"old", "new", "faulty", "healthy"} : Send(i, pod)
    \/ \E i \in Planned, fate \in DOMAIN Fates : Reply(i, fate)
    \/ Disturb \/ Finish
    \/ \E c \in MetricKeys(kind) : \E n \in 1..lag[c] : Scrape(c, n)
    \/ \E lost \in SUBSET Planned : ReadBack(lost)
    \/ phase = "settle" /\ \E kept \in SUBSET RejectedAtEdge, ready \in MayBeReady(kind), caught \in SUBSET MetricKeys(kind) :
                             Judge(kept, ready, caught)

VerdictSpec == VerdictInit /\ [][VerdictNext]_verdictVars

-----------------------------------------------------------------------------
(* Properties.                                                              *)

VerdictTypeOK ==
    /\ kind \in Kinds /\ ValidStep(step)
    /\ phase \in {"traffic", "readback", "settle", "done"}
    /\ \A i \in Planned : answers[i] \in {"unsent", "waiting"} \cup DOMAIN Fates
    /\ Cardinality(Waiting) <= Limit(step)
    /\ Len(served) <= Len(Schedule(step))
    /\ world \in {"before", "during", "after"} /\ missing \subseteq Planned
    /\ counted \in [MetricKeys(kind) -> Nat] /\ lag \in [MetricKeys(kind) -> Nat]
    /\ status \in {"running", "passed", "failed"}

Offsets(from, to) == {i \in Planned : from <= Schedule(step)[i] /\ Schedule(step)[i] < to}

\* A part of the plan has the requests its rate gives, product / over, with the
\* fraction left out, and one fewer at most, where the product is inexact.
PartAsPlanned(part, from, to, product, over) ==
    LET n == Cardinality(Offsets(from, to))
    IN  /\ n * over <= product /\ product <= (n + 1) * over
        /\ product = (n + 1) * over => part \in step.inexact

\* The plan gives the traffic the step describes, for any fractions the schema
\* takes: it never runs backwards, no request falls out of its part of the step
\* or past the end, and each part has its rate, the baseline around the spike
\* and the spike's own in the middle, but for the fraction int() cuts off.
TrafficAsPlanned ==
    /\ \A i, j \in Planned : i < j => Schedule(step)[i] <= Schedule(step)[j]
    /\ step.profile = "steady" =>
         LET end == 2 * step.duration * step.rate
         IN  /\ Offsets(0, end) = Planned
             /\ PartAsPlanned("start", 0, end, step.rate * step.duration, Scale * Scale)
    /\ step.profile = "spike" =>
         LET end == 2 * step.duration * step.rate * step.spikeRate
             quiet == step.rate * (step.duration - step.spikeSeconds)
         IN  /\ Offsets(0, end) = Planned
             /\ PartAsPlanned("start", 0, SpikeStart(step), quiet, 2 * (Scale * Scale))
             /\ PartAsPlanned("spike", SpikeStart(step), TailStart(step), step.spikeRate * step.spikeSeconds, Scale * Scale)
             /\ PartAsPlanned("tail", TailStart(step), end, quiet, 2 * (Scale * Scale))

\* A run that passed is evidence: every request was answered; when every order
\* could be read back, each ended as the scenario allows, was charged as often
\* as it says and, where it says how, undone completely; no more of the
\* requests Kong rejected reached OrderService than there were arrivals the
\* verdict's reading had not seen (none, if the counter was up to date when it
\* was read), and no more of the denied ones were processed than it had not seen
\* calls of InventoryService; and the pods were disturbed while the traffic ran.
PassedMeansTrue ==
    status = "passed" =>
      /\ \A i \in Planned : FateOf(i).status # 0
      /\ missing = {} => \A i \in Orders :
           /\ FateOf(i).order \in DOMAIN Expected(kind).states
           /\ Expected(kind).authorizations # -1 => FateOf(i).authorizations = Expected(kind).authorizations
           /\ FateOf(i).order = "PaymentFailed" /\ Expected(kind).compensation # <<"any">> =>
                FateOf(i).undone = Expected(kind).compensation
      /\ kind \in EdgeKinds =>
           CountWith(LAMBDA i : FateOf(i).status = EdgeStatus(kind) /\ FateOf(i).arrived) <= lag["order_posts"]
      /\ kind = "auth-denied" => CountWith(LAMBDA i : FateOf(i).order # "") <= lag["inventory_calls"]
      /\ kind \in {"rolling-restart", "pod-deletion"} => world # "before"
      /\ kind = "readiness-loss" => world = "after"
=============================================================================
