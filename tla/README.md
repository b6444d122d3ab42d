# A TLA+ model of the transaction platform

This directory holds a formal model of the transaction platform: TLA+ modules, the
configurations with which TLC checks them on small instances, and proofs, checked by
TLAPS, that the most important properties hold for every instance. `PROJECT.json` ties
each definition to the source lines it stands for, each property to a run, and each
hazard of the code to the properties that would notice it.

- [The system](#the-system)
- [What is modelled, and where](#what-is-modelled-and-where)
- [Runs](#runs)
- [What the counterexamples show](#what-the-counterexamples-show)
- [Proofs](#proofs)
- [Not modelled, and what comes next](#not-modelled-and-what-comes-next)

Paths below are relative to the repository's root. To repeat a run:
`tlc -config <cfg> <MC module>`; to repeat the proofs: `tlapm <module>Proofs.tla`.

## The system

The platform runs an order transaction over five .NET services in a local Kubernetes
cluster, and a Python command line deploys it, injects faults, drives traffic and judges
the outcome.

| Part | State it keeps | Operations | Talks to |
|---|---|---|---|
| OrderService, `OrderTransactionCoordinator` | the order being processed, a transaction budget | run the stages, undo them after a failure | the four services through gateways with retry, circuit breaker and timeouts |
| OrderService, `InMemoryOrderRepository` | order snapshots, queue of ids (capped) | `Save`, `Find` | called by concurrent orders |
| InventoryService, `StockLedger` | stock levels, reservations, queue of ids (capped), one lock | `Reserve`, `Release` | called by gateways, possibly repeatedly and late |
| FraudService | none | evaluate | gateway |
| PaymentService | idempotency records and their queue (capped), authorization ledger | authorize, void | gateway; concurrent retries of the same key |
| ShippingService, `ShipmentBook` | shipments, queue of ids (capped) | create | gateway |
| Fault injection (`ServiceDefaults/Faults`) | rules per pod, activation and attempt counts | add, clear, match, expire | called by every handler before and after its effect |
| Experiment lock (`runlock.py`) | a Kubernetes Lease | acquire, renew, release | all commands, through the API server |
| Scenario engine (`scenarios/engine.py`, `records.py`, `journal.py`, `control.py`) | run records and journals on disk, faults and replica counts in the cluster | run, restore, reset, verify | lock, services, cluster |
| Traffic (`scenarios/workload.py`) | requests under way, answers | plan and send the requests of a step | Kong |
| Verdicts (`expectations.py`, `contracts.py`, `tracechecks.py`) | none | functions of what was recorded, read back, stored and counted | OrderService, PaymentService, Jaeger, Prometheus |
| Lifecycle (`lifecycle.py`, `helm.py`, `kind.py`, `images.py`, `platform_cli.py`) | the cluster, Helm releases, images | bootstrap, deploy, destroy, recover a release | lock, Helm, kind, Docker |
| Certificates and secrets (`pki.py`, `secrets.py`) | four files, TLS and generated secrets | reuse, create, renew | called by the lifecycle |

What is hard about it:

- **Concurrency without locks.** The idempotency store, the order repository and the
  shipment book combine a `ConcurrentDictionary` with a `ConcurrentQueue`. Each call on a
  collection is atomic, nothing between two calls is.
- **Ambiguous answers.** A timed-out attempt may have taken effect, may still take effect,
  or may be lost. Retries, idempotency keys and undo calls all exist for this reason.
- **State in memory.** A pod that restarts, or is replaced by a rolling update that overlaps
  two pods, forgets.
- **Capacities.** Four stores evict their oldest entries, whether or not they are in use.
- **A lock made of a lease.** Time, crashes and lost answers decide who owns it.
- **Undo after a crash.** The engine's journal and records must bring the platform back,
  and a deployment must be repeatable after an interruption at any point.
- **Processes that outlive their command.** Helm and kind have their own sessions; Ctrl+C
  ends the command that waits for them, and not them.
- **Evidence that is late or lost.** Spans are exported in batches, counters are scraped
  later than they count, and a verdict is drawn from what arrived.

`PROJECT.json` lists these as 40 hazards with the line where each bites. What makes each
part correct:

- PaymentService: a key is charged at most once, everyone who retries gets the one outcome,
  a key is forgotten only if nothing was charged, and no key stays in progress for ever.
- OrderService: an order follows the state machine, a completed order has all its effects,
  a failed one has none left once it was undone, and every order is answered.
- InventoryService: nothing is oversold, lost or counted twice.
- Capped stores: they stay within their capacity, and a value that was stored is read back
  until it is evicted.
- Lock: one command at a time, and a lease that is being renewed is not taken over.
- Scenario engine: after an error, Ctrl+C or a crash at any point the next run or reset finds
  and undoes every change, and the lock is given up.
- Verdicts: a contract that accepts a trace, and a run that passes, tell the truth about what
  happened; a true trace stored whole is accepted.
- Lifecycle: one Helm process per release, and a deployment that reports success has left
  matching certificates, secrets, images and releases, while commands do not overlap.

## What is modelled, and where

```
IdempotentPayments  <-- implemented by --  PaymentService  <-- PaymentServiceProofs
OrderLifecycle      <-- implemented by --  OrderSaga       <-- OrderSagaProofs
                                           StockLedger     <-- StockLedgerProofs
                                           CappedStore     <-- CappedStoreProofs
                                           RunLock         <-- RunLockProofs
                                           ScenarioEngine  <-- ScenarioEngineProofs
                                           Lifecycle       <-- LifecycleProofs
TraceChecks <-- Contracts <-- OrderTrace       \
                          <-- ScenarioVerdict  /  Verification  <-- VerificationProofs
```

Each `MC...` module gives the constants of its module small values for TLC. Definitions
named `Mut...` are deliberately wrong variants of the definition that follows them; they
are not used by any specification, and `PROJECT.json` names the property each must break.

### PaymentService

One handler per concurrent request, one action per atomic call it makes: `TryAdd`,
`Lookup`, `Enqueue` and the three calls of `Trim` (`TrimCount`, `TrimDequeue`,
`TrimRemove`) make up `IdempotencyStore.TryBegin`; `BeforeEffectFails`, `Decline`,
`Authorize`, `Complete`, `AfterEffect` and `Abandon` are `AuthorizeAsync` with its two fault
points and its `finally` block; `Void` is `VoidAsync`; `Restart` is a new pod. An aborted
request leaves through the same `finally` block. The fingerprint rounds the amount to cents
as the code's `0.00` format does, so two amounts a tenth of a cent apart are one request.
`answers` is a history variable: the definite answers (201, 422) this pod has sent.

`IdempotentPayments` is the promise: per key, an outcome is chosen once and does not change
until the service loses its memory. `ImplementsIdempotentPayments` maps the store and
the ledger to that outcome.

### OrderSaga and OrderLifecycle

One order, from `ExecuteAsync` to its answer. Orders meet only in the stock level, and
the model lets stock be sufficient or not at any moment, so one order stands for all. A
gateway call is a record (phase, attempt, result); `SendAttempt`, `GiveUp`, `CircuitRefuses`,
`StageBudgetExpires`, `TransactionBudgetExpires` and `CancelledByBudget` are the layers of
`ConfigurePipeline`; `ShouldRetry` and `ResultOf` are the tables of `RetryClassifier` and
`DownstreamCall`. Requests live in `net`. A request is lost, is served at any later time, or is
served with its answer lost; a caller that gives up does not take it back. The services' side
is one action per handler outcome; authorizing takes two steps (`BeginAuthorize`,
`EndAuthorize`), since a retry may meet the record in progress and be answered 409. With
two elements, `PaymentPod` is a rolling update in which the old and the new pod both receive
requests. `Crash` ends the OrderService process; restarts of the other pods are modelled
with their own state, in PaymentService and StockLedger. The coordinator's actions (`Begin`,
`Resolve`, `AfterPayment`, `AfterShipping`, `Complete`, `StartUndo`, `RecordUndo`,
`Finish`) are the stretches of code between two awaits.

`OrderLifecycle` is what the API promises of one order: the transitions of
`OrderStateMachine`, then the undo steps of `CompensationPlan` in order, then the answer.

Abstractions: names, amounts, times and telemetry are left out. A status code is its class
(ok, rejected, not found, conflict, transient 502/503/504, error). The breaker's state depends
on other orders, so it may refuse any attempt. Timers may fire at any moment while they run.

### StockLedger

`Reserve` and `Release` run under one lock and are one action each, trimming included:
`Trims` says how many queue entries the loop drops. `held` counts deductions not
given back, per order; `forgotten` holds the orders whose live reservation was dropped by
trimming. A `Reserve` that finds a reservation or too little stock changes nothing and
needs no action.

### CappedStore

`InMemoryOrderRepository.Save` (`Overwrites = TRUE`, two saves per order) and
`ShipmentBook.Create` (`Overwrites = FALSE`) are one algorithm with different ends, so one
module models both, one action per call on a collection. `evicted` is a history variable.

### RunLock

One process per command, one action per API call of `acquire`, `renew` (in its thread) and
`release`, plus the forced release of `scenarioctl reset --force`. The API server increments
a version with each write, refuses a replace whose version does not match, and lets a delete
pass unconditionally, as the code calls it. Any write may take effect with its answer lost,
and any process may crash. Time is one bit: whether the lease was renewed within its duration.
`mishap` remembers the three events outside the lock's design: the lease of a *live* holder
expired (a stall), a forced release, a process id used again while its old lease exists.

### ScenarioEngine

Commands are processes: `scenarioctl run`, `reset` and `verify`. Each call to the cluster,
each journal line and each half of a record's write (`write_text` truncates, then writes) is a
step, and between any two the command may raise, be interrupted or be killed. The platform is
what scenarios change: replica counts, fault rules on pods, whether a rollout is complete, and
whether circuit breakers are open.

- `Acquire`, `ForceRelease`, `Exit`, `LeaseExpires`: the lock as `RunLock` offers it, in one step.
- `LoadInterrupted`, `Recover`: `unrestored_runs` and `restore_interrupted_runs`; a record that
  does not parse raises.
- `ClearFaults`, `RestoreReplicas`, `WaitAvailable`, `RestoreRaises`, `RestoreDone`: the restore
  plan of a journal (`RestorePlan`), used by the body, the `finally` block, recovery and reset.
- `Preflight`, `CloseBreakers`, `NextFault`, `JournalFault`, `PutFault`, `StartTraffic`,
  `EndTraffic`, `Checks`, `BodyFails`, `Finally`: the body of `run`.
- `ReadWorkload`, `JournalAction`, `ChangeWorkload`, `RestoreAfter`, `ActionFails`, `Drained`:
  the Kubernetes actions, each in its own thread beside the traffic. Leaving the traffic early
  waits for threads that are already in a call.
- `ValidFault`, `ValidAction`: a scenario file the schema refuses does not run.

`ChangesRecoverable` is the write-ahead rule made precise: whatever stands on the platform is
named by the journal of a run whose record is whole and still unrestored. `CleanStart` is what
it is for.

### TraceChecks, Contracts, OrderTrace, ScenarioVerdict, Verification

`TraceChecks` has every function of `tracechecks.py` as an operator on a set of spans, and
`Contracts` every contract of `contracts.py`. `Verification` puts them to two models of what
they judge; a behaviour explores one, while the other stands still. The spans of a stage are
read in the order of their start (`ByStart`): any list in that order will do, as for `sorted`.

`OrderTrace` runs one order and records its spans as the code does (`OrderTelemetry`,
`AttemptNumberHandler`, the servers, Kong's spans with the balancer span it replaces after a
5xx answer). Each attempt meets one of a set of outcomes; PaymentService may lose its memory
in between. `Export` then stores the trace whole or damages it once: a span or all
spans of a service are lost, a span loses its pod, keeps a forbidden attribute or gets the
wrong run. Ghost variables
keep what really happened (`authorized`, `reached`). `AcceptedMeansTrue` and
`TruthfulTraceAccepted` compare the contracts with it.

`ScenarioVerdict` runs the traffic of one step. `Schedule` is the plan of `workload.py` with its
`int()`. Rates and times are floats there, and fractions of one denominator, `Scale`, here;
planned starts are whole numbers of a unit that divides them all. Where the exact product of a rate
and a time is whole, the product the machine computes may lie a shade below it (`0.29 * 100` is
28.999…): `inexact` names the parts of a step this happens to, and `Truncated` loses a request
there. `Send` and `Reply` happen in any order the semaphore allows, since requests overtake each
other while they fetch their tokens; orders are read back or not; pods are replaced while requests
run. A counter has what Prometheus knows (`counted`) and what it does not know yet (`lag`), which
includes earlier traffic the snapshot missed (up to `MaxCarried`). `Scrape` moves any part of the lag
at any time before the verdict, and nothing makes it: the verdict waits 35 seconds, then reads what
there is. `Readings` are the first and the last reading of a counter. `WaitMetricDelta` takes the
first that suffices, which is the first of all if nothing is expected, and `metric_delta` never
waits. `Judge` draws the verdict from the application's checks and the contract of the scenario;
`Expected` has what the shipped scenarios state and no more (`pod-deletion` states no undo steps,
`payment-timeout` does). The fate of a request is a record of its answer and of the truth
behind it, misbehaviours of the platform included (charged twice, rejected yet passed on,
refused too late, not undone), which a verdict must notice.

What a verdict can know is limited by its evidence, and `PassedMeansTrue` says so. When every order
was read back, each ended, was charged and was undone as the scenario states. Of the requests Kong
rejected, no more reached OrderService than the verdict's reading of `order_posts` had not seen; of
the denied ones, no more were processed than the reading of `inventory_calls` had not seen. With
counters that are up to date that is none. A counter that lags hides as much as it lags by, because
the code stops waiting once it has read what it expects.

### Lifecycle

Commands are processes, started any number of times: `bootstrap`, `deploy` of some components,
`destroy`. `Script` says what deploying a component does, in order; a command works through
the items of its components. A release is its status, the age of that status and the number
of Helm processes at work on it. `LaunchHelm` starts one, which writes its pending record, or is
refused; `HelmEnds` ends it, with or without a command that waits for it; `RecoverInterrupted`
decides by `PendingReleaseAction` as `helm.py` does. Helm writes its record some time after it
started: a command that is interrupted or killed before that may leave a process behind (`CutShort`
puts it in `stray`) that writes its record, or is refused, at any later time (`StrayBegins`).
`EnsureCluster`, `KindEnds` and `WaitNodesReady` create the cluster: a killed
kind leaves one that exists and is of no use until it is destroyed. `EnsureCa`, `EnsureLeaf`,
`Truncate`, `WriteFile`, `ReadPair` and `ApplyTlsSecret` are the certificates, whose files are
torn between truncation and write; a key is a number that nobody else has. `Purge` removes the
files one by one, in any order, as `rmtree` does, and may be cut short after each. `ContentTag`,
`BuildImage` and `LoadImage` are the images: the tag of a source is that source, and `built`
says which source an image really holds. `EditSource` happens at any time, between a command's
hash and its build as well.

Commands overlap when one runs without the lock: it started before there was a namespace to hold
it, `destroy` never takes it, or its holder was stalled until the lease expired (`LeaseExpires`
of a live holder). `mishaps` counts errors, kills, stalls, overlaps, certificates that come due and edits,
and remembers four things that the properties name as exceptions, because they are what the code
does not stand:

| Field | Set when | Excepted from |
|---|---|---|
| `loose` | a command started beside another one, or a rollback or uninstall was left behind before its record | `HelmAlone`, `SuccessMeansDeployed` |
| `spared` | a purge removed a key and not its certificate, until that certificate is written or removed | the match of that pair (for the CA: also who signed the server's) |
| `crossed` | the source was edited between the hash and the build of a tag | what the image of that tag holds |
| `left` | an upgrade was left behind before its record, until one of the release succeeds with none left behind | that the release is deployed |

Without each of them TLC finds the behaviour: see [below](#what-the-counterexamples-show). One
thing is asked of the operators: they deploy parts only once the foundation is deployed.

## Runs

| Run | Configuration | Checks | Instance |
|---|---|---|---|
| payment_safety | `PaymentService_safety.cfg` | types, one authorization per key, abandon, agreement and truth of answers, refinement of `IdempotentPayments` | 3 handlers, 2 keys, 3 bodies, 4 requests, store large enough |
| payment_full | `PaymentService_full.cfg` | `StoreBounded`, `RecordsAreEvictable`, `InProgressResolves` (fair) | 3 handlers, 2 keys, capacity 1, 3 requests |
| order_saga | `OrderSaga.cfg` | types, four safety invariants, refinement of `OrderLifecycle`, `EveryOrderIsAnswered` (fair) | 1 pod; attempts: reserve 2, authorize 3, void 2, others 1; injected statuses transient, error, conflict |
| stock_ledger | `StockLedger.cfg` | no overselling, conservation, idempotence, capacity | 3 orders, 2 SKUs, 4 requests (one with an unknown SKU), capacity 2, queue 6 |
| orders_store | `CappedStore_orders.cfg` | types, `LastSaveWins` | 3 orders saved twice each, capacity 1 |
| shipments_store | `CappedStore_shipments.cfg` | `EveryKeyEvictable`, `StoreBounded`, `SameShipment` | 4 requests for 3 orders, capacity 1 |
| run_lock | `RunLock.cfg` | types, mutual exclusion, no takeover of a fresh lease | 3 commands, renewals until 4 writes |
| scenario_engine | `ScenarioEngine.cfg` | types, `ChangesRecoverable`, `CleanStart`, `LockReleased` (fair) | 2 runs with a verify or a reset beside or after them, 2 workloads of 2 pods; 301 357 states |
| verification | `Verification.cfg` | types, `AcceptedMeansTrue`, `TruthfulTraceAccepted`, `TrafficAsPlanned`, `PassedMeansTrue` | one order with up to 4 troubled attempts and 1 restart; 10 scenarios with up to 3 requests sent and counters that lag by up to 1 request more than were sent; plans of rates and times in halves, up to 2.5 per second and 3 seconds; 569 555 states |
| lifecycle | `Lifecycle.cfg` | types, `HelmAlone`, `SuccessMeansDeployed` | 2 operators, 4 components, 2 mishaps, 9 keys, 2 versions of the services, up to the first overlap (`Unmixed`); 819 164 states |
| order_late_requests | `OrderSaga_late_requests.cfg` | finds `EarlierStepsUndone` violated | 1 attempt each, 2 for the payment |
| orders_store_leak | `CappedStore_orders_leak.cfg` | finds `CappedWhenDone` violated | as orders_store |

**Why the bounds are enough.** In the stores the interesting cases need a key that two
threads touch while a third trims: three threads, and one id more than the capacity.
Three handlers let one request own a key while a second looks it up and a third evicts or
retries, with a fourth request after a restart or an abandon. The saga uses the code's
attempt limits where a repetition can change something (reserve, authorize, void); a
repeated evaluation, shipment or release leaves the state as it is. In the lock the deepest
race is two commands racing for a lease while its holder renews or crashes. `MaxRequests`,
`MaxQueue` and `MaxWrites` only bound the state space, and the proofs hold for all their
values.

In the scenario engine a first run is left behind at any step and a second run, a reset or a
verify meets what it left; the first run takes one of three scenarios: a fault that makes its
own pods unready beside a restart, a fault on one pod beside a deletion, and a fault beside two
actions that scale one workload, one of them restoring it by itself. The order's trouble bound
of 4 lets a payment exhaust its three attempts and an undo call fail as well; three requests
let a limit of two be reached with one waiting (`Driven`), and longer steps are planned but
not sent: with `Scale = 2` there are parts of a whole number of requests, of a fraction more, of less than one,
and inexact ones. In the lifecycle two mishaps are enough for: a purge dies between two files and a
bootstrap dies between two others; a deployment dies and its recovery dies; a command dies and a
certificate comes due or a service changes. States beyond the first overlap, or the first recovery
left behind without its record, are reached and not explored further (`CONSTRAINT Unmixed`): from
there on nothing but types is claimed, and `loose` never goes back. The proofs have neither bound. Gateway, Kong and observability are
further releases that take the same steps as `identity` and `transaction-services`, so the
instance leaves them out. Times are compared only with one another: a Helm process lives at
most `HelmTimeout = 1` unit and a pending release is stale after `StaleAfter = 2`; the code has
15 and 20 minutes. `MaxKeys` is never reached.

**Symmetry** is used for handlers and keys (payment_safety), processes (run_lock) and commands
(lifecycle), whose specifications treat them alike; no liveness property is checked under symmetry.

**Fairness.** `payment_full` assumes weak fairness of each started handler (`Continue`):
its only waits are injected delays, which `FaultRuleValidator` bounds. No fairness is
assumed of arriving requests, voids or restarts. `order_saga` assumes weak fairness of
`OrderStep`: the runtime schedules the coordinator, and every wait of it ends with a
timer (attempt timeout, stage budget) even if no service ever answers. Nothing is assumed
of the services, the network or crashes. `scenario_engine` assumes weak fairness of `Advance`:
of all the steps commands can take and the expiry of an abandoned lease, some are taken. Every
wait of a command has a deadline, which is why raising counts as a step of it there; crashes,
operators, rollouts and expiring rules are not assumed to happen. The lease of a dead command
expires because nobody renews it.

**Deadlock** is checked in the runs of services, stores and the lock; what is finished there
stutters explicitly (`Quiescent`). It is not checked in the last three: commands end, the
verdict of a run is its last step, and a platform whose bounded mishaps are used up may be one
that only an operator's hand can repair (a torn certificate file).

## What the counterexamples show

Statements of the documentation or of a comment that do not hold of the code. The first two
are runs of their own, quoted in `PROJECT.json` under `findings`.

1. *A late request outlives its undo* (`EarlierStepsUndone`). The authorize call times out,
   the void and the release succeed, then the abandoned authorize request is processed: the
   order is answered as failed and undone, and the customer is charged. The same holds of a
   late reservation. `NothingHeldAfterUndo` shows the undo is right when no
   forward request is on its way at the moment of failure.
2. *The order repository leaks* (`CappedWhenDone`). The overwriting save of an order whose
   key was evicted a moment ago inserts the key again without a queue entry. That order is never
   evicted, and the store is above its capacity with nobody trimming; the next save that inserts
   brings the count back by evicting other orders.

The models reach the following as well; each is a change to a configuration or a property away.

3. *A rejection after an ambiguous attempt* (`docs/transaction-flow.md:87`, "no stock was
   reserved"). The first reserve attempt times out after reserving, the retry is rejected; the
   plan for a rejection is empty, so the stock stays reserved. `OrderSaga`: ask that a
   rejected reservation holds nothing.
4. *Two pods during a rollout* (`docs/transaction-flow.md:167`). The retry reaches the pod
   that does not know the key. `OrderSaga` with two elements in `PaymentPod`.
5. *A stalled holder* (`docs/experiment-safety.md:15`). A holder that cannot renew for 90
   seconds loses the lease, does not notice, and runs on beside the new holder. `RunLock`:
   `MutualExclusion` without its condition on mishaps.
6. *A reset beside a run* (`docs/experiment-safety.md:108`, which calls a reset safe at any
   time). The reset takes the running scenario's record for an interrupted one, undoes its
   changes and marks it restored, while the run goes on to change the platform.
   `ScenarioEngine` with `ResetBesideRun = TRUE` violates `CleanStart`.
7. *Ctrl+C during a deployment* (`docs/automation-cli.md:146`). The lock is released while Helm
   goes on. The next command is held off by the pending release and by nothing else, and that
   is enough for `HelmAlone`, because `STALE_PENDING_AFTER` is longer than Helm may run.
8. *Two bootstraps of an empty cluster.* Neither takes a lock. `Lifecycle` without the exception
   for `loose` (and the constraint `Unmixed`) violates `HelmAlone` and `SuccessMeansDeployed`.
9. *An edit during a build* (`images.py`: "any source change produces a new tag"). The tag is
   computed first and the files are read again by the build, so the image holds another source
   than its tag says, and that tag is never built again. `Lifecycle` without the exception for
   `crossed` violates `SuccessMeansDeployed`.
10. *A purge cut short* (`pki.py`: "Creates or renews the CA and server certificate only when
   needed"). `destroy --purge` dies after it removed `ca.key` and before `ca.crt`. The next
   bootstrap finds no pair, writes a new `ca.key` and dies before the new `ca.crt`. The one after it
   finds both files, does not compare them, signs with the new key in the name of the old
   certificate, and reports success. Every later deployment signs anew, for the server certificate
   never verifies, until the CA comes due. `Lifecycle` without the exception for `spared`
   violates `SuccessMeansDeployed` in 70 states.
11. *A Helm process without a record* (`helm.py:70`, "A killed `helm upgrade` leaves its release in a
   pending state"). A deployment is interrupted after it started Helm and before Helm
   wrote its record; the next one finds nothing pending and deploys, and the process left behind
   then begins an upgrade of its own, beside a deployment that reports success. `Lifecycle` without the exception for `left`
   violates `SuccessMeansDeployed` in 29 states. That two upgrades never work at once holds all the same, because
   Helm refuses a pending release.

Observations that contradict no statement, and are limits of the properties that hold:

- Above 100 000 keys the idempotency store may evict a record in progress; its completion
  then throws after the charge, and a retry charges again. The theorems about charges and
  answers therefore assume `FitsCapacity`.
- A fault rule's answer passes for the service's. An injected rejection of a payment leaves no
  idempotency record, so the order fails as declined, its plan sends no void, and an earlier
  attempt that is still on its way charges; an injected 404 on a release counts as a release
  that had nothing to do, and the stock stays reserved. No scenario of the catalogue injects
  either on those operations; the theorems of `OrderSagaProofs` name them as hypotheses.
- Above 50 000 reservations the ledger drops live ones (or, through a stale queue entry,
  the renewed reservation of an order that was released before); their stock is never
  returned, and their release answers 404, which the gateway counts as success.
- A shipment has no undo. A `ShippingFailed` order whose answer was lost may still ship.
- An order that cannot be read back is left out of a run's checks, and the run may pass without
  it; `PassedMeansTrue` speaks of runs that read all their orders back.
- `dependency_unavailable` takes the absence of a span for the absence of a call, so it accepts
  a trace whose shipping spans were lost; `AcceptedMeansTrue` claims it of whole traces.
- A counter that lags at the verdict hides what it has not seen: `wait_metric_delta` returns as soon as
  what it expects is there, at once if that is nothing, and `metric_delta` never waits. The 35 and 45
  seconds the contracts sleep make it unlikely, not impossible.
- A `verify` that is killed while it saves tears a record, which stops every later run and
  reset until the file is removed; if that run was interrupted, its changes stand until then.
- A torn certificate, or a cluster whose creation was killed, stops every later deployment
  until it is deleted by hand or with `destroy`.

## Proofs

Every theorem holds for all values of the constants that satisfy the named assumptions of
the modules (`...Assumption`) and the hypotheses given here. TLC evaluates each assumption in
the runs. Most state types; the others state what the code fixes: a pending release is stale
only after the longest Helm process (`TimeoutAssumption`), a plan holds the items of its components, the
namespaces first and once (`PlanAssumption`), a command is at most one of run, reset and verify
(`KindsAssumption`), a rule of a contract names bounds or `all` (`RuleAssumption`), and the ranges the
schema requires of each field of a scenario or a step (`FilesAssumption`, `StepsAssumption`).

| Module | Theorem | Says | Hypothesis |
|---|---|---|---|
| PaymentServiceProofs | `Typing` | type correctness | none |
| | `Ownership` | `OwnershipInvariant` | `FitsCapacity` |
| | `NoDoubleAuthorization` | one authorization per key | `FitsCapacity` |
| | `AbandonIsSafe` | a forgotten key was not charged | `FitsCapacity` |
| | `ReplaysAgree`, `AnswersTrue` | answers agree, and agree with the ledger | `FitsCapacity` |
| | `Refinement` | implements `IdempotentPayments` | `FitsCapacity` |
| | `NothingEscapes` | `RecordsAreEvictable`: eviction can reach every record | none |
| | `Bounded` | `StoreBounded`: capacity plus the requests inside `TryBegin` | finitely many handlers |
| OrderSagaProofs | `Typing` | type correctness | none |
| | `NoForwardRetry` | no forward call behind a failure | none |
| | `Refinement` | implements `OrderLifecycle` | none |
| | `CompletedIsComplete` | a completed order has all its effects | none |
| | `DeclinedIsNeverCharged` | a declined payment is never charged | one pod, no injected rejection |
| | `UndoneOrderHoldsNothing` | `NothingHeldAfterUndo` | one pod, no injected rejection or 404 |
| StockLedgerProofs | `Typing` | types; nothing oversold | none |
| | `Bounded` | within capacity, every reservation queued | none |
| | `ReservingIsIdempotent` | deducted once per live reservation | none |
| | `StockIsConserved` | levels and held units add up to the stock | none |
| CappedStoreProofs | `Typing` | types | none |
| | `NoKeyEscapes` | every key can be evicted | shipments |
| | `Bounded` | capacity plus the saves still trimming | shipments, finitely many threads |
| | `FinalSnapshotWins` | `LastSaveWins` | orders, one task per order |
| | `OneShipment` | `SameShipment` | shipments |
| RunLockProofs | `Typing` | types | none |
| | `Locking`, `Exclusion` | `LockInvariant`, mutual exclusion barring mishaps | none |
| | `NoTakeOverOfAFreshLease` | a fresh lease keeps its holder | none, mishaps included |
| ScenarioEngineProofs | `Typing` | types; rules only on pods that run | no reset beside a run |
| | `AlwaysRecoverable` | `ChangesRecoverable` | no reset beside a run |
| | `StartsClean` | `CleanStart` | no reset beside a run |
| LifecycleProofs | `Typing` | types | none |
| | `OneHelmProcess` | `HelmAlone` | none |
| | `SuccessIsTrue` | `SuccessMeansDeployed` | none |
| VerificationProofs | `Typing` | types of `ScenarioVerdict` | none |
| | `TrafficIsPlanned` | `TrafficAsPlanned` | none |
| | `PassedIsTrue` | `PassedMeansTrue` | none |
| | `BothTyped` | types of `Verification`: a run, or an order and its spans | none |
| | `AcceptedTracesTrue` | `AcceptedMeansTrue` | none |
| | `TruthfulTracesAccepted` | `TruthfulTraceAccepted` | none |
| | `RunsHold` | `TrafficAsPlanned` and `PassedMeansTrue` in the composition | none |
| | `ChargedOncePerLife` | an order is charged at most once per life of PaymentService | none |
| | `FailedOrdersUndone` | an order that failed after a possible charge has had both undo steps called | none |

"None" means no hypothesis beyond the specification: what the operators are asked for is part of
`Lifecycle`, and the conditions a property names (no mishap of the lock, no overlap, a pair that no
purge has split, nothing on its way, every order read back) are part of the property. The fractions of
`StepsAssumption` are those of any denominator: every rate and time a scenario file can state, with
any choice of inexact products.

**PaymentService.** `AtMostOneAuthorization` is not inductive: it does not say why a second
handler cannot charge. `OwnershipInvariant` adds that a handler past `TryAdd` owns its key,
that no two handlers own one key and the record stays in progress and with the owner's
fingerprint while it does, that every authorization is the owner's unfinished work or recorded
as the key's response, and that recorded and sent answers are true of the ledger. `FitsCapacity`
(no more keys than the capacity, a finite set) is needed because trimming could otherwise remove
an owner's record; under it `TrimDequeue` is never reached. The other safety theorems and the
step simulation of `Refinement` follow from this one invariant. Eviction itself is proved
without it: `RecordsAreEvictable` is inductive with the types, and the bound then counts as in
CappedStore, since a handler stops trimming only when the store fits or when everything beyond
it is in other handlers' hands.

**OrderSaga.** `Flow` says what the coordinator's place means: the state and failure of the
order, which calls may be under way, and that the undo steps done and those to come are the
plan of the failure. It is inductive, gives `NoForwardRetry` at once, and with it each step
maps to a step of `OrderLifecycle` or to a stutter. `CompletedIsComplete` needs `Effects`: as
long as nothing has failed no undo request exists, so what a call's success reports still
stands, although late forward requests keep arriving. `Charges` ties ledgers to idempotency
records: a declined record is final, because every attempt of the order carries the same key.
`Undoing` follows the undo steps: a recorded success of a step means that its effect is gone,
and no forward request is left to bring it back.

The hypotheses of the last two are needed, and TLC shows each with a configuration change: with
two pods a late attempt reaches the pod that did not decline, or the void the one that did not
charge; an injected rejection leaves no record, so a late attempt charges a declined order; an
injected 404 passes for a release that had nothing to do.

**StockLedger.** `Bounded` rests on the invariant that every reservation has a queue entry:
the loop stops when the reservations fit or when the queue is empty, and an empty queue then
means that no reservation is left. `HeldOnce` is inductive with the type invariant.
`Conservation` states the units held of a SKU as a set of (order, number) pairs and counts it,
instead of summing over the reservations: a reservation adds as many pairs as it deducts, for
the order had none before, and a release removes as many as it gives back. `Counted` adds that
the set is finite.

**CappedStore.** In the shipment book every stored key is queued, about to be queued by the
thread that inserted it, or about to be removed by the thread that dequeued it. The bound
counts: an insertion adds one key and one trimming thread, and a thread only stops trimming
when it saw the store within its capacity, or the queue empty, in which case each key is
covered by another trimming thread. The hypothesis `Overwrites = FALSE` is necessary:
`orders_store_leak` is the counterexample for the order repository. `FinalSnapshotWins` needs
that one task saves an order (`OneWriterPerId`), as `CreateOrder` does; two tasks could save in
either order. `OneShipment` follows the value that was inserted first to every answer, until
the key is evicted.

**RunLock.** A resource version stands for one state of the lease, so as long as the version
that was read still matches, what was read is still true (`VersionsTell`). With it, barring
mishaps, a command inside the lock holds a fresh lease, which nobody else may replace.
Versions are what the proof uses: without them both mutants break it.

**ScenarioEngine.** `ChangesRecoverable` does not say who undoes what, and is not inductive. The
invariant `Inv` adds that the commands that touch the platform are the ones with the lock
(`Turns`); that whatever stands is named by a record that is whole, unrestored and not about to
be overwritten by a verifier (`UndoneBy(Run)`); what each place of a run or reset knows of the
platform and of its own record (`Held`), in particular how much of the platform a restore plan in
progress has already put back (`LeftBy`); and that the first count a journal names for a workload
is the deployed one (`FirstCounts`), since a run starts clean and a second action on the same
workload finds it journalled (`TasksOf`). One lemma per action proves each part. The hypothesis
`ResetBesideRun = FALSE` is needed: with a reset beside a run `CleanStart` is violated.

**Lifecycle.** `Basis` holds always: types, the item each place belongs to, and that
a lock and a Helm process need a cluster, and that one command works while nothing is `loose`. The other layers hold until something is
`loose`, each with those before it. `Helm`: a live Helm process has a pending (or
uninstalling) release whose age is at most `HelmTimeout`, so a command that finds it older may
roll it back, and only then; a process without a record is an upgrade of a release in `left`, and
Helm refuses it while another is at work; no release is touched before the foundation, whose
failure takes the namespace along, is deployed. `Pki` and `Images`: a pair of files only
disagrees while its certificate is torn, due or `spared`, the first two of which are what the next
deployment looks at; a tag's image holds the tagged source unless it is `crossed`. `Promises`: every
item a command has finished is as it left it until the command ends, because nobody else works
meanwhile, except that a process left behind may begin on a release in `left`.

**Verification.** The plan of a step needs arithmetic the provers do not find alone: the whole part of a
quotient is the one number that lies at most a fraction below it, also when the product is a shade
too small; so the last request of a part starts before the part ends, in units that depend on
both rates, and the parts of a spike do not run into each other. `PassedIsTrue` rests on three
invariants beside the types. `Settled`: all answers are in before the orders are read back. `Tallied`: what a
counter was read to have, with what that reading had not seen, is at least what happened
(it may be more, by traffic the first snapshot missed).
`Disturbed`: the pods that served requests show how far the Kubernetes event had gone. The bound
on what leaked through Kong follows by counting: the accepted requests are among those that arrived,
the contract requires the reading to have as many, and what is beyond them is the lag. That
the authorizations were checked follows because an empty ledger fails the check, which covers a
payment service without a ready pod.

The contracts are proved for orders with any sets of outcomes, any number of troubled attempts
and any number of restarts (`TroubleAssumption` says that both bounds are numbers). The attempts
of a stage stay those of `DependencyProfiles`, as the contracts themselves name them. What a
contract says of an order needs the whole of it, so the inductive invariant `OrderInv` describes
an order and its spans completely:

- `Typed` and `Course`: where the order is tells which stages have run, how they ended, which
  states were recorded and what is left to undo;
- `Kept` and `Strangers`: each stage has left one span of its own and, for each attempt, the
  caller's span and, if the call arrived, the service's, within it, and nothing else is there;
- `Timeline`: inventory and fraud start side by side, every later stage starts where one before
  it ended;
- `Payments`: the ghosts are what the spans tell (`authorized` counts recorded spans, `reached`
  the servers' spans), the idempotency entry of PaymentService stands for an authorization that
  was made, and there are at most `restarts` others;
- `Whole` and `Left`: an answered order's trace is that of its stages with Kong's, the server's
  and the transaction's span around it, and the pipeline changed it in one way at most.

`OrderStarts` and `OrderGoesOn` prove it inductive, one lemma per action. Then each contract is
turned into one formula about the stored spans (`NormalOrderIs` and its like). `AcceptedMeansTrue`
follows because the recorded states of a trace that passes belong to one `Course` only, and
because any single loss or slip takes something a check asks for: a caller, a service, a pod, the
run, or a span of the shape the pipeline's damage cannot imitate. `TruthfulTraceAccepted` needs
the opposite, that every check holds of every whole trace of its story: parents and times fit,
retries are counted from the sorted calls, and the slow attempt has its share of the latency.
Sets of spans have no bound in these proofs, but what is sorted and counted are the attempts of
one stage, at most three, so no induction over data is needed.

**Only model-checked:**

- liveness (`InProgressResolves`, `EveryOrderIsAnswered`, `LockReleased`): fairness and ENABLED
  are out of the prover's reach.

Every invariant and every safety property of the steps that a run checks is stated by a theorem.
The inductive invariants are proved and are not repeated as invariants of the runs.

## Not modelled, and what comes next

Left out for good:

- hosting, authentication set-up, port forwarding and probes (I/O or framework configuration
  without state of their own), charts and manifests (data for external controllers);
- parsing of OTLP, Jaeger and Prometheus documents, loading of the scenario catalogue, argument
  parsing and printing;
- the validation suites: assertions about a live cluster that change it only through the
  helpers the scenario engine uses, and that report every outcome;
- the evaluators of `preflight.py`, pinned versions, chart repositories, and the custom resource
  definitions (applied again by each deployment, without a state in between);
- the token cache of `identity.py`: two threads that miss it fetch two valid tokens.

Worth adding, in this order:

1. Fault rules in detail: activation limits under concurrency and attempt counts per key; the
   sampling window of the circuit breaker.
2. Validation beside a deployment, with the lock released between `bootstrap` and its checks.
