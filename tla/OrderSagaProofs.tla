-------------------------- MODULE OrderSagaProofs --------------------------
(***************************************************************************)
(* Proofs about OrderSaga, for every number of payment pods, every limit   *)
(* on attempts and every set of injected errors unless a theorem says      *)
(* which ones it needs.                                                    *)
(*                                                                         *)
(* Flow is what the coordinator's place says of the order, its calls and   *)
(* its undo plan; the refinement of OrderLifecycle follows from it.        *)
(* Effects adds what the services hold while nothing has failed,           *)
(* BeforePayment that nobody can be charged before the fan-out succeeded.  *)
(* Charges ties a pod's ledger to its idempotency record, and a decline to *)
(* one that is recorded. Undoing says what the undo steps recorded so far  *)
(* have given back.                                                        *)
(***************************************************************************)
EXTENDS OrderSaga, TLAPS

ResultKind == L!FailureKind \cup {"Success"}
Undo == {"void", "release"}

\* A call that is under way has an attempt number, a finished one a result.
CallShape ==
    \A op \in Op :
      /\ call[op].phase \in {"ready", "waiting"} => call[op].attempt >= 1
      /\ call[op].phase = "done" => call[op].result \in ResultKind

\* The state and the failure of the order agree with the place of ExecuteAsync.
OrderAtPc ==
    /\ pc \in {"start", "fanOut"} => state = "Pending"
    /\ pc = "payment" => state = "InventoryReserved"
    /\ pc = "shipping" => state = "PaymentAuthorized"
    /\ pc = "complete" => state = "ShipmentCreated"
    /\ pc \in {"compensate", "finished"} => L!IsFinal(state)
    /\ failure = None =>
         state \in {"Pending", "InventoryReserved", "PaymentAuthorized", "ShipmentCreated",
                    "Completed"}
    /\ failure # None =>
         /\ pc \in {"compensate", "finished", "crashed"}
         /\ state = L!FailureStateFor(failure.stage)

\* Only the calls of the current step may be under way.
CallsAtPc ==
    /\ pc \in {"start", "crashed"} => \A op \in Op : call[op].phase = "idle"
    /\ pc = "fanOut" => \A op \in Op \ {"reserve", "evaluate"} : call[op].phase = "idle"
    /\ pc = "payment" => \A op \in Op \ {"authorize"} : call[op].phase = "idle"
    /\ pc = "shipping" => \A op \in Op \ {"create"} : call[op].phase = "idle"
    /\ pc \in {"complete", "compensate", "finished"} =>
         \A op \in Forward : call[op].phase \in {"idle", "done"}
    /\ failure = None => \A op \in Undo : call[op].phase = "idle"

\* The recorded undo steps and those still to do are the plan of the failure.
PlanAtPc ==
    /\ failure = None => plan = << >> /\ compensation = << >>
    /\ pc = "finished" => plan = << >>
    /\ failure # None /\ pc # "crashed" =>
         /\ Len(compensation) + Len(plan) = Len(L!PlanFor(failure))
         /\ \A i \in 1..Len(compensation) : compensation[i].action = L!PlanFor(failure)[i]
         /\ \A i \in 1..Len(plan) : plan[i] = L!PlanFor(failure)[Len(compensation) + i]

Flow == TypeOK /\ CallShape /\ OrderAtPc /\ CallsAtPc /\ PlanAtPc

-----------------------------------------------------------------------------
(* What a step may do to the gateway calls.                                 *)

\* The call of op, which was under way, goes on or ends as c.
Moves(op, c) ==
    /\ Active(op)
    /\ call' = [call EXCEPT ![op] = c]
    /\ c \in Call
    /\ c.attempt <= MaxAttempts[op]
    /\ c.phase # "idle"
    /\ c.phase # "done" => c.attempt >= 1
    /\ c.phase = "done" => c.result \in ResultKind

CallMoves == call' = call \/ \E op \in Op, c \in Call : Moves(op, c)

\* DownstreamCall turns every outcome into one of the results of a stage.
LEMMA ResultTyped ==
    ASSUME NEW op \in Op, NEW o \in Outcome
    PROVE  ResultOf(op, o) \in ResultKind
BY DEF ResultOf, Outcome, ResultKind, L!FailureKind

\* An answer is lost, or it ends the attempt of a call that waits for it.
LEMMA AnswerEffect ==
    ASSUME TypeOK, CallShape, NEW m, m.op \in Op, NEW o \in Outcome, Answer(m, o)
    PROVE  \/ call' = call
           \/ \E c \in Call :
                /\ Moves(m.op, c)
                /\ c.phase = "done" => c.result = ResultOf(m.op, o)
<1>1. CASE call' = call
  BY <1>1
<1>2. CASE Waiting(m.op, m.attempt) /\ AttemptEnds(m.op, o)
  <2> DEFINE op == m.op
             again == [phase |-> "ready", attempt |-> call[op].attempt + 1, result |-> None]
             end == [phase |-> "done", attempt |-> 0, result |-> ResultOf(op, o)]
  <2>1. call[op] \in Call /\ call[op].attempt \in Nat /\ MaxAttempts[op] \in Nat
    BY AttemptsAssumption DEF TypeOK, Call
  <2>2. ResultOf(op, o) \in ResultKind
    BY ResultTyped
  <2>3. again \in Call /\ end \in Call
    BY <2>1, <2>2 DEF Call, ResultKind
  <2>4. CASE ShouldRetry(op, o) /\ call[op].attempt < MaxAttempts[op]
    <3>1. Moves(op, again)
      BY <1>2, <2>1, <2>3, <2>4 DEF Moves, AttemptEnds, SetCall, Waiting, Active
    <3> QED
      BY <3>1, <2>3
  <2>5. CASE ~(ShouldRetry(op, o) /\ call[op].attempt < MaxAttempts[op])
    <3>1. Moves(op, end)
      BY <1>2, <2>1, <2>2, <2>3, <2>5 DEF Moves, AttemptEnds, EndCall, SetCall, Waiting, Active
    <3> QED
      BY <3>1, <2>3
  <2> QED
    BY <2>4, <2>5
<1> QED
  BY <1>1, <1>2 DEF Answer

-----------------------------------------------------------------------------
(* Steps that leave the order alone: the pipelines of the gateway calls,    *)
(* and the services.                                                        *)

CallAction(op) ==
    \/ SendAttempt(op) \/ CircuitRefuses(op)
    \/ \E o \in {"timeout", "connection"} : GiveUp(op, o)
    \/ StageBudgetExpires(op) \/ CancelledByBudget(op)

\* A pipeline moves its own call; only a call that is ready sends a request, and no
\* outcome that a pipeline finds by itself is a success.
LEMMA CallActionEffect ==
    ASSUME TypeOK, CallShape, NEW op \in Op, CallAction(op)
    PROVE  /\ UNCHANGED <<pc, orderVars, budgetOver, serviceVars>>
           /\ \E c \in Call :
                /\ Moves(op, c)
                /\ c.phase = "done" => c.result \in {"Timeout", "Unavailable"}
           /\ \/ net' = net
              \/ /\ call[op].phase = "ready"
                 /\ net' = net \cup {[op |-> op, attempt |-> call[op].attempt]}
<1> DEFINE ended(r) == [phase |-> "done", attempt |-> 0, result |-> r]
<1>1. /\ call[op] \in Call /\ call[op].attempt \in Nat /\ MaxAttempts[op] \in Nat
      /\ call[op].attempt <= MaxAttempts[op]
  BY AttemptsAssumption DEF TypeOK, Call
<1>2. \A r \in {"Timeout", "Unavailable"} : ended(r) \in Call /\ r \in ResultKind
  BY DEF Call, ResultKind, L!FailureKind
<1>3. CASE SendAttempt(op)
  <2> DEFINE c == [call[op] EXCEPT !.phase = "waiting"]
  <2>1. c \in Call /\ c.phase = "waiting" /\ c.attempt = call[op].attempt
    BY <1>1 DEF Call
  <2>2. Moves(op, c)
    BY <1>1, <1>3, <2>1 DEF SendAttempt, SetCall, Moves, Active, CallShape
  <2> QED
    BY <1>3, <2>1, <2>2 DEF SendAttempt
<1>4. CASE CircuitRefuses(op)
  <2>1. Moves(op, ended("Unavailable"))
    BY <1>1, <1>2, <1>4 DEF CircuitRefuses, EndCall, SetCall, Moves, Active
  <2> QED
    BY <1>2, <1>4, <2>1 DEF CircuitRefuses
<1>5. ASSUME NEW o \in {"timeout", "connection"}, GiveUp(op, o)
      PROVE  \E c \in Call :
                /\ Moves(op, c)
                /\ c.phase = "done" => c.result \in {"Timeout", "Unavailable"}
  <2>1. /\ o \in Outcome /\ ResultOf(op, o) \in {"Timeout", "Unavailable"}
    BY <1>5 DEF Outcome, ResultOf
  <2> DEFINE again == [phase |-> "ready", attempt |-> call[op].attempt + 1, result |-> None]
  <2>2. CASE ShouldRetry(op, o) /\ call[op].attempt < MaxAttempts[op]
    <3>1. again \in Call
      BY <1>1 DEF Call
    <3>2. Moves(op, again)
      BY <1>1, <1>5, <2>2, <3>1 DEF GiveUp, AttemptEnds, SetCall, Moves, Active
    <3> QED
      BY <3>1, <3>2
  <2>3. CASE ~(ShouldRetry(op, o) /\ call[op].attempt < MaxAttempts[op])
    <3>1. Moves(op, ended(ResultOf(op, o)))
      BY <1>1, <1>2, <1>5, <2>1, <2>3 DEF GiveUp, AttemptEnds, EndCall, SetCall, Moves, Active
    <3> QED
      BY <1>2, <2>1, <3>1
  <2> QED
    BY <2>2, <2>3
<1>6. CASE \E o \in {"timeout", "connection"} : GiveUp(op, o)
  BY <1>5, <1>6 DEF GiveUp
<1>7. CASE StageBudgetExpires(op) \/ CancelledByBudget(op)
  <2>1. Moves(op, ended("Timeout"))
    BY <1>1, <1>2, <1>7 DEF StageBudgetExpires, CancelledByBudget, EndCall, SetCall, Moves
  <2> QED
    BY <1>2, <1>7, <2>1 DEF StageBudgetExpires, CancelledByBudget
<1> QED
  BY <1>3, <1>4, <1>6, <1>7 DEF CallAction

\* A service takes requests and answers them; it never touches the order.
LEMMA ServiceEffect ==
    ASSUME TypeOK, CallShape, ServiceStep
    PROVE  UNCHANGED <<pc, orderVars, budgetOver>> /\ CallMoves /\ net' \subseteq net
<1>1. Injected \subseteq Outcome /\ "authorize" \in Op /\ {"ok", "rejected", "notFound", "conflict", "connection"} \subseteq Outcome
  BY InjectedAssumption DEF Outcome, Op, Forward
<1>2. \A m \in net : m.op \in Op
  BY DEF TypeOK
<1>3. ASSUME NEW m, m.op \in Op, NEW o \in Outcome, Answer(m, o)
      PROVE  CallMoves
  BY <1>3, AnswerEffect DEF CallMoves
<1>4. ASSUME NEW m \in net,
             \/ Lose(m)
             \/ \E o \in Injected : InjectedFailure(m, o)
             \/ Reject(m) \/ Reserve(m) \/ Approve(m) \/ CreateShipment(m) \/ Release(m)
             \/ \E p \in PaymentPod : Void(m, p)
      PROVE  UNCHANGED <<pc, orderVars, budgetOver>> /\ CallMoves /\ net' \subseteq net
  <2>1. /\ serviceOnly /\ net' \subseteq net
        /\ call' = call \/ \E o \in Outcome : Answer(m, o)
    BY <1>1, <1>4 DEF Lose, InjectedFailure, Reject, Reserve, Approve, CreateShipment,
       Release, Void, Take
  <2> QED
    BY <1>2, <1>3, <2>1 DEF serviceOnly, CallMoves
<1>5. ASSUME NEW m \in net, NEW p \in PaymentPod, BeginAuthorize(m, p)
      PROVE  UNCHANGED <<pc, orderVars, budgetOver>> /\ CallMoves /\ net' \subseteq net
  <2>1. payRecord[p] \in {"none", "inProgress", "authorized", "declined"}
    BY DEF TypeOK
  <2>2. /\ serviceOnly /\ net' \subseteq net
        /\ call' = call \/ \E o \in Outcome : Answer(m, o)
    BY <1>1, <1>5, <2>1 DEF BeginAuthorize, Take
  <2> QED
    BY <1>2, <1>3, <2>2 DEF serviceOnly, CallMoves
<1>6. ASSUME NEW p \in PaymentPod, NEW record, NEW charge, NEW o \in Outcome,
             EndAuthorize(p, record, charge, o)
      PROVE  UNCHANGED <<pc, orderVars, budgetOver>> /\ CallMoves /\ net' \subseteq net
  BY <1>1, <1>3, <1>6 DEF EndAuthorize, serviceOnly
<1>7. ASSUME NEW p \in PaymentPod,
             \/ Authorize(p) \/ Decline(p)
             \/ \E o \in Injected : FailAuthorize(p, o)
             \/ AbortAuthorize(p)
      PROVE  UNCHANGED <<pc, orderVars, budgetOver>> /\ CallMoves /\ net' \subseteq net
  BY <1>1, <1>6, <1>7 DEF Authorize, Decline, FailAuthorize, AbortAuthorize
<1> QED
  BY <1>4, <1>5, <1>7 DEF ServiceStep

-----------------------------------------------------------------------------
(* Typing.                                                                  *)

\* CompensationPlan.For gives at most a void followed by a release.
LEMMA PlanShape ==
    ASSUME NEW f
    PROVE  /\ L!PlanFor(f) \in Seq(UndoAction)
           /\ L!PlanFor(f) \in {<< >>, <<"ReleaseInventory">>,
                                <<"VoidPayment", "ReleaseInventory">>}
<1>1. /\ << >> \in Seq(UndoAction)
      /\ <<"ReleaseInventory">> \in Seq(UndoAction)
      /\ <<"VoidPayment", "ReleaseInventory">> \in Seq(UndoAction)
  BY DEF UndoAction, UndoOp
<1> QED
  BY <1>1 DEF L!PlanFor

\* Every undo step of a plan has a call of its own.
LEMMA UndoCalls ==
    ASSUME NEW a \in UndoAction
    PROVE  UndoOp[a] \in Undo
BY DEF UndoAction, UndoOp, Undo

\* A gateway call stays well formed when it moves.
LEMMA CallMovesTyped ==
    ASSUME call \in [Op -> Call], \A op \in Op : call[op].attempt <= MaxAttempts[op],
           CallShape, CallMoves
    PROVE  /\ call' \in [Op -> Call]
           /\ \A op \in Op : call'[op].attempt <= MaxAttempts[op]
           /\ CallShape'
<1>1. CASE call' = call
  BY <1>1 DEF CallShape
<1>2. ASSUME NEW op \in Op, NEW c \in Call, Moves(op, c)
      PROVE  /\ call' \in [Op -> Call]
             /\ \A x \in Op : call'[x].attempt <= MaxAttempts[x]
             /\ CallShape'
  <2>1. c.phase \in {"ready", "waiting", "done"}
    BY <1>2 DEF Moves, Call
  <2>2. call' \in [Op -> Call] /\ call'[op] = c /\ \A x \in Op \ {op} : call'[x] = call[x]
    BY <1>2 DEF Moves
  <2> QED
    BY <1>2, <2>1, <2>2 DEF Moves, CallShape
<1> QED
  BY <1>1, <1>2 DEF CallMoves

\* What the services keep stays well typed, whatever they take from the net.
LEMMA ServiceTyped ==
    ASSUME TypeOK, ServiceStep
    PROVE  /\ reservation' \in {None, "Reserved", "Released"}
           /\ payRecord' \in [PaymentPod -> {"none", "inProgress", "authorized", "declined"}]
           /\ payOwner' \in [PaymentPod -> 0..MaxAttempts["authorize"]]
           /\ ledger' \in [PaymentPod -> {"none", "open", "voided"}]
           /\ shipped' \in BOOLEAN
<1> USE DEF TypeOK
<1>1. MaxAttempts["authorize"] \in Nat
  BY AttemptsAssumption DEF Op, Forward
<1>2. ASSUME NEW m \in net,
             \/ Lose(m)
             \/ \E o \in Injected : InjectedFailure(m, o)
             \/ Reject(m) \/ Approve(m)
      PROVE  UNCHANGED serviceVars
  BY <1>2 DEF Lose, InjectedFailure, Reject, Approve
<1>3. ASSUME NEW m \in net, Reserve(m) \/ CreateShipment(m) \/ Release(m)
      PROVE  /\ reservation' \in {None, "Reserved", "Released"}
             /\ shipped' \in BOOLEAN
             /\ UNCHANGED <<payRecord, payOwner, ledger>>
  BY <1>3 DEF Reserve, CreateShipment, Release
<1>4. ASSUME NEW m \in net, NEW p \in PaymentPod, Void(m, p)
      PROVE  /\ ledger' \in [PaymentPod -> {"none", "open", "voided"}]
             /\ UNCHANGED <<reservation, payRecord, payOwner, shipped>>
  BY <1>4 DEF Void
<1>5. ASSUME NEW m \in net, NEW p \in PaymentPod, BeginAuthorize(m, p)
      PROVE  /\ payRecord' \in [PaymentPod -> {"none", "inProgress", "authorized", "declined"}]
             /\ payOwner' \in [PaymentPod -> 0..MaxAttempts["authorize"]]
             /\ UNCHANGED <<reservation, ledger, shipped>>
  <2>1. m.op = "authorize" /\ m.attempt \in 0..MaxAttempts["authorize"]
    BY <1>1, <1>5 DEF BeginAuthorize, Take
  <2> QED
    BY <1>5, <2>1 DEF BeginAuthorize
<1>6. ASSUME NEW p \in PaymentPod, NEW record \in {"none", "authorized", "declined"},
             NEW charge \in BOOLEAN, NEW o, EndAuthorize(p, record, charge, o)
      PROVE  /\ payRecord' \in [PaymentPod -> {"none", "inProgress", "authorized", "declined"}]
             /\ payOwner' \in [PaymentPod -> 0..MaxAttempts["authorize"]]
             /\ ledger' \in [PaymentPod -> {"none", "open", "voided"}]
             /\ UNCHANGED <<reservation, shipped>>
  BY <1>1, <1>6 DEF EndAuthorize
<1>7. ASSUME NEW p \in PaymentPod,
             \/ Authorize(p) \/ Decline(p)
             \/ \E o \in Injected : FailAuthorize(p, o)
             \/ AbortAuthorize(p)
      PROVE  /\ payRecord' \in [PaymentPod -> {"none", "inProgress", "authorized", "declined"}]
             /\ payOwner' \in [PaymentPod -> 0..MaxAttempts["authorize"]]
             /\ ledger' \in [PaymentPod -> {"none", "open", "voided"}]
             /\ UNCHANGED <<reservation, shipped>>
  BY <1>6, <1>7 DEF Authorize, Decline, FailAuthorize, AbortAuthorize
<1>8. CASE \E m \in net :
             \/ Lose(m)
             \/ \E o \in Injected : InjectedFailure(m, o)
             \/ Reject(m) \/ Approve(m)
  BY <1>2, <1>8 DEF serviceVars
<1>9. CASE \E m \in net : Reserve(m) \/ CreateShipment(m) \/ Release(m)
  BY <1>3, <1>9
<1>10. CASE \E m \in net, p \in PaymentPod : Void(m, p) \/ BeginAuthorize(m, p)
  BY <1>4, <1>5, <1>10
<1>11. CASE \E p \in PaymentPod :
             \/ Authorize(p) \/ Decline(p)
             \/ \E o \in Injected : FailAuthorize(p, o)
             \/ AbortAuthorize(p)
  BY <1>7, <1>11
<1> QED
  BY <1>8, <1>9, <1>10, <1>11 DEF ServiceStep

-----------------------------------------------------------------------------
(* The order, its place in ExecuteAsync, its calls and its plan.            *)

LEMMA FlowInit == Init => Flow
<1> SUFFICES ASSUME Init
             PROVE  Flow
  OBVIOUS
<1>1. TypeOK
  <2>1. Idle \in Call
    BY DEF Idle, Call
  <2>2. call \in [Op -> Call] /\ \A op \in Op : call[op].attempt <= MaxAttempts[op]
    BY <2>1, AttemptsAssumption DEF Init, Idle
  <2>3. MaxAttempts["authorize"] \in Nat
    BY AttemptsAssumption DEF Op, Forward
  <2>4. state \in OrderState /\ failure \in Failure
    BY DEF Init, OrderState, L!AllowedTransitions, Failure
  <2>5. compensation \in Compensation /\ plan \in Seq(UndoAction)
    BY DEF Init, Compensation
  <2>6. stored = None /\ net = {} /\ reservation = None
    BY DEF Init
  <2>7. /\ pc = "start" /\ budgetOver = FALSE /\ quiet = FALSE /\ shipped = FALSE
        /\ payRecord \in [PaymentPod -> {"none", "inProgress", "authorized", "declined"}]
        /\ payOwner \in [PaymentPod -> 0..MaxAttempts["authorize"]]
        /\ ledger \in [PaymentPod -> {"none", "open", "voided"}]
    BY <2>3 DEF Init
  <2> QED
    BY <2>2, <2>4, <2>5, <2>6, <2>7 DEF TypeOK
<1>2. CallShape /\ OrderAtPc /\ CallsAtPc /\ PlanAtPc
  BY DEF Init, CallShape, OrderAtPc, CallsAtPc, PlanAtPc, Idle, Op, Forward, Undo
<1> QED
  BY <1>1, <1>2 DEF Flow

\* Steps that only move a call keep the flow: a call that is under way belongs to the
\* current step, and it does not become idle.
LEMMA FlowOfCalls ==
    ASSUME Flow, UNCHANGED <<pc, orderVars>>, CallMoves
    PROVE  OrderAtPc' /\ CallsAtPc' /\ PlanAtPc'
<1>1. OrderAtPc' /\ PlanAtPc'
  BY DEF Flow, OrderAtPc, PlanAtPc, orderVars
<1>2. CASE call' = call
  BY <1>1, <1>2 DEF Flow, CallsAtPc, orderVars
<1>3. ASSUME NEW op \in Op, NEW c \in Call, Moves(op, c)
      PROVE  CallsAtPc'
  <2>1. /\ call[op].phase \in {"ready", "waiting"}
        /\ \A x \in Op \ {op} : call'[x] = call[x]
    BY <1>3 DEF Moves, Active, Flow, TypeOK
  <2> QED
    BY <2>1 DEF Flow, CallsAtPc, orderVars, Op, Forward, Undo
<1> QED
  BY <1>1, <1>2, <1>3 DEF CallMoves

LEMMA FlowCallAction ==
    ASSUME Flow, NEW op \in Op, CallAction(op)
    PROVE  Flow'
<1>1. TypeOK /\ CallShape
  BY DEF Flow
<1>2. /\ UNCHANGED <<pc, orderVars, budgetOver, serviceVars>>
      /\ CallMoves
      /\ \/ net' = net
         \/ /\ call[op].phase = "ready"
            /\ net' = net \cup {[op |-> op, attempt |-> call[op].attempt]}
  BY <1>1, CallActionEffect DEF CallMoves
<1>3. net' \subseteq [op : Op, attempt : Nat] /\ \A m \in net' : m.attempt \in 1..MaxAttempts[m.op]
  <2>1. call[op] \in Call /\ call[op].attempt \in Nat /\ MaxAttempts[op] \in Nat
    BY <1>1, AttemptsAssumption DEF TypeOK, Call
  <2> QED
    BY <1>1, <1>2, <2>1 DEF TypeOK, CallShape
<1>4. TypeOK' /\ CallShape'
  <2>1. /\ call' \in [Op -> Call]
        /\ \A x \in Op : call'[x].attempt <= MaxAttempts[x]
        /\ CallShape'
    BY <1>1, <1>2, CallMovesTyped DEF TypeOK
  <2> QED
    BY <1>1, <1>2, <1>3, <2>1 DEF TypeOK, orderVars, serviceVars
<1> QED
  BY <1>2, <1>4, FlowOfCalls DEF Flow

LEMMA FlowService ==
    ASSUME Flow, ServiceStep
    PROVE  Flow'
<1>1. TypeOK /\ CallShape
  BY DEF Flow
<1>2. UNCHANGED <<pc, orderVars, budgetOver>> /\ CallMoves /\ net' \subseteq net
  BY <1>1, ServiceEffect
<1>3. TypeOK' /\ CallShape'
  <2>1. /\ call' \in [Op -> Call]
        /\ \A x \in Op : call'[x].attempt <= MaxAttempts[x]
        /\ CallShape'
    BY <1>1, <1>2, CallMovesTyped DEF TypeOK
  <2>2. net' \subseteq [op : Op, attempt : Nat] /\ \A m \in net' : m.attempt \in 1..MaxAttempts[m.op]
    BY <1>1, <1>2 DEF TypeOK
  <2> QED
    BY <1>1, <1>2, <2>1, <2>2, ServiceTyped DEF TypeOK, orderVars
<1> QED
  BY <1>2, <1>3, FlowOfCalls DEF Flow

\* Fail: the order takes the failure state of the stage and the whole plan is to do.
LEMMA FlowFail ==
    ASSUME Flow, NEW stage \in L!Stage, NEW kind \in L!FailureKind, Fail(stage, kind),
           failure = None, \A op \in Forward : call[op].phase \in {"idle", "done"}
    PROVE  Flow'
<1> DEFINE f == [stage |-> stage, kind |-> kind]
<1>1. /\ pc' = "compensate" /\ state' = L!FailureStateFor(stage)
      /\ failure' = f /\ plan' = L!PlanFor(f)
      /\ UNCHANGED <<compensation, stored, budgetOver, call, net, serviceVars>>
      /\ quiet' \in BOOLEAN
  BY DEF Fail
<1>2. f \in [stage : L!Stage, kind : L!FailureKind] /\ f # None /\ f.stage = stage
  BY NoneAssumption
<1>3. L!FailureStateFor(stage) \in OrderState /\ L!IsFinal(L!FailureStateFor(stage))
  BY DEF L!FailureStateFor, L!Stage, OrderState, L!IsFinal, L!AllowedTransitions
<1>4. TypeOK'
  BY <1>1, <1>2, <1>3, PlanShape DEF Flow, TypeOK, Failure, serviceVars
<1>5. CallShape' /\ OrderAtPc' /\ CallsAtPc'
  BY <1>1, <1>2, <1>3 DEF Flow, CallShape, OrderAtPc, CallsAtPc
<1>6. PlanAtPc'
  <2>1. compensation = << >> /\ Len(compensation) = 0
    BY DEF Flow, PlanAtPc
  <2> QED
    BY <1>1, <1>2, <2>1, PlanShape DEF PlanAtPc
<1> QED
  BY <1>4, <1>5, <1>6 DEF Flow

\* TransitionTo: one call starts and every earlier result is used up.
LEMMA FlowAdvance ==
    ASSUME Flow, NEW target, NEW next, NEW op,
           \/ target = "InventoryReserved" /\ next = "payment" /\ op = "authorize"
           \/ target = "PaymentAuthorized" /\ next = "shipping" /\ op = "create",
           TransitionTo(target, next, op), failure = None
    PROVE  Flow'
<1>1. Idle \in Call /\ Started \in Call /\ op \in Op
  BY DEF Idle, Started, Call, Op, Forward
<1>2. /\ state' = target /\ pc' = next
      /\ call' = [[o \in Op |-> Idle] EXCEPT ![op] = Started]
      /\ UNCHANGED <<failure, compensation, plan, stored, quiet, budgetOver, net, serviceVars>>
  BY DEF TransitionTo
<1>3. \A o \in Op : call'[o] = IF o = op THEN Started ELSE Idle
  BY <1>1, <1>2
<1>4. TypeOK'
  <2>1. call' \in [Op -> Call] /\ \A o \in Op : call'[o].attempt <= MaxAttempts[o]
    BY <1>1, <1>2, <1>3, AttemptsAssumption DEF Idle, Started
  <2> QED
    BY <1>2, <2>1 DEF Flow, TypeOK, OrderState, L!AllowedTransitions, serviceVars
<1>5. CallShape' /\ CallsAtPc'
  BY <1>2, <1>3 DEF CallShape, CallsAtPc, Idle, Started, Op, Forward, Undo
<1>6. OrderAtPc' /\ PlanAtPc'
  BY <1>2 DEF Flow, OrderAtPc, PlanAtPc
<1> QED
  BY <1>4, <1>5, <1>6 DEF Flow

\* Before the order fails or completes its failure is unset, and where the results of
\* a step are looked at no forward call is running.
LEMMA FlowCoordinator ==
    ASSUME Flow, Begin \/ Resolve \/ AfterPayment \/ AfterShipping \/ Complete
    PROVE  Flow'
<1>1. pc \in {"start", "fanOut", "payment", "shipping", "complete"} /\ failure = None
  BY DEF Flow, OrderAtPc, Begin, Resolve, AfterPayment, AfterShipping, Complete
<1>2. ASSUME NEW op \in Op, Failed(op)
      PROVE  call[op].result \in L!FailureKind
  BY <1>2 DEF Flow, CallShape, Failed, Done, ResultKind
<1>3. {"Inventory", "Fraud", "Payment", "Shipping"} \subseteq L!Stage /\ Forward \subseteq Op
  BY DEF L!Stage, Op
<1>4. CASE Begin
  <2>1. Started \in Call
    BY DEF Started, Call
  <2>2. \A op \in Op : call'[op] = IF op \in {"reserve", "evaluate"} THEN Started ELSE call[op]
    BY <1>4 DEF Begin, Flow, TypeOK, Op, Forward
  <2>3. call' \in [Op -> Call] /\ \A op \in Op : call'[op].attempt <= MaxAttempts[op]
    <3>1. call' \in [Op -> Call]
      BY <1>4, <2>1 DEF Begin, Flow, TypeOK
    <3> QED
      BY <2>2, <3>1, AttemptsAssumption DEF Flow, TypeOK, Started
  <2>4. TypeOK'
    <3>1. ToSnapshot \in [state : OrderState, failure : Failure, compensation : Compensation]
      BY DEF ToSnapshot, Flow, TypeOK
    <3> QED
      BY <1>4, <2>3, <3>1 DEF Begin, Flow, TypeOK, serviceVars
  <2>5. pc' = "fanOut" /\ failure' = None /\ \A op \in Op : call[op].phase = "idle"
    BY <1>1, <1>4 DEF Begin, Flow, CallsAtPc
  <2>6. CallShape' /\ CallsAtPc'
    BY <2>2, <2>5 DEF CallShape, CallsAtPc, Started, Op, Undo
  <2>7. OrderAtPc' /\ PlanAtPc'
    BY <1>1, <1>4 DEF Begin, Flow, OrderAtPc, PlanAtPc
  <2> QED
    BY <2>4, <2>6, <2>7 DEF Flow
<1>5. CASE Resolve
  <2>1. \A op \in Forward : call[op].phase \in {"idle", "done"}
    BY <1>5 DEF Resolve, Done, Flow, CallsAtPc, Forward, Op
  <2>2. CASE \/ Failed("reserve") /\ Fail("Inventory", call["reserve"].result)
             \/ Failed("evaluate") /\ Fail("Fraud", call["evaluate"].result)
    <3>1. "reserve" \in Op /\ "evaluate" \in Op
      BY DEF Op, Forward
    <3> QED
      BY <1>1, <1>2, <1>3, <2>1, <2>2, <3>1, FlowFail
  <2>3. CASE TransitionTo("InventoryReserved", "payment", "authorize")
    BY <1>1, <2>3, FlowAdvance
  <2> QED
    BY <1>5, <2>2, <2>3 DEF Resolve
<1>6. CASE AfterPayment
  <2>1. CASE Failed("authorize") /\ Fail("Payment", call["authorize"].result)
    <3>1. \A op \in Forward : call[op].phase \in {"idle", "done"}
      BY <1>6, <2>1 DEF AfterPayment, Failed, Done, Flow, CallsAtPc, Forward, Op
    <3>2. "authorize" \in Op
      BY DEF Op, Forward
    <3> QED
      BY <1>1, <1>2, <1>3, <2>1, <3>1, <3>2, FlowFail
  <2>2. CASE TransitionTo("PaymentAuthorized", "shipping", "create")
    BY <1>1, <2>2, FlowAdvance
  <2> QED
    BY <1>6, <2>1, <2>2 DEF AfterPayment
<1>7. CASE AfterShipping
  <2>1. \A op \in Forward : call[op].phase \in {"idle", "done"}
    BY <1>7 DEF AfterShipping, Failed, Succeeded, Done, Flow, CallsAtPc, Forward, Op
  <2>2. CASE Failed("create") /\ Fail("Shipping", call["create"].result)
    <3>1. "create" \in Op
      BY DEF Op, Forward
    <3> QED
      BY <1>1, <1>2, <1>3, <2>1, <2>2, <3>1, FlowFail
  <2>3. CASE Succeeded("create")
    <3>1. /\ state' = "ShipmentCreated" /\ pc' = "complete"
          /\ UNCHANGED <<failure, compensation, plan, stored, quiet, budgetOver, call, net,
                         serviceVars>>
      BY <1>7, <2>3 DEF AfterShipping, Failed, Succeeded
    <3>2. TypeOK' /\ CallShape'
      BY <3>1 DEF Flow, TypeOK, CallShape, OrderState, L!AllowedTransitions, serviceVars
    <3>3. OrderAtPc' /\ CallsAtPc' /\ PlanAtPc'
      BY <1>1, <2>1, <3>1 DEF Flow, OrderAtPc, CallsAtPc, PlanAtPc
    <3> QED
      BY <3>2, <3>3 DEF Flow
  <2> QED
    BY <1>7, <2>2, <2>3 DEF AfterShipping
<1>8. CASE Complete
  <2>1. /\ pc = "complete" /\ state' = "Completed" /\ pc' = "compensate"
        /\ UNCHANGED <<failure, compensation, plan, stored, quiet, budgetOver, call, net,
                       serviceVars>>
    BY <1>8 DEF Complete
  <2>2. TypeOK' /\ CallShape'
    BY <2>1 DEF Flow, TypeOK, CallShape, OrderState, serviceVars
  <2>3. OrderAtPc' /\ CallsAtPc' /\ PlanAtPc'
    BY <1>1, <2>1 DEF Flow, OrderAtPc, CallsAtPc, PlanAtPc, L!IsFinal, L!AllowedTransitions
  <2> QED
    BY <2>2, <2>3 DEF Flow
<1> QED
  BY <1>4, <1>5, <1>6, <1>7, <1>8

\* CompensateAsync goes through the plan from its head and records every step.
LEMMA FlowCompensation ==
    ASSUME Flow, StartUndo \/ RecordUndo \/ Finish
    PROVE  Flow'
<1> USE DEF Flow
<1>1. pc = "compensate" /\ plan \in Seq(UndoAction) /\ compensation \in Compensation
  BY DEF StartUndo, RecordUndo, Finish, TypeOK
<1>2. CASE StartUndo
  <2> DEFINE op == UndoOp[Head(plan)]
  <2>1. op \in Undo /\ op \in Op /\ op \notin Forward
    <3>1. Head(plan) \in UndoAction
      BY <1>1, <1>2 DEF StartUndo
    <3> QED
      BY <3>1, UndoCalls DEF Undo, Op, Forward
  <2>2. failure # None
    BY <1>2 DEF StartUndo, PlanAtPc
  <2>3. /\ call' = [call EXCEPT ![op] = Started]
        /\ UNCHANGED <<pc, orderVars, budgetOver, net, serviceVars>>
    BY <1>2 DEF StartUndo, SetCall
  <2>4. /\ call' \in [Op -> Call] /\ \A x \in Op : call'[x].attempt <= MaxAttempts[x]
        /\ \A x \in Op : call'[x] = IF x = op THEN Started ELSE call[x]
    <3>1. Started \in Call
      BY DEF Started, Call
    <3>2. call' \in [Op -> Call] /\ \A x \in Op : call'[x] = IF x = op THEN Started ELSE call[x]
      BY <2>1, <2>3, <3>1 DEF TypeOK
    <3> QED
      BY <3>2, AttemptsAssumption DEF TypeOK, Started
  <2>5. TypeOK'
    BY <2>3, <2>4 DEF TypeOK, orderVars, serviceVars
  <2>6. CallShape' /\ CallsAtPc'
    BY <1>1, <2>1, <2>2, <2>3, <2>4 DEF CallShape, CallsAtPc, Started, orderVars, Forward, Op
  <2>7. OrderAtPc' /\ PlanAtPc'
    BY <2>3 DEF OrderAtPc, PlanAtPc, orderVars
  <2> QED
    BY <2>5, <2>6, <2>7
<1>3. CASE RecordUndo
  <2>1. PICK status \in {"Succeeded", "Failed"} : compensation' = Recorded(status)
    BY <1>3 DEF RecordUndo
  <2> DEFINE step == [action |-> Head(plan), status |-> status]
  <2>2. /\ plan # << >> /\ plan' = Tail(plan) /\ compensation' = Append(compensation, step)
        /\ UNCHANGED <<pc, state, failure, stored, quiet, budgetOver, call, net, serviceVars>>
    BY <1>3, <2>1 DEF RecordUndo, Recorded
  <2>3. failure # None
    BY <2>2 DEF PlanAtPc
  <2>4. plan' \in Seq(UndoAction) /\ step \in [action : UndoAction, status : {"Succeeded", "Failed"}]
    BY <1>1, <2>2
  <2>5. compensation' \in Compensation
    BY <1>1, <2>2, <2>4 DEF Compensation
  <2>6. TypeOK' /\ CallShape'
    BY <2>2, <2>4, <2>5 DEF TypeOK, CallShape, serviceVars
  <2>7. OrderAtPc' /\ CallsAtPc'
    BY <2>2 DEF OrderAtPc, CallsAtPc
  <2>8. PlanAtPc'
    <3> DEFINE all == L!PlanFor(failure)
    <3>1. /\ Len(compensation) \in Nat /\ Len(plan) \in Nat \ {0}
          /\ Len(compensation') = Len(compensation) + 1
          /\ \A i \in 1..Len(compensation) : compensation'[i] = compensation[i]
          /\ compensation'[Len(compensation) + 1] = step
      BY <1>1, <2>2, <2>4 DEF Compensation
    <3>2. /\ Len(plan') = Len(plan) - 1 /\ Head(plan) = plan[1]
          /\ \A i \in 1..Len(plan') : plan'[i] = plan[i + 1]
      BY <1>1, <2>2, <3>1
    <3>3. /\ Len(compensation) + Len(plan) = Len(all)
          /\ \A i \in 1..Len(compensation) : compensation[i].action = all[i]
          /\ \A i \in 1..Len(plan) : plan[i] = all[Len(compensation) + i]
      BY <1>1, <2>3 DEF PlanAtPc
    <3>4. \A i \in 1..Len(compensation') : compensation'[i].action = all[i]
      <4> TAKE i \in 1..Len(compensation')
      <4>1. CASE i \in 1..Len(compensation)
        BY <3>1, <3>3, <4>1
      <4>2. CASE i = Len(compensation) + 1
        BY <3>1, <3>2, <3>3, <4>2
      <4> QED
        BY <3>1, <4>1, <4>2
    <3>5. \A i \in 1..Len(plan') : plan'[i] = all[Len(compensation') + i]
      <4> TAKE i \in 1..Len(plan')
      <4>1. i + 1 \in 1..Len(plan) /\ plan'[i] = plan[i + 1]
        BY <3>1, <3>2
      <4>2. Len(compensation') + i = Len(compensation) + (i + 1)
        BY <3>1, <4>1
      <4> QED
        BY <3>3, <4>1, <4>2
    <3>6. Len(compensation') + Len(plan') = Len(all)
      <4> HIDE DEF all
      <4>1. Len(compensation) + 1 + (Len(plan) - 1) = Len(compensation) + Len(plan)
        BY <3>1
      <4> QED
        BY <3>1, <3>2, <3>3, <4>1
    <3> QED
      BY <1>1, <2>2, <2>3, <3>4, <3>5, <3>6 DEF PlanAtPc
  <2> QED
    BY <2>6, <2>7, <2>8
<1>4. CASE Finish
  <2>1. ToSnapshot \in [state : OrderState, failure : Failure, compensation : Compensation]
    BY DEF ToSnapshot, TypeOK
  <2>2. TypeOK' /\ CallShape'
    BY <1>4, <2>1 DEF Finish, TypeOK, CallShape, serviceVars
  <2>3. OrderAtPc' /\ CallsAtPc' /\ PlanAtPc'
    BY <1>4 DEF Finish, OrderAtPc, CallsAtPc, PlanAtPc
  <2> QED
    BY <2>2, <2>3
<1> QED
  BY <1>2, <1>3, <1>4

\* The invariant of the flow is inductive.
LEMMA FlowNext == Flow /\ [Next]_vars => Flow'
<1> SUFFICES ASSUME Flow, [Next]_vars
             PROVE  Flow'
  OBVIOUS
<1>1. CASE ServiceStep
  BY <1>1, FlowService
<1>2. CASE \E op \in Op : CallAction(op)
  BY <1>2, FlowCallAction
<1>3. CASE Begin \/ Resolve \/ AfterPayment \/ AfterShipping \/ Complete
  BY <1>3, FlowCoordinator
<1>4. CASE StartUndo \/ RecordUndo \/ Finish
  BY <1>4, FlowCompensation
<1>5. CASE TransactionBudgetExpires
  <2>1. TypeOK' /\ CallShape'
    BY <1>5 DEF TransactionBudgetExpires, Flow, TypeOK, CallShape, orderVars, serviceVars
  <2>2. OrderAtPc' /\ CallsAtPc' /\ PlanAtPc'
    BY <1>5 DEF TransactionBudgetExpires, Flow, OrderAtPc, CallsAtPc, PlanAtPc, orderVars
  <2> QED
    BY <2>1, <2>2 DEF Flow
<1>6. CASE Crash
  <2>1. call' = [op \in Op |-> Idle] /\ Idle \in Call
    BY <1>6 DEF Crash, Idle, Call
  <2>2. call' \in [Op -> Call] /\ \A op \in Op : call'[op].attempt <= MaxAttempts[op]
    BY <2>1, AttemptsAssumption DEF Idle
  <2>3. TypeOK' /\ CallShape'
    BY <1>6, <2>1, <2>2 DEF Crash, Flow, TypeOK, CallShape, Idle, serviceVars
  <2>4. OrderAtPc' /\ CallsAtPc' /\ PlanAtPc'
    BY <1>6, <2>1 DEF Crash, Flow, OrderAtPc, CallsAtPc, PlanAtPc, Idle, Op, Undo
  <2> QED
    BY <2>3, <2>4 DEF Flow
<1>7. CASE UNCHANGED vars
  <2>1. TypeOK' /\ CallShape'
    BY <1>7 DEF vars, Flow, TypeOK, CallShape
  <2>2. OrderAtPc' /\ CallsAtPc' /\ PlanAtPc'
    BY <1>7 DEF vars, Flow, OrderAtPc, CallsAtPc, PlanAtPc
  <2> QED
    BY <2>1, <2>2 DEF Flow
<1> QED
  BY <1>1, <1>2, <1>3, <1>4, <1>5, <1>6, <1>7 DEF Next, OrderStep, CallAction, Quiescent

LEMMA FlowInvariant == Spec => []Flow
BY FlowInit, FlowNext, PTL DEF Spec

\* The order, its calls, the requests on the way and the services keep their types, and
\* no pipeline makes more attempts than its DependencyProfile allows.
THEOREM Typing == Spec => []TypeOK
<1>1. Flow => TypeOK
  BY DEF Flow
<1> QED
  BY <1>1, FlowInvariant, PTL

\* Once an order has failed, no gateway call of a forward step is running, so no retry of
\* a forward step can start behind its undo.
THEOREM NoForwardRetry == Spec => []NoForwardCallAfterFailure
<1>1. Flow => NoForwardCallAfterFailure
  BY DEF Flow, OrderAtPc, CallsAtPc, NoForwardCallAfterFailure, Op
<1> QED
  BY <1>1, FlowInvariant, PTL

-----------------------------------------------------------------------------
(* The coordinator implements the lifecycle of an order.                    *)

\* A failure of the coordinator is a failure of the lifecycle.
LEMMA FailRefines ==
    ASSUME Flow, NEW op \in Op, Failed(op), NEW stage \in L!Stage,
           Fail(stage, call[op].result), pc # "finished"
    PROVE  L!LifecycleNext
<1>1. call[op].result \in L!FailureKind
  BY DEF Flow, CallShape, Failed, Done, ResultKind
<1>2. L!FailAt(stage, call[op].result)
  BY DEF Fail, L!FailAt
<1> QED
  BY <1>1, <1>2 DEF L!LifecycleNext

LEMMA LifecycleStep == Flow /\ [Next]_vars => [L!LifecycleNext]_(L!lifecycleVars)
<1> SUFFICES ASSUME Flow, [Next]_vars
             PROVE  L!LifecycleNext \/ UNCHANGED L!lifecycleVars
  OBVIOUS
<1>1. TypeOK /\ CallShape
  BY DEF Flow
<1>2. {"reserve", "evaluate", "authorize", "create"} \subseteq Op
      /\ {"Inventory", "Fraud", "Payment", "Shipping"} \subseteq L!Stage
  BY DEF Op, Forward, L!Stage
<1>3. CASE ServiceStep
  BY <1>1, <1>3, ServiceEffect DEF L!lifecycleVars, orderVars
<1>4. CASE \E op \in Op : CallAction(op)
  BY <1>1, <1>4, CallActionEffect DEF L!lifecycleVars, orderVars
<1>5. CASE Begin
  BY <1>5 DEF Begin, L!lifecycleVars
<1>6. CASE Resolve
  <2>1. CASE \/ Failed("reserve") /\ Fail("Inventory", call["reserve"].result)
             \/ Failed("evaluate") /\ Fail("Fraud", call["evaluate"].result)
    BY <1>2, <1>6, <2>1, FailRefines DEF Resolve
  <2>2. CASE TransitionTo("InventoryReserved", "payment", "authorize")
    <3>1. L!Advance("InventoryReserved")
      BY <1>6, <2>2 DEF Resolve, TransitionTo, L!Advance
    <3> QED
      BY <3>1 DEF L!LifecycleNext
  <2> QED
    BY <1>6, <2>1, <2>2 DEF Resolve
<1>7. CASE AfterPayment
  <2>1. CASE Failed("authorize") /\ Fail("Payment", call["authorize"].result)
    BY <1>2, <1>7, <2>1, FailRefines DEF AfterPayment
  <2>2. CASE TransitionTo("PaymentAuthorized", "shipping", "create")
    <3>1. L!Advance("PaymentAuthorized")
      BY <1>7, <2>2 DEF AfterPayment, TransitionTo, L!Advance
    <3> QED
      BY <3>1 DEF L!LifecycleNext
  <2> QED
    BY <1>7, <2>1, <2>2 DEF AfterPayment
<1>8. CASE AfterShipping
  <2>1. CASE Failed("create") /\ Fail("Shipping", call["create"].result)
    BY <1>2, <1>8, <2>1, FailRefines DEF AfterShipping
  <2>2. CASE ~(Failed("create") /\ Fail("Shipping", call["create"].result))
    <3>1. L!Advance("ShipmentCreated")
      BY <1>8, <2>2 DEF AfterShipping, L!Advance
    <3> QED
      BY <3>1 DEF L!LifecycleNext
  <2> QED
    BY <2>1, <2>2
<1>9. CASE Complete
  <2>1. L!Advance("Completed")
    BY <1>9 DEF Complete, L!Advance
  <2> QED
    BY <2>1 DEF L!LifecycleNext
<1>10. CASE StartUndo
  BY <1>10 DEF StartUndo, L!lifecycleVars, orderVars
<1>11. CASE RecordUndo
  <2>1. PICK status \in {"Succeeded", "Failed"} : compensation' = Recorded(status)
    BY <1>11 DEF RecordUndo
  <2>2. /\ pc = "compensate" /\ plan # << >> /\ failure # None
        /\ UNCHANGED <<pc, state, failure>>
    BY <1>11 DEF RecordUndo, Flow, PlanAtPc
  <2>3. /\ Len(plan) \in Nat \ {0} /\ Head(plan) = plan[1] /\ Len(compensation) \in Nat
    BY <1>1, <2>2 DEF TypeOK, Compensation
  <2>4. /\ Len(compensation) < Len(L!PlanFor(failure))
        /\ Head(plan) = L!PlanFor(failure)[Len(compensation) + 1]
    BY <2>2, <2>3 DEF Flow, PlanAtPc
  <2>5. L!Undo(status)
    BY <2>1, <2>2, <2>4 DEF L!Undo, Recorded
  <2> QED
    BY <2>5 DEF L!LifecycleNext
<1>12. CASE Finish
  <2>1. /\ pc = "compensate" /\ plan = << >> /\ L!IsFinal(state)
        /\ pc' = "finished" /\ UNCHANGED <<state, failure, compensation>>
    BY <1>12 DEF Finish, Flow, OrderAtPc
  <2>2. failure # None => Len(compensation) = Len(L!PlanFor(failure))
    BY <1>1, <2>1 DEF Flow, PlanAtPc, TypeOK, Compensation
  <2>3. L!Return
    BY <2>1, <2>2 DEF L!Return
  <2> QED
    BY <2>3 DEF L!LifecycleNext
<1>13. CASE TransactionBudgetExpires
  BY <1>13 DEF TransactionBudgetExpires, L!lifecycleVars, orderVars
<1>14. CASE Crash
  BY <1>14 DEF Crash, L!lifecycleVars
<1>15. CASE UNCHANGED vars
  BY <1>15 DEF vars, L!lifecycleVars
<1> QED
  BY <1>3, <1>4, <1>5, <1>6, <1>7, <1>8, <1>9, <1>10, <1>11, <1>12, <1>13, <1>14, <1>15
     DEF Next, OrderStep, CallAction, Quiescent

\* The coordinator implements the order lifecycle: it only takes the transitions of
\* OrderStateMachine, and answers once, after every undo step of the failure was recorded
\* in the order of CompensationPlan.
THEOREM Refinement == Spec => ImplementsLifecycle
<1>1. Init => L!LifecycleInit
  BY DEF Init, L!LifecycleInit
<1> QED
  BY <1>1, LifecycleStep, FlowInvariant, PTL DEF Spec, ImplementsLifecycle, L!LifecycleSpec

-----------------------------------------------------------------------------
(* What the results of the forward calls say about the services.            *)

\* Without a failure nothing is undone, and every forward call that succeeded, or step
\* that is behind the order, has left its effect.
Effects ==
    /\ failure = None =>
         /\ \A m \in net : m.op \in Forward
         /\ \A p \in PaymentPod : payRecord[p] = "authorized" => ledger[p] = "open"
         /\ Succeeded("reserve") \/ state # "Pending" => reservation = "Reserved"
    /\ Succeeded("authorize") \/ state \in {"PaymentAuthorized", "ShipmentCreated", "Completed"}
         => \E p \in PaymentPod : payRecord[p] = "authorized"
    /\ Succeeded("create") \/ state \in {"ShipmentCreated", "Completed"} => shipped

\* Until the order has its stock, and when it fails before, nobody is asked for money.
BeforePayment ==
    state \in {"Pending", "InventoryFailed", "FraudFailed"} =>
      /\ \A m \in net : m.op # "authorize"
      /\ \A p \in PaymentPod : payRecord[p] = "none" /\ ledger[p] = "none"

\* Which outcomes become a success, and which a rejection.
LEMMA ResultMeans ==
    ASSUME NEW op \in Op, NEW o \in Outcome
    PROVE  /\ ResultOf(op, o) = "Success" <=> o = "ok" \/ (o = "notFound" /\ op = "release")
           /\ ResultOf(op, o) = "BusinessRejection" <=> o = "rejected"
<1>1. CASE o = "ok"
  BY <1>1 DEF ResultOf
<1>2. CASE o = "notFound" /\ op = "release"
  BY <1>2 DEF ResultOf
<1>3. CASE o = "rejected"
  BY <1>3 DEF ResultOf
<1>4. CASE o = "timeout"
  BY <1>4 DEF ResultOf
<1>5. CASE o = "connection"
  BY <1>5 DEF ResultOf
<1>6. CASE o \in {"notFound", "conflict", "transient", "error"} /\ ~(o = "notFound" /\ op = "release")
  BY <1>6 DEF ResultOf
<1> QED
  BY <1>1, <1>2, <1>3, <1>4, <1>5, <1>6 DEF Outcome

\* An answer finishes no other call than its own, and with its own result.
LEMMA NewResult ==
    ASSUME TypeOK, CallShape, NEW m, m.op \in Op, NEW o \in Outcome, Answer(m, o)
    PROVE  \A x \in Op : Done(x)' =>
             \/ Done(x) /\ call'[x] = call[x]
             \/ x = m.op /\ call'[x].result = ResultOf(m.op, o)
<1>1. CASE call' = call
  BY <1>1 DEF Done
<1>2. ASSUME NEW c \in Call, Moves(m.op, c), c.phase = "done" => c.result = ResultOf(m.op, o)
      PROVE  \A x \in Op : Done(x)' =>
               \/ Done(x) /\ call'[x] = call[x]
               \/ x = m.op /\ call'[x].result = ResultOf(m.op, o)
  <2>1. call'[m.op] = c /\ \A x \in Op \ {m.op} : call'[x] = call[x]
    BY <1>2 DEF Moves, TypeOK
  <2> QED
    BY <1>2, <2>1 DEF Done
<1> QED
  BY <1>1, <1>2, AnswerEffect

\* A pipeline never finds a success or a rejection by itself.
LEMMA NoResultWithoutAnswer ==
    ASSUME TypeOK, CallShape, NEW op \in Op, CallAction(op)
    PROVE  \A x \in Op : Done(x)' =>
             \/ Done(x) /\ call'[x] = call[x]
             \/ call'[x].result \in {"Timeout", "Unavailable"}
<1>1. PICK c \in Call : Moves(op, c) /\ (c.phase = "done" => c.result \in {"Timeout", "Unavailable"})
  BY CallActionEffect
<1>2. call'[op] = c /\ \A x \in Op \ {op} : call'[x] = call[x]
  BY <1>1 DEF Moves, TypeOK
<1> QED
  BY <1>1, <1>2 DEF Done

LEMMA EffectsCallAction ==
    ASSUME Flow, Effects, BeforePayment, NEW op \in Op, CallAction(op)
    PROVE  Effects' /\ BeforePayment'
<1>1. TypeOK /\ CallShape
  BY DEF Flow
<1>2. /\ UNCHANGED <<pc, orderVars, budgetOver, serviceVars>>
      /\ \/ net' = net
         \/ /\ call[op].phase = "ready"
            /\ net' = net \cup {[op |-> op, attempt |-> call[op].attempt]}
  BY <1>1, CallActionEffect
<1>3. \A x \in Op : Succeeded(x)' => Succeeded(x)
  BY <1>1, NoResultWithoutAnswer DEF Succeeded
<1>4. {"reserve", "authorize", "create"} \subseteq Op
  BY DEF Op, Forward
<1>5. call[op].phase = "ready" =>
        /\ failure = None => op \in Forward
        /\ op = "authorize" => state \notin {"Pending", "InventoryFailed", "FraudFailed"}
  BY DEF Flow, TypeOK, CallsAtPc, OrderAtPc, Op, Forward, Undo
<1>6. Effects'
  BY <1>2, <1>3, <1>4, <1>5 DEF Effects, orderVars, serviceVars
<1>7. BeforePayment'
  BY <1>2, <1>5 DEF BeforePayment, orderVars, serviceVars
<1> QED
  BY <1>6, <1>7

LEMMA EffectsService ==
    ASSUME Flow, Effects, BeforePayment, ServiceStep
    PROVE  Effects' /\ BeforePayment'
<1>1. TypeOK /\ CallShape
  BY DEF Flow
<1>2. UNCHANGED <<pc, orderVars, budgetOver>> /\ net' \subseteq net
  BY <1>1, ServiceEffect
<1>3. /\ \A m \in net : m.op \in Op
      /\ {"reserve", "evaluate", "authorize", "create"} \subseteq Op
      /\ Injected \subseteq Outcome \ {"ok"}
      /\ {"ok", "rejected", "notFound", "conflict", "connection"} \subseteq Outcome
  BY <1>1, InjectedAssumption DEF TypeOK, Op, Forward, Outcome
<1>4. ASSUME NEW m, m.op \in Op, NEW o \in Outcome, Answer(m, o)
      PROVE  /\ \A x \in Op : Succeeded(x)' => Succeeded(x) \/ (x = m.op /\ ResultOf(m.op, o) = "Success")
             /\ m.op # "release" /\ o # "ok" => \A x \in Op : Succeeded(x)' => Succeeded(x)
             /\ \A x \in Op \ {m.op} : Succeeded(x)' => Succeeded(x)
  <2>1. \A x \in Op : Succeeded(x)' => Succeeded(x) \/ (x = m.op /\ ResultOf(m.op, o) = "Success")
    BY <1>1, <1>4, NewResult DEF Succeeded
  <2> QED
    BY <1>4, <2>1, ResultMeans
<1>5. ASSUME NEW m \in net,
             \/ Lose(m)
             \/ \E o \in Injected : InjectedFailure(m, o)
             \/ Reject(m) \/ Approve(m)
      PROVE  Effects' /\ BeforePayment'
  <2>1. UNCHANGED serviceVars
    BY <1>5 DEF Lose, InjectedFailure, Reject, Approve
  <2>2. \A x \in {"reserve", "authorize", "create"} : Succeeded(x)' => Succeeded(x)
    <3>1. CASE Lose(m)
      BY <3>1 DEF Lose, Succeeded, Done
    <3>2. CASE \E o \in Injected : InjectedFailure(m, o)
      BY <1>3, <1>4, <3>2 DEF InjectedFailure
    <3>3. CASE Reject(m)
      BY <1>3, <1>4, <3>3 DEF Reject
    <3>4. CASE Approve(m)
      BY <1>3, <1>4, <3>4 DEF Approve, Take
    <3> QED
      BY <1>5, <3>1, <3>2, <3>3, <3>4
  <2> QED
    BY <1>2, <2>1, <2>2 DEF Effects, BeforePayment, orderVars, serviceVars
<1>6. ASSUME NEW m \in net, Reserve(m) \/ CreateShipment(m)
      PROVE  Effects' /\ BeforePayment'
  <2>1. m.op \in {"reserve", "create"} /\ Answer(m, "ok") /\ UNCHANGED <<payRecord, ledger>>
    BY <1>6 DEF Reserve, CreateShipment, Take
  <2>2. /\ reservation' = "Reserved" \/ (m.op # "reserve" /\ reservation' = reservation)
        /\ shipped' \/ (m.op # "create" /\ shipped' = shipped)
    BY <1>6 DEF Reserve, CreateShipment, Take
  <2>3. \A x \in Op \ {m.op} : Succeeded(x)' => Succeeded(x)
    BY <1>3, <1>4, <2>1
  <2> QED
    BY <1>2, <1>3, <2>1, <2>2, <2>3 DEF Effects, BeforePayment, orderVars
<1>7. ASSUME NEW m \in net, Release(m) \/ \E p \in PaymentPod : Void(m, p)
      PROVE  Effects' /\ BeforePayment'
  <2>1. m.op \in Undo /\ failure # None
    BY <1>7 DEF Release, Void, Take, Undo, Effects, Forward
  <2>2. UNCHANGED <<payRecord, shipped>>
    BY <1>7 DEF Release, Void
  <2>3. \A x \in {"reserve", "authorize", "create"} : Succeeded(x)' => Succeeded(x)
    BY <1>3, <1>4, <1>7, <2>1 DEF Release, Void, Undo
  <2>4. \A q \in PaymentPod : ledger[q] = "none" => ledger'[q] = "none"
    BY <1>1, <1>7 DEF Release, Void, TypeOK
  <2> QED
    BY <1>2, <2>1, <2>2, <2>3, <2>4 DEF Effects, BeforePayment, orderVars
<1>8. ASSUME NEW m \in net, NEW p \in PaymentPod, BeginAuthorize(m, p)
      PROVE  Effects' /\ BeforePayment'
  <2>1. m.op = "authorize" /\ UNCHANGED <<reservation, ledger, shipped>>
    BY <1>8 DEF BeginAuthorize, Take
  <2>2. \A q \in PaymentPod : (payRecord[q] = "authorized") <=> (payRecord'[q] = "authorized")
    BY <1>1, <1>8 DEF BeginAuthorize, TypeOK
  <2>3. \A x \in {"reserve", "authorize", "create"} :
          Succeeded(x)' => Succeeded(x) \/ (x = "authorize" /\ payRecord[p] = "authorized")
    <3>1. payRecord[p] \in {"none", "inProgress", "authorized", "declined"}
      BY <1>1 DEF TypeOK
    <3>2. CASE call' = call
      BY <3>2 DEF Succeeded, Done
    <3>3. CASE payRecord[p] = "inProgress" /\ Answer(m, "conflict")
      BY <1>3, <1>4, <2>1, <3>3
    <3>4. CASE payRecord[p] = "declined" /\ Answer(m, "rejected")
      BY <1>3, <1>4, <2>1, <3>4
    <3>5. CASE payRecord[p] = "authorized" /\ Answer(m, "ok")
      BY <1>3, <1>4, <2>1, <3>5
    <3> QED
      BY <1>8, <3>1, <3>2, <3>3, <3>4, <3>5 DEF BeginAuthorize
  <2>4. Effects'
    BY <1>2, <2>1, <2>2, <2>3 DEF Effects, orderVars
  <2>5. BeforePayment'
    BY <1>2, <2>1 DEF BeforePayment, orderVars
  <2> QED
    BY <2>4, <2>5
<1>9. ASSUME NEW p \in PaymentPod, NEW record \in {"none", "authorized", "declined"},
             NEW charge \in BOOLEAN, NEW o \in Outcome, EndAuthorize(p, record, charge, o),
             charge <=> record = "authorized", o = "ok" => charge
      PROVE  Effects' /\ BeforePayment'
  <2>1. /\ payRecord[p] = "inProgress" /\ payRecord'[p] = record
        /\ \A q \in PaymentPod \ {p} : payRecord'[q] = payRecord[q] /\ ledger'[q] = ledger[q]
        /\ charge => ledger'[p] = "open"
        /\ UNCHANGED <<reservation, shipped>>
    BY <1>1, <1>9 DEF EndAuthorize, TypeOK
  <2>2. \A x \in {"reserve", "authorize", "create"} :
          Succeeded(x)' => Succeeded(x) \/ (x = "authorize" /\ charge)
    <3> DEFINE m == [op |-> "authorize", attempt |-> payOwner[p]]
    <3>1. m.op = "authorize" /\ Answer(m, o)
      BY <1>9 DEF EndAuthorize
    <3> QED
      BY <1>3, <1>4, <1>9, <3>1
  <2>3. Effects'
    BY <1>2, <1>9, <2>1, <2>2 DEF Effects, orderVars
  <2>4. BeforePayment'
    BY <1>2, <2>1 DEF BeforePayment, orderVars
  <2> QED
    BY <2>3, <2>4
<1>10. ASSUME NEW p \in PaymentPod,
             \/ Authorize(p) \/ Decline(p)
             \/ \E o \in Injected : FailAuthorize(p, o)
             \/ AbortAuthorize(p)
      PROVE  Effects' /\ BeforePayment'
  BY <1>3, <1>9, <1>10 DEF Authorize, Decline, FailAuthorize, AbortAuthorize
<1> QED
  BY <1>5, <1>6, <1>7, <1>8, <1>10 DEF ServiceStep

LEMMA EffectsOrder ==
    ASSUME Flow, Effects, BeforePayment,
           \/ Begin \/ Resolve \/ AfterPayment \/ AfterShipping \/ Complete
           \/ StartUndo \/ RecordUndo \/ Finish \/ TransactionBudgetExpires \/ Crash
    PROVE  Effects' /\ BeforePayment'
<1>1. UNCHANGED <<net, reservation, payRecord, ledger, shipped>>
  BY DEF Begin, Resolve, AfterPayment, AfterShipping, Complete, StartUndo, RecordUndo, Finish,
     TransactionBudgetExpires, Crash, Fail, TransitionTo, serviceVars
<1>2. ASSUME UNCHANGED <<state, failure>>, \A x \in {"reserve", "authorize", "create"} :
               Succeeded(x)' => Succeeded(x)
      PROVE  Effects' /\ BeforePayment'
  BY <1>1, <1>2 DEF Effects, BeforePayment
<1>3. {"reserve", "authorize", "create"} \subseteq Forward /\ Forward \subseteq Op
  BY DEF Op, Forward
<1>4. CASE Begin
  <2>1. \A x \in {"reserve", "authorize", "create"} : Succeeded(x)' => Succeeded(x)
    <3>1. /\ call'["authorize"] = call["authorize"] /\ call'["create"] = call["create"]
          /\ call'["reserve"].phase = "ready"
      BY <1>3, <1>4 DEF Begin, Flow, TypeOK, Started, Forward, Op
    <3> QED
      BY <3>1 DEF Succeeded, Done
  <2> QED
    BY <1>2, <1>4, <2>1 DEF Begin
<1>5. ASSUME NEW stage \in L!Stage, NEW kind \in L!FailureKind, Fail(stage, kind)
      PROVE  Effects' /\ BeforePayment'
  <2>1. /\ failure' # None /\ UNCHANGED call
        /\ state' \in {"InventoryFailed", "FraudFailed", "PaymentFailed", "ShippingFailed"}
    BY <1>5, NoneAssumption DEF Fail, L!FailureStateFor, L!Stage
  <2>2. state' \in {"InventoryFailed", "FraudFailed"} => state = "Pending"
    BY <1>5, <2>1 DEF Fail, L!CanTransition, L!AllowedTransitions
  <2>3. Effects'
    BY <1>1, <2>1 DEF Effects, Succeeded, Done
  <2>4. BeforePayment'
    BY <1>1, <2>1, <2>2 DEF BeforePayment
  <2> QED
    BY <2>3, <2>4
<1>6. ASSUME NEW op \in Op, Failed(op), NEW stage \in L!Stage, Fail(stage, call[op].result)
      PROVE  Effects' /\ BeforePayment'
  BY <1>5, <1>6 DEF Flow, CallShape, Failed, Done, ResultKind
<1>7. ASSUME NEW target, NEW next, NEW op, TransitionTo(target, next, op)
      PROVE  /\ state' = target /\ failure' = failure
             /\ \A x \in Op : ~Succeeded(x)'
  BY <1>7 DEF TransitionTo, Succeeded, Done, Idle, Started
<1>8. {"Inventory", "Fraud", "Payment", "Shipping"} \subseteq L!Stage
  BY DEF L!Stage
<1>9. "evaluate" \in Op
  BY DEF Op, Forward
<1>10. CASE Resolve
  <2>1. CASE \/ Failed("reserve") /\ Fail("Inventory", call["reserve"].result)
             \/ Failed("evaluate") /\ Fail("Fraud", call["evaluate"].result)
    BY <1>3, <1>6, <1>8, <1>9, <2>1
  <2>2. CASE Succeeded("reserve") /\ TransitionTo("InventoryReserved", "payment", "authorize")
    BY <1>1, <1>3, <1>7, <2>2 DEF Effects, BeforePayment
  <2> QED
    BY <1>10, <2>1, <2>2 DEF Resolve
<1>11. CASE AfterPayment
  <2>1. CASE Failed("authorize") /\ Fail("Payment", call["authorize"].result)
    BY <1>3, <1>6, <1>8, <2>1
  <2>2. CASE Succeeded("authorize") /\ TransitionTo("PaymentAuthorized", "shipping", "create")
    <3>1. state # "Pending"
      BY <1>11 DEF AfterPayment, Flow, OrderAtPc
    <3> QED
      BY <1>1, <1>3, <1>7, <2>2, <3>1 DEF Effects, BeforePayment
  <2> QED
    BY <1>11, <2>1, <2>2 DEF AfterPayment
<1>12. CASE AfterShipping
  <2>1. CASE Failed("create") /\ Fail("Shipping", call["create"].result)
    BY <1>3, <1>6, <1>8, <2>1
  <2>2. CASE Succeeded("create")
    <3>1. state' = "ShipmentCreated" /\ UNCHANGED <<failure, call>> /\ state = "PaymentAuthorized"
      BY <1>12, <2>2 DEF AfterShipping, Failed, Succeeded, Flow, OrderAtPc
    <3> QED
      BY <1>1, <2>2, <3>1 DEF Effects, BeforePayment, Succeeded, Done
  <2> QED
    BY <1>12, <2>1, <2>2 DEF AfterShipping
<1>13. CASE Complete
  <2>1. state = "ShipmentCreated" /\ state' = "Completed" /\ UNCHANGED <<failure, call>>
    BY <1>13 DEF Complete, Flow, OrderAtPc
  <2> QED
    BY <1>1, <2>1 DEF Effects, BeforePayment, Succeeded, Done
<1>14. CASE StartUndo
  <2> DEFINE op == UndoOp[Head(plan)]
  <2>1. op \in Undo
    <3>1. Head(plan) \in UndoAction
      BY <1>14 DEF StartUndo, Flow, TypeOK
    <3> QED
      BY <3>1, UndoCalls
  <2>2. \A x \in {"reserve", "authorize", "create"} : Succeeded(x)' => Succeeded(x)
    <3>1. call' = [call EXCEPT ![op] = Started]
      BY <1>14 DEF StartUndo, SetCall
    <3>2. \A x \in {"reserve", "authorize", "create"} : call'[x] = call[x]
      BY <1>3, <2>1, <3>1 DEF Flow, TypeOK, Undo
    <3> QED
      BY <3>2 DEF Succeeded, Done
  <2> QED
    BY <1>2, <1>14, <2>2 DEF StartUndo, orderVars
<1>15. CASE RecordUndo \/ Finish \/ TransactionBudgetExpires
  <2>1. UNCHANGED <<state, failure, call>>
    BY <1>15 DEF RecordUndo, Finish, TransactionBudgetExpires, orderVars
  <2> QED
    BY <1>2, <2>1 DEF Succeeded, Done
<1>16. CASE Crash
  <2>1. UNCHANGED <<state, failure>> /\ \A x \in Op : ~Succeeded(x)'
    BY <1>16 DEF Crash, Succeeded, Done, Idle
  <2> QED
    BY <1>2, <1>3, <2>1
<1> QED
  BY <1>4, <1>10, <1>11, <1>12, <1>13, <1>14, <1>15, <1>16

LEMMA EffectsInvariant == Spec => [](Flow /\ Effects /\ BeforePayment)
<1>1. Init => Flow /\ Effects /\ BeforePayment
  <2>1. Init => Effects
    BY DEF Init, Effects, Succeeded, Done, Idle, Op, Forward
  <2>2. Init => BeforePayment
    BY DEF Init, BeforePayment
  <2> QED
    BY <2>1, <2>2, FlowInit
<1>2. Flow /\ Effects /\ BeforePayment /\ [Next]_vars => (Flow /\ Effects /\ BeforePayment)'
  <2> SUFFICES ASSUME Flow, Effects, BeforePayment, [Next]_vars
               PROVE  Effects' /\ BeforePayment'
    BY FlowNext
  <2>1. CASE ServiceStep
    BY <2>1, EffectsService
  <2>2. CASE \E op \in Op : CallAction(op)
    BY <2>2, EffectsCallAction
  <2>3. CASE \/ Begin \/ Resolve \/ AfterPayment \/ AfterShipping \/ Complete
             \/ StartUndo \/ RecordUndo \/ Finish \/ TransactionBudgetExpires \/ Crash
    BY <2>3, EffectsOrder
  <2>4. CASE UNCHANGED vars
    BY <2>4 DEF vars, Effects, BeforePayment, Succeeded, Done
  <2> QED
    BY <2>1, <2>2, <2>3, <2>4 DEF Next, OrderStep, CallAction, Quiescent
<1> QED
  BY <1>1, <1>2, PTL DEF Spec

\* An order answered as Completed holds its stock and an authorization that is not voided,
\* and its shipment exists, whatever retries, late requests and injected errors did, on
\* every number of payment pods.
THEOREM CompletedIsComplete == Spec => []CompletedMeansEverything
<1>1. Flow /\ Effects /\ BeforePayment => CompletedMeansEverything
  <2> SUFFICES ASSUME Flow, Effects, state = "Completed"
               PROVE  reservation = "Reserved" /\ shipped /\ \E p \in PaymentPod : ledger[p] = "open"
    BY DEF CompletedMeansEverything
  <2>1. failure = None
    <3>1. failure # None => failure.stage \in L!Stage
      BY DEF Flow, TypeOK, Failure
    <3> QED
      BY <3>1 DEF Flow, OrderAtPc, L!FailureStateFor, L!Stage
  <2> QED
    BY <2>1 DEF Effects
<1> QED
  BY <1>1, EffectsInvariant, PTL

-----------------------------------------------------------------------------
(* Declined payments and undone orders.  Each hypothesis below is needed:   *)
(* TLC finds a counterexample without it.                                   *)

\* One PaymentService pod receives requests: no rollout overlaps two of them, whose
\* idempotency stores and ledgers know nothing of each other.
OnePaymentPod == \A p, q \in PaymentPod : p = q

\* A pod that has charged keeps the record of it, and a payment that was rejected left a
\* declined record behind.
Charges ==
    /\ \A p \in PaymentPod : ledger[p] # "none" => payRecord[p] = "authorized"
    /\ \/ Done("authorize") /\ call["authorize"].result = "BusinessRejection"
       \/ failure = [stage |-> "Payment", kind |-> "BusinessRejection"]
       => \E p \in PaymentPod : payRecord[p] = "declined"

LEMMA ChargesService ==
    ASSUME "rejected" \notin Injected, Flow, Charges, ServiceStep
    PROVE  Charges'
<1>1. TypeOK /\ CallShape /\ UNCHANGED orderVars
  BY ServiceEffect DEF Flow
<1>2. /\ \A m \in net : m.op \in Op
      /\ "authorize" \in Op
      /\ Injected \subseteq Outcome \ {"rejected"}
      /\ {"ok", "rejected", "notFound", "conflict", "connection"} \subseteq Outcome
  BY <1>1, InjectedAssumption DEF TypeOK, Op, Forward, Outcome
<1> DEFINE Rejected == Done("authorize") /\ call["authorize"].result = "BusinessRejection"
<1>3. ASSUME NEW m, m.op \in Op, NEW o \in Outcome, Answer(m, o),
             m.op # "authorize" \/ o # "rejected"
      PROVE  Rejected' => Rejected
  BY <1>1, <1>2, <1>3, NewResult, ResultMeans
<1>4. ASSUME UNCHANGED <<payRecord, ledger>>, Rejected' => Rejected
      PROVE  Charges'
  BY <1>1, <1>4 DEF Charges, orderVars
<1>5. ASSUME NEW m \in net,
             \/ Lose(m)
             \/ \E o \in Injected : InjectedFailure(m, o)
             \/ Reject(m) \/ Reserve(m) \/ Approve(m) \/ CreateShipment(m) \/ Release(m)
      PROVE  Charges'
  <2>1. UNCHANGED <<payRecord, ledger>>
    BY <1>5 DEF Lose, InjectedFailure, Reject, Reserve, Approve, CreateShipment, Release, serviceVars
  <2>2. CASE call' = call
    BY <1>4, <2>1, <2>2 DEF Done
  <2>3. CASE m.op # "authorize" /\ \E o \in Outcome : Answer(m, o)
    BY <1>2, <1>3, <1>4, <2>1, <2>3
  <2> QED
    BY <1>2, <1>5, <2>2, <2>3 DEF Lose, InjectedFailure, Reject, Reserve, Approve,
       CreateShipment, Release, Take
<1>6. ASSUME NEW m \in net, NEW p \in PaymentPod, Void(m, p)
      PROVE  Charges'
  <2>1. Rejected' => Rejected
    BY <1>2, <1>3, <1>6 DEF Void, Take
  <2>2. UNCHANGED payRecord /\ \A q \in PaymentPod : ledger'[q] # "none" => ledger[q] # "none"
    BY <1>1, <1>6 DEF Void, TypeOK
  <2> QED
    BY <1>1, <2>1, <2>2 DEF Charges, orderVars
<1>7. ASSUME NEW m \in net, NEW p \in PaymentPod, BeginAuthorize(m, p)
      PROVE  Charges'
  <2>1. payRecord[p] \in {"none", "inProgress", "authorized", "declined"}
    BY <1>1 DEF TypeOK
  <2>2. CASE payRecord[p] = "none"
    <3>1. UNCHANGED <<call, ledger>> /\ payRecord' = [payRecord EXCEPT ![p] = "inProgress"]
      BY <1>7, <2>2 DEF BeginAuthorize
    <3>2. \A q \in PaymentPod : payRecord[q] # "none" => payRecord'[q] = payRecord[q]
      BY <1>1, <2>2, <3>1 DEF TypeOK
    <3> QED
      BY <1>1, <2>2, <3>1, <3>2 DEF Charges, Done, orderVars
  <2>3. CASE payRecord[p] # "none"
    <3>1. UNCHANGED <<payRecord, ledger>>
      BY <1>7, <2>3 DEF BeginAuthorize
    <3>2. CASE payRecord[p] = "declined"
      BY <1>1, <3>1, <3>2 DEF Charges, orderVars
    <3>3. CASE payRecord[p] = "inProgress" /\ Answer(m, "conflict")
      BY <1>2, <1>3, <1>4, <3>1, <3>3
    <3>4. CASE payRecord[p] = "authorized" /\ Answer(m, "ok")
      BY <1>2, <1>3, <1>4, <3>1, <3>4
    <3> QED
      BY <1>7, <2>1, <2>3, <3>2, <3>3, <3>4 DEF BeginAuthorize
  <2> QED
    BY <2>2, <2>3
<1>8. ASSUME NEW p \in PaymentPod, NEW record \in {"none", "authorized", "declined"},
             NEW charge \in BOOLEAN, NEW o \in Outcome, EndAuthorize(p, record, charge, o),
             charge => record = "authorized", o = "rejected" => record = "declined"
      PROVE  Charges'
  <2>1. /\ payRecord[p] = "inProgress" /\ payRecord'[p] = record
        /\ \A q \in PaymentPod \ {p} : payRecord'[q] = payRecord[q] /\ ledger'[q] = ledger[q]
        /\ ~charge => ledger'[p] = ledger[p]
    BY <1>1, <1>8 DEF EndAuthorize, TypeOK
  <2>2. (Rejected' => Rejected) \/ record = "declined"
    <3> DEFINE m == [op |-> "authorize", attempt |-> payOwner[p]]
    <3>1. m.op = "authorize" /\ Answer(m, o)
      BY <1>8 DEF EndAuthorize
    <3> QED
      BY <1>2, <1>3, <1>8, <3>1
  <2> QED
    BY <1>1, <1>8, <2>1, <2>2 DEF Charges, orderVars
<1>9. ASSUME NEW p \in PaymentPod,
             \/ Authorize(p) \/ Decline(p)
             \/ \E o \in Injected : FailAuthorize(p, o)
             \/ AbortAuthorize(p)
      PROVE  Charges'
  BY <1>2, <1>8, <1>9 DEF Authorize, Decline, FailAuthorize, AbortAuthorize
<1> QED
  BY <1>5, <1>6, <1>7, <1>9 DEF ServiceStep

LEMMA ChargesNext ==
    ASSUME "rejected" \notin Injected, Flow, Charges, [Next]_vars
    PROVE  Charges'
<1> DEFINE Rejected == Done("authorize") /\ call["authorize"].result = "BusinessRejection"
           DeclineFailure == [stage |-> "Payment", kind |-> "BusinessRejection"]
<1>1. "authorize" \in Op /\ TypeOK /\ CallShape
  BY DEF Op, Forward, Flow
<1>2. ASSUME UNCHANGED <<payRecord, ledger>>, Rejected' => Rejected,
             failure' = DeclineFailure => failure = DeclineFailure \/ Rejected
      PROVE  Charges'
  BY <1>2 DEF Charges
<1>3. CASE ServiceStep
  BY <1>3, ChargesService
<1>4. CASE \E op \in Op : CallAction(op)
  <2>1. UNCHANGED <<failure, payRecord, ledger>>
    BY <1>1, <1>4, CallActionEffect DEF orderVars, serviceVars
  <2>2. Rejected' => Rejected
    BY <1>1, <1>4, NoResultWithoutAnswer
  <2> QED
    BY <1>2, <2>1, <2>2
<1>5. CASE Begin
  <2>1. call'["authorize"] = call["authorize"]
    BY <1>1, <1>5 DEF Begin, TypeOK
  <2> QED
    BY <1>2, <1>5, <2>1 DEF Begin, Done, serviceVars
<1>6. ASSUME NEW stage, NEW kind, Fail(stage, kind),
             stage = "Payment" => Done("authorize") /\ kind = call["authorize"].result
      PROVE  Charges'
  <2>1. UNCHANGED <<call, payRecord, ledger>> /\ failure' = [stage |-> stage, kind |-> kind]
    BY <1>6 DEF Fail, serviceVars
  <2> QED
    BY <1>2, <1>6, <2>1 DEF Done
<1>7. ASSUME NEW target, NEW next, NEW op, TransitionTo(target, next, op)
      PROVE  Charges'
  <2>1. ~Done("authorize")' /\ UNCHANGED <<failure, payRecord, ledger>>
    BY <1>1, <1>7 DEF TransitionTo, Done, Idle, Started, serviceVars
  <2> QED
    BY <1>2, <2>1
<1>8. CASE Resolve \/ AfterPayment \/ AfterShipping
  <2>1. CASE UNCHANGED <<failure, call, payRecord, ledger>>
    BY <1>2, <2>1 DEF Done
  <2> QED
    BY <1>6, <1>7, <1>8, <2>1 DEF Resolve, AfterPayment, AfterShipping, Failed, serviceVars
<1>9. CASE Complete \/ RecordUndo \/ Finish \/ TransactionBudgetExpires \/ UNCHANGED vars
  <2>1. UNCHANGED <<failure, call, payRecord, ledger>>
    BY <1>9 DEF Complete, RecordUndo, Finish, TransactionBudgetExpires, vars, orderVars, serviceVars
  <2> QED
    BY <1>2, <2>1 DEF Done
<1>10. CASE StartUndo
  <2> DEFINE op == UndoOp[Head(plan)]
  <2>1. Head(plan) \in UndoAction
    BY <1>10 DEF StartUndo, Flow, TypeOK
  <2>2. op # "authorize" /\ call' = [call EXCEPT ![op] = Started]
        /\ UNCHANGED <<failure, payRecord, ledger>>
    BY <1>10, <2>1, UndoCalls DEF StartUndo, SetCall, Undo, orderVars, serviceVars
  <2>3. call'["authorize"] = call["authorize"]
    BY <1>1, <2>2 DEF TypeOK
  <2> QED
    BY <1>2, <2>2, <2>3 DEF Done
<1>11. CASE Crash
  <2>1. ~Done("authorize")' /\ UNCHANGED <<failure, payRecord, ledger>>
    BY <1>1, <1>11 DEF Crash, Done, Idle, serviceVars
  <2> QED
    BY <1>2, <2>1
<1> QED
  BY <1>3, <1>4, <1>5, <1>8, <1>9, <1>10, <1>11 DEF Next, OrderStep, CallAction, Quiescent

LEMMA ChargesInvariant ==
    ASSUME "rejected" \notin Injected
    PROVE  Spec => []Charges
<1>1. Init => Charges
  BY NoneAssumption DEF Init, Charges, Done, Idle, Op, Forward, L!Stage, L!FailureKind
<1>2. Flow /\ Charges /\ [Next]_vars => Charges'
  BY ChargesNext
<1> QED
  BY <1>1, <1>2, FlowInvariant, PTL DEF Spec

\* An order that failed because its payment was declined is never charged, although its
\* plan sends no void: no attempt, however late, authorizes it.  This rests on the one
\* idempotency store that all attempts meet, and on no fault rule answering a rejection:
\* such an answer leaves no record, so a late attempt may still charge.
THEOREM DeclinedIsNeverCharged ==
    ASSUME OnePaymentPod, "rejected" \notin Injected
    PROVE  Spec => []DeclinedNeverCharged
<1>1. Charges => DeclinedNeverCharged
  BY DEF Charges, OnePaymentPod, DeclinedNeverCharged
<1> QED
  BY <1>1, ChargesInvariant, PTL

\* The undo call of a step succeeded, or is recorded as one that did.
UndoneBy(op, action) ==
    \/ Succeeded(op)
    \/ \E i \in 1..Len(compensation) :
         compensation[i] = [action |-> action, status |-> "Succeeded"]

\* When no forward request was on its way at the failure, none ever is again, and what an
\* undo step has undone stays undone.
Undoing ==
    failure # None /\ quiet =>
      /\ \A m \in net : m.op \in Undo
      /\ \A p \in PaymentPod : payRecord[p] # "inProgress"
      /\ UndoneBy("release", "ReleaseInventory") => reservation # "Reserved"
      /\ UndoneBy("void", "VoidPayment") => \A p \in PaymentPod : ledger[p] # "open"

LEMMA UndoingService ==
    ASSUME OnePaymentPod, "notFound" \notin Injected, Flow, Undoing, ServiceStep
    PROVE  Undoing'
<1>1. TypeOK /\ CallShape /\ UNCHANGED orderVars /\ net' \subseteq net
  BY ServiceEffect DEF Flow
<1> SUFFICES ASSUME failure # None, quiet
             PROVE  Undoing'
  BY <1>1 DEF Undoing, orderVars
<1>2. /\ \A m \in net : m.op \in Undo /\ m.op \in Op
      /\ \A p \in PaymentPod : payRecord[p] # "inProgress"
      /\ Undo \subseteq Op
      /\ Injected \subseteq Outcome \ {"ok", "notFound"}
      /\ {"ok", "notFound"} \subseteq Outcome
  BY <1>1, InjectedAssumption DEF Undoing, TypeOK, Op, Undo, Outcome
<1>3. ASSUME NEW m \in net, NEW o \in Outcome, Answer(m, o)
      PROVE  /\ \A x \in Op \ {m.op} : Succeeded(x)' => Succeeded(x)
             /\ o \notin {"ok", "notFound"} => \A x \in Op : Succeeded(x)' => Succeeded(x)
  BY <1>1, <1>2, <1>3, NewResult, ResultMeans DEF Succeeded
<1>4. CASE \E m \in net : Lose(m) \/ \E o \in Injected : InjectedFailure(m, o)
  <2>1. PICK m \in net : Lose(m) \/ \E o \in Injected : InjectedFailure(m, o)
    BY <1>4
  <2>2. UNCHANGED serviceVars
    BY <2>1 DEF Lose, InjectedFailure
  <2>3. \A x \in Op : Succeeded(x)' => Succeeded(x)
    <3>1. CASE Lose(m)
      BY <3>1 DEF Lose, Succeeded, Done
    <3>2. CASE \E o \in Injected : InjectedFailure(m, o)
      BY <1>2, <1>3, <3>2 DEF InjectedFailure
    <3> QED
      BY <2>1, <3>1, <3>2
  <2> QED
    BY <1>1, <1>2, <2>2, <2>3 DEF Undoing, UndoneBy, orderVars, serviceVars, Undo
<1>5. CASE \E m \in net : Release(m)
  <2>1. PICK m \in net : Release(m)
    BY <1>5
  <2>2. m.op = "release" /\ UNCHANGED <<payRecord, ledger>> /\ reservation' # "Reserved"
        /\ \E o \in Outcome : Answer(m, o)
    BY <1>2, <2>1, NoneAssumption DEF Release, Take
  <2>3. Succeeded("void")' => Succeeded("void")
    BY <1>2, <1>3, <2>2 DEF Undo
  <2> QED
    BY <1>1, <1>2, <2>2, <2>3 DEF Undoing, UndoneBy, orderVars
<1>6. CASE \E m \in net, p \in PaymentPod : Void(m, p)
  <2>1. PICK m \in net, p \in PaymentPod : Void(m, p)
    BY <1>6
  <2>2. m.op = "void" /\ UNCHANGED <<payRecord, reservation>> /\ Answer(m, "ok")
    BY <2>1 DEF Void, Take
  <2>3. \A q \in PaymentPod : ledger'[q] # "open"
    <3>1. ledger'[p] # "open"
      BY <1>1, <2>1 DEF Void, TypeOK
    <3> QED
      BY <3>1 DEF OnePaymentPod
  <2>4. Succeeded("release")' => Succeeded("release")
    BY <1>2, <1>3, <2>2 DEF Undo
  <2> QED
    BY <1>1, <1>2, <2>2, <2>3, <2>4 DEF Undoing, UndoneBy, orderVars
<1>7. ASSUME NEW m \in net,
             \/ Reject(m) \/ Reserve(m) \/ Approve(m) \/ CreateShipment(m)
             \/ \E p \in PaymentPod : BeginAuthorize(m, p)
      PROVE  FALSE
  BY <1>2, <1>7 DEF Reject, Reserve, Approve, CreateShipment, BeginAuthorize, Take, Undo
<1>8. ASSUME NEW p \in PaymentPod,
             \/ Authorize(p) \/ Decline(p)
             \/ \E o \in Injected : FailAuthorize(p, o)
             \/ AbortAuthorize(p)
      PROVE  FALSE
  BY <1>2, <1>8 DEF Authorize, Decline, FailAuthorize, AbortAuthorize, EndAuthorize
<1> QED
  BY <1>4, <1>5, <1>6, <1>7, <1>8 DEF ServiceStep

LEMMA UndoingNext ==
    ASSUME OnePaymentPod, "notFound" \notin Injected, Flow, Undoing, [Next]_vars
    PROVE  Undoing'
<1>1. TypeOK /\ CallShape /\ Undo \subseteq Op
  BY DEF Flow, Op, Undo
<1>2. CASE ServiceStep
  BY <1>2, UndoingService
<1>3. CASE \E op \in Op : CallAction(op)
  <2>1. PICK op \in Op : CallAction(op)
    BY <1>3
  <2>2. /\ UNCHANGED <<orderVars, serviceVars>>
        /\ \/ net' = net
           \/ /\ call[op].phase = "ready"
              /\ net' = net \cup {[op |-> op, attempt |-> call[op].attempt]}
    BY <1>1, <2>1, CallActionEffect
  <2>3. \A x \in Op : Succeeded(x)' => Succeeded(x)
    BY <1>1, <2>1, NoResultWithoutAnswer DEF Succeeded
  <2>4. failure # None /\ call[op].phase = "ready" => op \in Undo
    BY DEF Flow, OrderAtPc, CallsAtPc, Op, Undo
  <2> QED
    BY <1>1, <2>2, <2>3, <2>4 DEF Undoing, UndoneBy, orderVars, serviceVars, Undo
<1>4. ASSUME failure' = None
      PROVE  Undoing'
  BY <1>4 DEF Undoing
<1>5. ASSUME NEW stage, NEW kind, Fail(stage, kind), failure = None
      PROVE  Undoing'
  <2>1. /\ quiet' => net = {} /\ \A p \in PaymentPod : payRecord[p] # "inProgress"
        /\ UNCHANGED <<compensation, call, net, payRecord>>
    BY <1>5 DEF Fail, serviceVars
  <2>2. compensation = << >> /\ ~Succeeded("release") /\ ~Succeeded("void")
    BY <1>5 DEF Flow, PlanAtPc, CallsAtPc, Succeeded, Done, Undo
  <2>3. ~UndoneBy("release", "ReleaseInventory")' /\ ~UndoneBy("void", "VoidPayment")'
    BY <2>1, <2>2 DEF UndoneBy, Succeeded, Done
  <2> QED
    BY <2>1, <2>3 DEF Undoing
<1>6. CASE Begin \/ Resolve \/ AfterPayment \/ AfterShipping \/ Complete
  <2>1. failure = None
    BY <1>6 DEF Flow, OrderAtPc, Begin, Resolve, AfterPayment, AfterShipping, Complete
  <2> QED
    BY <1>4, <1>5, <1>6, <2>1 DEF Begin, Resolve, AfterPayment, AfterShipping, Complete, TransitionTo
<1>7. ASSUME UNCHANGED <<failure, quiet, compensation, net, reservation, payRecord, ledger>>,
             \A x \in Undo : Succeeded(x)' => Succeeded(x)
      PROVE  Undoing'
  BY <1>7 DEF Undoing, UndoneBy, Undo
<1>8. CASE StartUndo
  <2> DEFINE op == UndoOp[Head(plan)]
  <2>1. call' = [call EXCEPT ![op] = Started]
    BY <1>8 DEF StartUndo, SetCall
  <2>2. \A x \in Undo : Succeeded(x)' => Succeeded(x)
    BY <1>1, <2>1 DEF TypeOK, Succeeded, Done, Started
  <2> QED
    BY <1>7, <1>8, <2>2 DEF StartUndo, orderVars, serviceVars
<1>9. CASE RecordUndo
  <2> DEFINE status == IF Succeeded(UndoOp[Head(plan)]) THEN "Succeeded" ELSE "Failed"
             step == [action |-> Head(plan), status |-> status]
  <2>1. /\ compensation' = Append(compensation, step)
        /\ UNCHANGED <<failure, quiet, call, net, reservation, payRecord, ledger>>
    BY <1>9 DEF RecordUndo, Recorded, serviceVars
  <2>2. compensation \in Seq([action : UndoAction, status : {"Succeeded", "Failed"}])
    BY <1>1 DEF TypeOK, Compensation
  <2>3. \A i \in 1..Len(compensation') :
          \/ i \in 1..Len(compensation) /\ compensation'[i] = compensation[i]
          \/ compensation'[i] = step
    <3> HIDE DEF step
    <3> QED
      BY <2>1, <2>2
  <2>4. UndoOp["ReleaseInventory"] = "release" /\ UndoOp["VoidPayment"] = "void"
    BY DEF UndoOp
  <2>5. /\ UndoneBy("release", "ReleaseInventory")' => UndoneBy("release", "ReleaseInventory")
        /\ UndoneBy("void", "VoidPayment")' => UndoneBy("void", "VoidPayment")
    <3>1. Succeeded("release")' = Succeeded("release") /\ Succeeded("void")' = Succeeded("void")
      BY <2>1 DEF Succeeded, Done
    <3>2. step = [action |-> "ReleaseInventory", status |-> "Succeeded"] => Succeeded("release")
      BY <2>4
    <3>3. step = [action |-> "VoidPayment", status |-> "Succeeded"] => Succeeded("void")
      BY <2>4
    <3> QED
      BY <2>3, <3>1, <3>2, <3>3 DEF UndoneBy
  <2> QED
    BY <2>1, <2>5 DEF Undoing
<1>10. CASE Finish \/ TransactionBudgetExpires \/ UNCHANGED vars
  <2>1. UNCHANGED <<failure, quiet, compensation, call, net, reservation, payRecord, ledger>>
    BY <1>10 DEF Finish, TransactionBudgetExpires, vars, orderVars, serviceVars
  <2> QED
    BY <1>7, <2>1 DEF Succeeded, Done
<1>11. CASE Crash
  <2>1. \A x \in Op : ~Succeeded(x)'
    BY <1>11 DEF Crash, Succeeded, Done, Idle
  <2> QED
    BY <1>1, <1>7, <1>11, <2>1 DEF Crash, serviceVars
<1> QED
  BY <1>2, <1>3, <1>6, <1>8, <1>9, <1>10, <1>11 DEF Next, OrderStep, CallAction, Quiescent

LEMMA UndoingInvariant ==
    ASSUME OnePaymentPod, "notFound" \notin Injected
    PROVE  Spec => []Undoing
<1>1. Init => Undoing
  BY DEF Init, Undoing
<1>2. Flow /\ Undoing /\ [Next]_vars => Undoing'
  BY UndoingNext
<1> QED
  BY <1>1, <1>2, FlowInvariant, PTL DEF Spec

\* A failed order whose undo steps all succeeded holds neither stock nor money, if no forward
\* request was still on its way when it failed and inventory did not reject it.  With two
\* payment pods a void may reach the one that did not charge; a fault rule's 404 passes for
\* a release that had nothing to do; and a fault rule's rejection may hide a charge.
THEOREM UndoneOrderHoldsNothing ==
    ASSUME OnePaymentPod, Injected \cap {"rejected", "notFound"} = {}
    PROVE  Spec => []NothingHeldAfterUndo
<1> DEFINE IInv == Flow /\ Effects /\ BeforePayment /\ Charges /\ Undoing
<1>1. "rejected" \notin Injected /\ "notFound" \notin Injected
  OBVIOUS
<1>2. IInv => NothingHeldAfterUndo
  <2> SUFFICES ASSUME IInv, Finished, failure # None, quiet, AllUndone,
                      failure # [stage |-> "Inventory", kind |-> "BusinessRejection"]
               PROVE  ~Holds
    BY DEF NothingHeldAfterUndo
  <2>1. failure \in [stage : L!Stage, kind : L!FailureKind]
    BY DEF Flow, TypeOK, Failure
  <2> DEFINE all == L!PlanFor(failure)
             n == Len(compensation)
  <2>2. /\ n = Len(all) /\ n \in Nat
        /\ \A i \in 1..n : compensation[i] = [action |-> all[i], status |-> "Succeeded"]
    <3>1. compensation \in Seq([action : UndoAction, status : {"Succeeded", "Failed"}])
      BY DEF Flow, TypeOK, Compensation
    <3>2. pc = "finished" /\ plan = << >>
      BY DEF Finished, Flow, PlanAtPc
    <3>3. n \in Nat /\ n = Len(all)
      BY <3>1, <3>2 DEF Flow, PlanAtPc
    <3>4. \A i \in 1..n : compensation[i].action = all[i] /\ compensation[i].status = "Succeeded"
      BY <3>2 DEF Flow, PlanAtPc, AllUndone
    <3>5. \A i \in 1..n : compensation[i] \in [action : UndoAction, status : {"Succeeded", "Failed"}]
      <4> DEFINE Step == [action : UndoAction, status : {"Succeeded", "Failed"}]
      <4> HIDE DEF Step
      <4>1. compensation \in Seq(Step)
        BY <3>1 DEF Step
      <4>2. \A i \in 1..n : compensation[i] \in Step
        BY <4>1
      <4> QED
        BY <4>2 DEF Step
    <3> QED
      BY <3>3, <3>4, <3>5
  <2>3. ~(failure.stage = "Inventory" /\ failure.kind = "BusinessRejection")
    BY <2>1
  <2>4. reservation # "Reserved"
    <3>1. \/ all = <<"ReleaseInventory">>
          \/ all = <<"VoidPayment", "ReleaseInventory">>
      BY <2>3 DEF L!PlanFor
    <3>2. \E i \in 1..n : all[i] = "ReleaseInventory"
      <4>1. CASE all = <<"ReleaseInventory">>
        <5>1. 1 \in 1..n /\ all[1] = "ReleaseInventory"
          BY <2>2, <4>1
        <5> QED
          BY <5>1
      <4>2. CASE all = <<"VoidPayment", "ReleaseInventory">>
        <5>1. 2 \in 1..n /\ all[2] = "ReleaseInventory"
          BY <2>2, <4>2
        <5> QED
          BY <5>1
      <4> QED
        BY <3>1, <4>1, <4>2
    <3>3. UndoneBy("release", "ReleaseInventory")
      BY <2>2, <3>2 DEF UndoneBy
    <3> QED
      BY <3>3 DEF Undoing
  <2>5. \A p \in PaymentPod : ledger[p] # "open"
    <3>1. CASE failure.stage \in {"Inventory", "Fraud"}
      <4>1. state \in {"InventoryFailed", "FraudFailed"}
        BY <3>1 DEF Flow, OrderAtPc, L!FailureStateFor
      <4> QED
        BY <4>1 DEF BeforePayment
    <3>2. CASE failure.stage = "Payment" /\ failure.kind = "BusinessRejection"
      <4>1. failure = [stage |-> "Payment", kind |-> "BusinessRejection"]
        BY <2>1, <3>2
      <4> QED
        BY <4>1 DEF Charges, OnePaymentPod
    <3>3. CASE all = <<"VoidPayment", "ReleaseInventory">>
      <4>1. 1 \in 1..n /\ all[1] = "VoidPayment"
        BY <2>2, <3>3
      <4>2. UndoneBy("void", "VoidPayment")
        BY <2>2, <4>1 DEF UndoneBy
      <4> QED
        BY <4>2 DEF Undoing
    <3> QED
      BY <2>1, <2>3, <3>1, <3>2, <3>3 DEF L!PlanFor, L!Stage
  <2> QED
    BY <2>4, <2>5 DEF Holds
<1> QED
  BY <1>1, <1>2, EffectsInvariant, ChargesInvariant, UndoingInvariant, PTL
=============================================================================
