--------------------------- MODULE OrderLifecycle ---------------------------
(***************************************************************************)
(* What the API promises about one order: it moves only along the state    *)
(* machine, never leaves a final state, and is answered exactly once, when *)
(* it is final and, if it failed, after every undo step of its failure has *)
(* been tried and recorded, in plan order.                                 *)
(***************************************************************************)
EXTENDS Naturals, Sequences

CONSTANT Unset      \* no failure

VARIABLES
    state,          \* Order.State
    failure,        \* Order.Failure: [stage, kind] or Unset
    compensation,   \* Order.Compensation: [action, status] per undo step
    answered        \* the transaction has returned its snapshot

lifecycleVars == <<state, failure, compensation, answered>>

Stage == {"Inventory", "Fraud", "Payment", "Shipping"}
FailureKind == {"BusinessRejection", "DependencyError", "Timeout", "Unavailable"}

\* OrderStateMachine.AllowedTransitions; states without an entry are final.
AllowedTransitions ==
    [Pending |-> {"InventoryReserved", "InventoryFailed", "FraudFailed"},
     InventoryReserved |-> {"PaymentAuthorized", "PaymentFailed"},
     PaymentAuthorized |-> {"ShipmentCreated", "ShippingFailed"},
     ShipmentCreated |-> {"Completed"}]

CanTransition(from, to) ==
    from \in DOMAIN AllowedTransitions /\ to \in AllowedTransitions[from]

IsFinal(s) == s \notin DOMAIN AllowedTransitions

FailureStateFor(stage) ==
    [Inventory |-> "InventoryFailed", Fraud |-> "FraudFailed",
     Payment |-> "PaymentFailed", Shipping |-> "ShippingFailed"][stage]

\* CompensationPlan.For: the undo steps of a failure, last step first.
MutPlanForgetsAmbiguity(f) ==
    IF f.stage = "Inventory" THEN << >>
    ELSE IF f.stage \in {"Fraud", "Payment"} THEN <<"ReleaseInventory">>
    ELSE <<"VoidPayment", "ReleaseInventory">>
PlanFor(f) ==
    IF f.stage = "Inventory" /\ f.kind = "BusinessRejection" THEN << >>
    ELSE IF \/ f.stage \in {"Inventory", "Fraud"}
            \/ f.stage = "Payment" /\ f.kind = "BusinessRejection"
    THEN <<"ReleaseInventory">>
    ELSE <<"VoidPayment", "ReleaseInventory">>

LifecycleInit ==
    /\ state = "Pending"
    /\ failure = Unset
    /\ compensation = << >>
    /\ answered = FALSE

Advance(to) ==
    /\ CanTransition(state, to)
    /\ to \in {"InventoryReserved", "PaymentAuthorized", "ShipmentCreated", "Completed"}
    /\ state' = to
    /\ UNCHANGED <<failure, compensation, answered>>

FailAt(stage, kind) ==
    /\ CanTransition(state, FailureStateFor(stage))
    /\ state' = FailureStateFor(stage)
    /\ failure' = [stage |-> stage, kind |-> kind]
    /\ UNCHANGED <<compensation, answered>>

\* The next undo step of the plan was tried; it succeeded or it failed.
Undo(status) ==
    /\ failure # Unset
    /\ ~answered
    /\ Len(compensation) < Len(PlanFor(failure))
    /\ compensation' = Append(compensation,
         [action |-> PlanFor(failure)[Len(compensation) + 1], status |-> status])
    /\ UNCHANGED <<state, failure, answered>>

Return ==
    /\ ~answered
    /\ IsFinal(state)
    /\ failure # Unset => Len(compensation) = Len(PlanFor(failure))
    /\ answered' = TRUE
    /\ UNCHANGED <<state, failure, compensation>>

LifecycleNext ==
    \/ \E to \in {"InventoryReserved", "PaymentAuthorized", "ShipmentCreated", "Completed"} :
         Advance(to)
    \/ \E stage \in Stage, kind \in FailureKind : FailAt(stage, kind)
    \/ \E status \in {"Succeeded", "Failed"} : Undo(status)
    \/ Return

LifecycleSpec == LifecycleInit /\ [][LifecycleNext]_lifecycleVars
=============================================================================
