---------------------------- MODULE MCOrderSaga ----------------------------
(* OrderSaga with attempt limits below those of DependencyProfiles          *)
(* (inventory 2, fraud 2, payment 3, shipping 3, undo 2).                   *)
EXTENDS OrderSaga

\* The reservation, the payment and its void have the limits of the code, every other call
\* one attempt: the risk check keeps no state, and a repeated shipment or release changes
\* nothing more.
SmallAttempts ==
    [reserve |-> 2, evaluate |-> 1, authorize |-> 3, create |-> 1, void |-> 2, release |-> 1]
\* Only the payment may be retried.
FewAttempts ==
    [reserve |-> 1, evaluate |-> 1, authorize |-> 2, create |-> 1, void |-> 1, release |-> 1]
=============================================================================
