-------------------------- MODULE MCPaymentService --------------------------
(* PaymentService for TLC: two orders and two keys; one card that is good,  *)
(* one that is declined; amounts a tenth of a cent apart.                   *)
EXTENDS PaymentService, TLC

CONSTANTS o1, o2, good, bad

MCOrder == {o1, o2}
MCOneOrder == {o1}
MCToken == {good, bad}
MCDeclined == {bad}
MCBody == {[order |-> o1, amount |-> 100, token |-> good],
           [order |-> o1, amount |-> 101, token |-> good],
           [order |-> o2, amount |-> 100, token |-> bad]}
\* Cards and amounts play no part in eviction.
MCOneBody == {[order |-> o1, amount |-> 100, token |-> good]}

KeySymmetry == Permutations(Handler) \cup Permutations(Key)
=============================================================================
