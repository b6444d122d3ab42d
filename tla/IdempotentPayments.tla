------------------------- MODULE IdempotentPayments -------------------------
(***************************************************************************)
(* What PaymentService promises its callers while the pod lives: a key is  *)
(* settled at most once, by one authorization or by one decline, and every *)
(* 201 or decline anyone is sent is the outcome the key was settled with.  *)
(* Handlers, races, faults, retries and the store are not visible here.    *)
(***************************************************************************)
EXTENDS Naturals

CONSTANTS
    Key,       \* idempotency keys
    Order,     \* orders
    RequestId  \* request fingerprints: tuples whose first part is the order

VARIABLES
    outcome,   \* for each key, {} or {[fingerprint, response]}
    ledger,    \* authorizations: [id, order, key, voided]
    issued,    \* authorization ids handed out
    answers    \* the answers sent: [key, fingerprint, response]

absVars == <<outcome, ledger, issued, answers>>

AbsInit ==
    /\ outcome = [k \in Key |-> {}]
    /\ ledger = {}
    /\ issued = 0
    /\ answers = {}

\* A key that has no outcome gets one, together with the ledger entry.
SettleAuthorized(k, fp) ==
    /\ outcome[k] = {}
    /\ outcome' = [outcome EXCEPT ![k] =
                     {[fingerprint |-> fp, response |-> [code |-> 201, id |-> issued]]}]
    /\ ledger' = ledger \cup
         {[id |-> issued, order |-> fp[1], key |-> k, voided |-> FALSE]}
    /\ issued' = issued + 1
    /\ UNCHANGED answers

SettleDeclined(k, fp) ==
    /\ outcome[k] = {}
    /\ outcome' = [outcome EXCEPT ![k] =
                     {[fingerprint |-> fp, response |-> [code |-> 422]]}]
    /\ UNCHANGED <<ledger, issued, answers>>

\* An answer repeats the outcome.
Reply(k) ==
    /\ \E s \in outcome[k] :
         answers' = answers \cup
           {[key |-> k, fingerprint |-> s.fingerprint, response |-> s.response]}
    /\ UNCHANGED <<outcome, ledger, issued>>

VoidOrder(o) ==
    /\ ledger' = {IF a.order = o THEN [a EXCEPT !.voided = TRUE] ELSE a : a \in ledger}
    /\ UNCHANGED <<outcome, issued, answers>>

\* The pod restarts with empty memory.
Forget ==
    /\ outcome' = [k \in Key |-> {}]
    /\ ledger' = {}
    /\ answers' = {}
    /\ UNCHANGED issued

AbsNext ==
    \/ \E k \in Key, fp \in RequestId : SettleAuthorized(k, fp)
    \/ \E k \in Key, fp \in RequestId : SettleDeclined(k, fp)
    \/ \E k \in Key : Reply(k)
    \/ \E o \in Order : VoidOrder(o)
    \/ Forget

AbsSpec == AbsInit /\ [][AbsNext]_absVars
=============================================================================
