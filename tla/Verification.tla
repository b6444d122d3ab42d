---------------------------- MODULE Verification ----------------------------
(***************************************************************************)
(* Both levels of a scenario's verification: the trace of one order        *)
(* (OrderTrace: what the services did, what their telemetry shows and what *)
(* the contracts accept), and the verdict of one run (ScenarioVerdict: its *)
(* workload, the services' counters and the checks that decide it).  A     *)
(* behaviour explores one of the two; the other stands still.              *)
(***************************************************************************)
EXTENDS OrderTrace, ScenarioVerdict

WorkloadStep(p, n, c, r, d, sr, ss, inexact) ==
    [profile |-> p, requests |-> n, concurrency |-> c, rate |-> r, duration |-> d, spikeRate |-> sr,
     spikeSeconds |-> ss, inexact |-> inexact, debug |-> TRUE, identity |-> "scenario-runner"]

NoOrder ==
    /\ pc = "none" /\ clock = 0 /\ opened = 0 /\ joined = 0 /\ attempt = 0
    /\ results = << >> /\ path = << >> /\ undo = << >> /\ spans = {}
    /\ response = "none" /\ restarts = 0 /\ trouble = 0 /\ authorized = 0 /\ reached = << >> /\ damage = "none"

NoRun ==
    /\ kind = "none" /\ step = WorkloadStep("single", 1, 1, 1, 1, 1, 1, {}) /\ phase = "none" /\ answers = <<"unsent">>
    /\ served = << >> /\ world = "before" /\ counted = << >> /\ lag = << >>
    /\ missing = {} /\ status = "running"

Init == (TraceInit /\ NoRun) \/ (NoOrder /\ VerdictInit)
Next == (TraceNext /\ UNCHANGED verdictVars) \/ (VerdictNext /\ UNCHANGED traceVars)
Spec == Init /\ [][Next]_<<traceVars, verdictVars>>

TypeOK == (pc # "none" => TraceTypeOK) /\ (pc = "none" => VerdictTypeOK)
=============================================================================
