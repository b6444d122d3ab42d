--------------------------- MODULE MCVerification ---------------------------
(* The workload steps that are checked, in halves of a second and of a      *)
(* request per second.  The traffic is run with one, two and three          *)
(* requests, the last two at a time; the plans are of every small rate and  *)
(* time, with parts that come to a whole number of requests or do not, or   *)
(* come to none.                                                            *)
EXTENDS Verification

MCDriven ==
    {WorkloadStep("single", 1, 1, 1, 1, 1, 1, {}), WorkloadStep("burst", 2, 1, 1, 1, 1, 1, {}),
     WorkloadStep("concurrent", 3, 2, 1, 1, 1, 1, {})}

MCSteps ==
    MCDriven
      \cup {WorkloadStep("steady", 1, 1, r, d, 1, 1, lost) : r \in 1..5, d \in 1..6, lost \in {{}, {"start"}}}
      \cup {WorkloadStep("spike", 1, 1, r, d, sr, ss, lost) :
              r \in 1..3, d \in {5, 6}, sr \in {3, 4}, ss \in 1..4, lost \in {{}, {"start"}, {"spike", "tail"}}}
=============================================================================
