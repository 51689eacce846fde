---------------------------- MODULE MCPayoutRuns -----------------------------
(* Payouts for TLC in two scenarios: jobs that are completed, held back and  *)
(* paid, by the scheduler or by hand; and completed jobs that are opened     *)
(* again.                                                                    *)
EXTENDS MCPayouts

VARIABLE scenario

Reopened == INSTANCE Payouts WITH Requests <- Reopening

RunsInit == Init /\ scenario \in {"normal", "reopening"}
RunsNext ==
    /\ \/ scenario = "normal" /\ Next
       \/ /\ scenario = "reopening" /\ Reopened!Next
          /\ UNCHANGED <<jobStatus[j1], payoutStatus[j1]>>
    /\ UNCHANGED scenario
RunsSpec == RunsInit /\ [][RunsNext]_<<vars, scenario>> /\ Fairness

\* CompletedIsPaid for jobs that stay completed (payouts.service.ts:57).
NormalCompletedIsPaid ==
    \A j \in Jobs :
        (/\ scenario = "normal"
         /\ j \in AllButMostRecent({k \in JobsOf(Owner[j]) : Payable(k)}, HeldBack))
        ~> payoutStatus[j] \in {"PROCESSING", "COMPLETED"}
=============================================================================
