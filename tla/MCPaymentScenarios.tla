------------------------ MODULE MCPaymentScenarios --------------------------
(* Payments for TLC in three scenarios: two webhook calls beside a refund or *)
(* a cancellation of a return journey; one call at a time, with duplicates,  *)
(* a declined attempt, an await that throws and a crash; and legs that are   *)
(* paid, cancelled and refunded one by one.                                  *)
EXTENDS MCPayments

VARIABLE scenario

Retry == INSTANCE Payments WITH
    Overlap <- FALSE, MaxFailedPayments <- 1, MaxErrors <- 1, MaxCrashes <- 1

Separate == INSTANCE Payments WITH
    Requests <- SingleOnly, Overlap <- FALSE, MaxRequests <- 3,
    MaxFailedPayments <- 1

ScenarioInit == Init /\ scenario \in {"journey", "retry", "separate"}
ScenarioNext ==
    /\ \/ scenario = "journey" /\ Next
       \/ scenario = "retry" /\ Retry!Next
       \/ scenario = "separate" /\ Separate!Next
    /\ UNCHANGED scenario
ScenarioSpec ==
    ScenarioInit /\ [][ScenarioNext]_<<vars, scenario>> /\ Fairness

\* As PaymentLeadsToJobs, where no attempt was declined and nothing failed
\* (stripe-webhook.controller.ts:126-194).
JourneyLeadsToJobs == scenario = "journey" => PaymentLeadsToJobs

\* As PaidOnce, where calls do not overlap (PAYMENT_FLOW_BUG_FIX.md:339).
OneByOnePaidOnce == scenario # "journey" => PaidOnce

\* As PromisedRefundMade, for bookings that are paid one by one
\* (bookings.service.ts:952-1012).
SeparateRefundMade == scenario = "separate" => PromisedRefundMade
=============================================================================
