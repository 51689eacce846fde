------------------------------ MODULE MCJourney ------------------------------
(* Instances of Journey for TLC. *)
EXTENDS Journey, TLC

CONSTANTS c1, c2

Slots == Permutations(Clients)

\* The seeded tiers of 48 and 24 hours, one tick standing for 24 hours.
MCPolicies == {[hours |-> 2, percent |-> 100], [hours |-> 1, percent |-> 50],
               [hours |-> 0, percent |-> 0]}

AllRequests == {"update", "cancel", "noShow", "refund", "arrival", "pickup",
    "assign", "details", "complete", "confirm", "reject", "rate"}
=============================================================================
