----------------------------- MODULE MCBookings -----------------------------
(* Instances of Bookings for TLC. *)
EXTENDS Bookings, TLC

CONSTANTS c1, c2

Slots == Permutations(Clients)

AllRequests == {"create", "createReturn", "update", "pay", "cancel", "refund",
                "capacity"}

\* One journey, asked for by one passenger, or by two with a stop.
MCLegs == {[route |-> "r1", pickup |-> 3, passengers |-> 1, wanted |-> 0],
           [route |-> "r1", pickup |-> 3, passengers |-> 2, wanted |-> 1]}
=============================================================================
