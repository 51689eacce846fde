---------------------------- MODULE MCOperators ----------------------------
(* Instances of Operators for TLC. *)
EXTENDS Operators, TLC

CONSTANTS c1, c2, v1, v2, d1, d2, b1, b2, a1, a2

Slots == Permutations({c1, c2}) \union Permutations({v1, v2})
            \union Permutations({d1, d2}) \union Permutations({b1, b2})
            \union Permutations({a1, a2})

AllRequests == {"register", "profile", "bank", "upload", "document", "approve",
    "suspend", "reinstate", "reject", "createVehicle", "updateVehicle",
    "deleteVehicle", "photos", "createDriver", "updateDriver", "deleteDriver",
    "approveDriver", "approveVehicle"}
=============================================================================
