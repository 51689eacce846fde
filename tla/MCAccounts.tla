---------------------------- MODULE MCAccounts -----------------------------
(* Instances of Accounts for TLC. *)
EXTENDS Accounts, TLC

CONSTANTS c1, c2, u1, u2, e1, e2, w1, w2, n1

Slots == Permutations({c1, c2}) \union Permutations({u1, u2})
            \union Permutations({e1, e2}) \union Permutations({w1, w2})

\* Codes and addresses; passwords; controllers; their acts; notes.
AllMenus == {
    {"register", "login", "profile", "sendVerification", "verify"},
    {"login", "change", "forgot", "reset", "controllerStatus", "customerStatus"},
    {"register", "controller", "permissions"},
    {"login", "controller", "permissions", "controllerStatus", "customerStatus"},
    {"login", "controller", "notes"}}
=============================================================================
