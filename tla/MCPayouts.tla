----------------------------- MODULE MCPayouts -----------------------------
(* Instances of Payouts for TLC. *)
EXTENDS Payouts, TLC

CONSTANTS j1, j2, j3, o1, o2, u1, a1, a2

OneOwner == [j \in Jobs |-> o1]
TwoOwners == [j \in Jobs |-> IF j = j1 THEN o2 ELSE o1]

\* Jobs of one operator, and the slots that run requests.
Alike == Permutations(Jobs) \union Permutations(Admins)
Slots == Permutations(Admins)

Journey == {"submitDriverDetails", "completeJob", "reviewCompletion"}
Normal == Journey \union {"initiatePayouts", "completePayout"}
Reopening == Journey \union {"replaceDriver", "completePayout"}
=============================================================================
