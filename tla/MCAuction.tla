------------------------------ MODULE MCAuction ------------------------------
(* Instances of Auction for TLC. *)
EXTENDS AuctionRefinement, TLC

CONSTANTS o1, o2, o3, c1, c2, w1, w2

\* o2 and o3 tie on reputation, o1 is ahead of both.
MCReputation2 == o1 :> 2 @@ o2 :> 1
MCReputation3 == o1 :> 2 @@ o2 :> 1 @@ o3 :> 1

\* Handlers do not depend on which slot runs them.
Slots == Permutations(Clients) \union Permutations(Workers)

AllRequests == {"createJobForBooking", "createFromBooking", "placeBid",
    "withdrawBid", "declineJobOffer", "acceptJobOffer", "awardNow",
    "reopenBidding", "manualJobAssignment", "cancelBooking"}
=============================================================================
