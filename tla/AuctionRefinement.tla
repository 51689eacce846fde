-------------------------- MODULE AuctionRefinement --------------------------
(***************************************************************************)
(* The handlers of the auction implement Dispatch when they do not         *)
(* overlap.  The abstract state is read from the job row and the bids: an  *)
(* operator stands while its bid is PENDING.  (Two overlapping handlers,   *)
(* as an acceptance at the deadline and the timeout that passes the offer  *)
(* on, leave Dispatch; see LockedToWinner.)                                *)
(***************************************************************************)
EXTENDS Auction

PhaseOf ==
    [NONE |-> "none", OPEN_FOR_BIDDING |-> "open",
     PENDING_ACCEPTANCE |-> "offered", NO_BIDS_RECEIVED |-> "escalated",
     ASSIGNED |-> "assigned", CANCELLED |-> "cancelled"]

Holder ==
    IF jobStatus = "PENDING_ACCEPTANCE" THEN offer
    ELSE IF jobStatus = "ASSIGNED" THEN winner ELSE None

Abstract == INSTANCE Dispatch WITH
    phase <- PhaseOf[jobStatus],
    holder <- Holder,
    standing <- {o \in Operators : bidStatus[o] = "PENDING"},
    bidders <- {o \in Operators : HasBid(o)}

\* Handlers that do not overlap move the job only as Dispatch allows: no
\* operator is offered the job a second time, an offer or an award never
\* leaves a pending bid behind unnoticed, and the administrators are called
\* only when no bid is pending.  (bidding.processor.ts:60-141,
\* acceptance.processor.ts:60-174, admin.service.ts:1984-2160.)
ImplementsDispatch == Abstract!Spec
=============================================================================
