------------------------------ MODULE Auction ------------------------------
(***************************************************************************)
(* The auction of one transfer job: operators bid, the bidding window is   *)
(* closed by a delayed BullMQ task or by an administrator, the lowest bid  *)
(* is offered to its operator for a limited time, and a declined or timed  *)
(* out offer passes to the next lowest bid.                                *)
(*                                                                         *)
(* A request handler or queue worker is a sequence of awaits with no lock  *)
(* and no transaction around its reads and its writes: another handler may *)
(* run at every await.  Each database statement (or Prisma $transaction)   *)
(* and each queue call is therefore one step, and pc/arg hold what the     *)
(* handler read earlier.  Constant Overlap = FALSE restricts the model to  *)
(* requests that do not overlap, to say what the handlers guarantee alone. *)
(*                                                                         *)
(* Abstractions: jobs do not interact, so one is modelled.  (jobId,        *)
(* operatorId) is unique in the bid table, so a bid is named by its        *)
(* operator, and one variable, winner, stands for job.winningBidId and     *)
(* job.assignedOperatorId, which every handler writes together.  Operators *)
(* are those that pass the checks on approval, documents and vehicle type, *)
(* Amounts the bid amounts that pass the bounds check.  Everything here    *)
(* happens before the pickup time.  Notifications and the attempt counter, *)
(* which no handler branches on, are left out.                             *)
(***************************************************************************)
EXTENDS Naturals, FiniteSets

CONSTANTS
    Operators,   \* operators allowed to bid on the job
    Amounts,     \* bid amounts within MIN_BID_PERCENT..100% of the price
    Reputation,  \* reputationScore of each operator
    Clients,     \* concurrent HTTP requests in flight
    Workers,     \* BullMQ worker loops
    Requests,    \* the requests that are issued
    Overlap,     \* may a handler run between two awaits of another?
    MaxErrors,   \* bound on awaits that throw
    MaxCrashes,  \* bound on crashes of the Node process
    None         \* null

Procs == Clients \union Workers

ASSUME AuctionAssumption ==
    /\ IsFiniteSet(Operators)
    /\ IsFiniteSet(Workers)
    /\ Amounts \subseteq Nat
    /\ Reputation \in [Operators -> Nat]
    /\ None \notin Operators
    /\ Clients \intersect Workers = {}
    /\ Overlap \in BOOLEAN
    /\ MaxErrors \in Nat
    /\ MaxCrashes \in Nat

VARIABLES
    jobStatus,      \* job.status, or "NONE" before the row exists
    offer,          \* job.currentOfferedBidId
    winner,         \* job.winningBidId and job.assignedOperatorId
    biddingOver,    \* now > job.biddingWindowClosesAt
    offerOver,      \* now > job.acceptanceWindowClosesAt
    bidStatus,      \* bid.status of each operator's bid, or "NONE"
    bidAmount,      \* bid.bidAmount
    bidSeq,         \* rank of bid.submittedAt
    bookingStatus,  \* booking.status
    closeTask,      \* the delayed task close-bidding-<jobId>
    timers,         \* number of delayed acceptance-timeout tasks per bid
    pc,             \* next step of each handler
    arg,            \* what the handler has read
    autoClose,      \* history: a close task was scheduled for this window
    errors, crashes \* how many awaits threw, how many crashes happened

jobVars == <<jobStatus, offer, winner, biddingOver, offerOver>>
bidVars == <<bidStatus, bidAmount, bidSeq>>
taskVars == <<closeTask, timers>>
procVars == <<pc, arg>>
faultVars == <<errors, crashes>>
vars == <<jobVars, bidVars, bookingStatus, taskVars, procVars, autoClose,
          faultVars>>

----------------------------------------------------------------------------
(* Types *)

JobStatus == {"NONE", "OPEN_FOR_BIDDING", "NO_BIDS_RECEIVED",
              "PENDING_ACCEPTANCE", "ASSIGNED", "CANCELLED"}
BidStatus == {"NONE", "PENDING", "OFFERED", "WON", "LOST", "DECLINED",
              "WITHDRAWN"}
BookingStatus == {"PAID", "ASSIGNED", "CANCELLED"}
\* "scheduled" runs when the bidding window passes, "due" as soon as a
\* worker is free.
CloseTask == {"absent", "scheduled", "due"}

\* The steps of the workers that hold the close task.
ClosePCs == {"close.none", "close.offer", "close.schedule"}
\* The steps between reading an offer that must end and replacing it.
PassPCs == {"decline", "next.find", "next.none", "next.offer"}
PC == {"idle", "create.auto", "create.manual", "create.schedule",
       "bid.find", "bid.update", "bid.create", "withdraw",
       "next.schedule", "accept", "award.none", "award", "reopen",
       "manual.cancelClose", "manual.upsert", "manual.lost", "manual.job",
       "manual.booking", "cancel.job", "cancel.jobOnly",
       "cancel.bids", "cancel.booking"} \union ClosePCs \union PassPCs

OperatorOrNone == Operators \union {None}
\* bid: the operator whose bid the handler works on; amount: the bid
\* amount of a request; timer: the timeout task a worker is processing.
Arg == [bid : OperatorOrNone, amount : Nat, timer : OperatorOrNone]
NoArg == [bid |-> None, amount |-> 0, timer |-> None]

TypeOK ==
    /\ jobStatus \in JobStatus
    /\ offer \in OperatorOrNone
    /\ winner \in OperatorOrNone
    /\ biddingOver \in BOOLEAN
    /\ offerOver \in BOOLEAN
    /\ bidStatus \in [Operators -> BidStatus]
    /\ bidAmount \in [Operators -> Nat]
    /\ bidSeq \in [Operators -> Nat]
    /\ bookingStatus \in BookingStatus
    /\ closeTask \in CloseTask
    /\ timers \in [Operators -> Nat]
    /\ pc \in [Procs -> PC]
    /\ arg \in [Procs -> Arg]
    /\ autoClose \in BOOLEAN
    /\ errors \in Nat
    /\ crashes \in Nat

----------------------------------------------------------------------------
(* Bids in the order of the queries *)

HasBid(o) == bidStatus[o] # "NONE"
PendingBids == {o \in Operators : bidStatus[o] = "PENDING"}

\* orderBy bidAmount asc, submittedAt asc
RanksBefore(o, q) ==
    \/ bidAmount[o] < bidAmount[q]
    \/ bidAmount[o] = bidAmount[q] /\ bidSeq[o] <= bidSeq[q]

\* Seeded bug: orderBy descending.
IsHighest(o, S) == o \in S /\ \A q \in S : RanksBefore(q, o)
IsLowest(o, S) == o \in S /\ \A q \in S : RanksBefore(o, q)

\* orderBy bidAmount asc, reputationScore desc; the database breaks a
\* remaining tie as it likes
IsBestReputed(o, S) ==
    /\ o \in S
    /\ \A q \in S : \/ bidAmount[o] < bidAmount[q]
                    \/ /\ bidAmount[o] = bidAmount[q]
                       /\ Reputation[o] >= Reputation[q]

----------------------------------------------------------------------------
(* Handlers: start at a free process, continue at pc, return to "idle" *)

Idle == \A p \in Procs : pc[p] = "idle"

Free(p) == pc[p] = "idle" /\ (Overlap \/ Idle)

Request(p, name) == p \in Clients /\ name \in Requests /\ Free(p)

Goto(p, step) == pc' = [pc EXCEPT ![p] = step] /\ UNCHANGED arg

GotoWith(p, step, a) ==
    /\ pc' = [pc EXCEPT ![p] = step]
    /\ arg' = [arg EXCEPT ![p] = a]

Return(p) == GotoWith(p, "idle", NoArg)

SetBid(o, status) == bidStatus' = [bidStatus EXCEPT ![o] = status]

Init ==
    /\ jobStatus = "NONE"
    /\ offer = None
    /\ winner = None
    /\ biddingOver = FALSE
    /\ offerOver = FALSE
    /\ bidStatus = [o \in Operators |-> "NONE"]
    /\ bidAmount = [o \in Operators |-> 0]
    /\ bidSeq = [o \in Operators |-> 0]
    /\ bookingStatus = "PAID"
    /\ closeTask = "absent"
    /\ timers = [o \in Operators |-> 0]
    /\ pc = [p \in Procs |-> "idle"]
    /\ arg = [p \in Procs |-> NoArg]
    /\ autoClose = FALSE
    /\ errors = 0
    /\ crashes = 0

----------------------------------------------------------------------------
(* Job creation *)

\* The payment webhook has marked the booking PAID and creates its job.
CreateJobForBooking(p) ==
    /\ Request(p, "createJobForBooking")
    /\ bookingStatus = "PAID" /\ jobStatus = "NONE"
    /\ Goto(p, "create.auto")
    /\ UNCHANGED <<jobVars, bidVars, bookingStatus, taskVars, autoClose,
                   faultVars>>

\* POST /jobs: the job of a paid booking that has none; no close task.
CreateFromBooking(p) ==
    /\ Request(p, "createFromBooking")
    /\ bookingStatus = "PAID" /\ jobStatus = "NONE"
    /\ Goto(p, "create.manual")
    /\ UNCHANGED <<jobVars, bidVars, bookingStatus, taskVars, autoClose,
                   faultVars>>

\* Seeded bug: no close task is scheduled.
CreateJobUnscheduled(p) ==
    /\ pc[p] \in {"create.auto", "create.manual"}
    /\ jobStatus' = IF jobStatus = "NONE" THEN "OPEN_FOR_BIDDING" ELSE jobStatus
    /\ autoClose' = (autoClose \/ pc[p] = "create.auto")
    /\ Return(p)
    /\ UNCHANGED <<offer, winner, biddingOver, offerOver, bidVars,
                   bookingStatus, taskVars, faultVars>>

\* job.create, which the unique key on bookingId refuses the second time.
CreateJob(p) ==
    /\ \/ /\ pc[p] \in {"create.auto", "create.manual"}
          /\ jobStatus # "NONE"
          /\ UNCHANGED <<jobStatus, autoClose>>
          /\ Return(p)
       \/ /\ pc[p] = "create.auto" /\ jobStatus = "NONE"
          /\ jobStatus' = "OPEN_FOR_BIDDING"
          /\ autoClose' = TRUE
          /\ Goto(p, "create.schedule")
       \/ /\ pc[p] = "create.manual" /\ jobStatus = "NONE"
          /\ jobStatus' = "OPEN_FOR_BIDDING"
          /\ UNCHANGED autoClose
          /\ Return(p)
    /\ UNCHANGED <<offer, winner, biddingOver, offerOver, bidVars,
                   bookingStatus, taskVars, faultVars>>

ScheduleBiddingWindowClose(p) ==
    /\ pc[p] = "create.schedule"
    /\ closeTask' = "scheduled"
    /\ Return(p)
    /\ UNCHANGED <<jobVars, bidVars, bookingStatus, timers, autoClose,
                   faultVars>>

----------------------------------------------------------------------------
(* Bids *)

PlaceBid(p, o, a) ==
    /\ Request(p, "placeBid")
    /\ jobStatus = "OPEN_FOR_BIDDING" /\ ~biddingOver
    /\ GotoWith(p, "bid.find", [NoArg EXCEPT !.bid = o, !.amount = a])
    /\ UNCHANGED <<jobVars, bidVars, bookingStatus, taskVars, autoClose,
                   faultVars>>

FindExistingBid(p) ==
    /\ pc[p] = "bid.find"
    /\ \/ HasBid(arg[p].bid) /\ Goto(p, "bid.update")
       \/ ~HasBid(arg[p].bid) /\ Goto(p, "bid.create")
    /\ UNCHANGED <<jobVars, bidVars, bookingStatus, taskVars, autoClose,
                   faultVars>>

\* A new amount for an existing bid, whatever its status, which stays.
UpdateBid(p) ==
    /\ pc[p] = "bid.update"
    /\ bidAmount' = [bidAmount EXCEPT ![arg[p].bid] = arg[p].amount]
    /\ Return(p)
    /\ UNCHANGED <<jobVars, bidStatus, bidSeq, bookingStatus, taskVars,
                   autoClose, faultVars>>

BidsSubmitted == Cardinality({o \in Operators : HasBid(o)})

\* bid.create, which the unique key (jobId, operatorId) refuses if a
\* concurrent request created the bid first.
CreateBid(p) ==
    /\ pc[p] = "bid.create"
    /\ \/ /\ HasBid(arg[p].bid)
          /\ UNCHANGED bidVars
       \/ /\ ~HasBid(arg[p].bid)
          /\ SetBid(arg[p].bid, "PENDING")
          /\ bidAmount' = [bidAmount EXCEPT ![arg[p].bid] = arg[p].amount]
          /\ bidSeq' = [bidSeq EXCEPT ![arg[p].bid] = BidsSubmitted]
    /\ Return(p)
    /\ UNCHANGED <<jobVars, bookingStatus, taskVars, autoClose, faultVars>>

WithdrawBid(p, o) ==
    /\ Request(p, "withdrawBid")
    /\ bidStatus[o] = "PENDING" /\ jobStatus = "OPEN_FOR_BIDDING"
    /\ GotoWith(p, "withdraw", [NoArg EXCEPT !.bid = o])
    /\ UNCHANGED <<jobVars, bidVars, bookingStatus, taskVars, autoClose,
                   faultVars>>

WriteWithdrawn(p) ==
    /\ pc[p] = "withdraw"
    /\ SetBid(arg[p].bid, "WITHDRAWN")
    /\ Return(p)
    /\ UNCHANGED <<jobVars, bidAmount, bidSeq, bookingStatus, taskVars,
                   autoClose, faultVars>>

----------------------------------------------------------------------------
(* The bidding worker: closeBiddingAndAssignWinner *)

CloseTaskDue == closeTask = "due" \/ (closeTask = "scheduled" /\ biddingOver)

\* Seeded bug: a window without pending bids is left open.
CloseBiddingWithBids(p) ==
    /\ p \in Workers /\ Free(p) /\ CloseTaskDue
    /\ closeTask' = "absent"
    /\ \/ /\ jobStatus # "OPEN_FOR_BIDDING" \/ PendingBids = {}
          /\ UNCHANGED procVars
       \/ /\ jobStatus = "OPEN_FOR_BIDDING"
          /\ \E o \in Operators :
                /\ IsLowest(o, PendingBids)
                /\ GotoWith(p, "close.offer", [NoArg EXCEPT !.bid = o])
    /\ UNCHANGED <<jobVars, bidVars, bookingStatus, timers, autoClose,
                   faultVars>>

CloseBidding(p) ==
    /\ p \in Workers /\ Free(p) /\ CloseTaskDue
    /\ closeTask' = "absent"
    /\ \/ /\ jobStatus # "OPEN_FOR_BIDDING"
          /\ UNCHANGED procVars
       \/ /\ jobStatus = "OPEN_FOR_BIDDING" /\ PendingBids = {}
          /\ Goto(p, "close.none")
       \/ /\ jobStatus = "OPEN_FOR_BIDDING"
          /\ \E o \in Operators :
                /\ IsLowest(o, PendingBids)
                /\ GotoWith(p, "close.offer", [NoArg EXCEPT !.bid = o])
    /\ UNCHANGED <<jobVars, bidVars, bookingStatus, timers, autoClose,
                   faultVars>>

CloseWithNoBids(p) ==
    /\ pc[p] = "close.none"
    /\ jobStatus' = "NO_BIDS_RECEIVED"
    /\ Return(p)
    /\ UNCHANGED <<offer, winner, biddingOver, offerOver, bidVars,
                   bookingStatus, taskVars, autoClose, faultVars>>

OfferToLowest(p) ==
    /\ pc[p] = "close.offer"
    /\ jobStatus' = "PENDING_ACCEPTANCE"
    /\ offer' = arg[p].bid
    /\ offerOver' = FALSE
    /\ SetBid(arg[p].bid, "OFFERED")
    /\ Goto(p, "close.schedule")
    /\ UNCHANGED <<winner, biddingOver, bidAmount, bidSeq, bookingStatus,
                   taskVars, autoClose, faultVars>>

\* acceptanceQueue.add, after the offer's transaction has committed
ScheduleAcceptanceTimeout(p) ==
    /\ pc[p] \in {"close.schedule", "next.schedule"}
    /\ timers' = [timers EXCEPT ![arg[p].bid] = @ + 1]
    /\ Return(p)
    /\ UNCHANGED <<jobVars, bidVars, bookingStatus, closeTask, autoClose,
                   faultVars>>

----------------------------------------------------------------------------
(* An offer that is declined or times out passes to the next bid *)

\* The acceptance worker takes a timeout task no earlier than the end of
\* the window it was scheduled with; after a double offer of the same bid
\* the older of its two tasks may be early for the newer window.
TimerDue(o) ==
    /\ timers[o] > 0
    /\ (offer = o => offerOver \/ timers[o] > 1)

IsCurrentOffer(o) == jobStatus = "PENDING_ACCEPTANCE" /\ offer = o

\* Seeded bug: a timeout whose bid is no longer OFFERED is ignored.
AcceptanceTimeoutOfOffered(p, o) ==
    /\ p \in Workers /\ Free(p) /\ TimerDue(o)
    /\ timers' = [timers EXCEPT ![o] = @ - 1]
    /\ IF IsCurrentOffer(o) /\ bidStatus[o] = "OFFERED"
       THEN GotoWith(p, "decline", [NoArg EXCEPT !.bid = o, !.timer = o])
       ELSE UNCHANGED procVars
    /\ UNCHANGED <<jobVars, bidVars, bookingStatus, closeTask, autoClose,
                   faultVars>>

\* handleAcceptanceTimeout
AcceptanceTimeout(p, o) ==
    /\ p \in Workers /\ Free(p) /\ TimerDue(o)
    /\ timers' = [timers EXCEPT ![o] = @ - 1]
    /\ \/ /\ IsCurrentOffer(o)
          /\ GotoWith(p, "decline", [NoArg EXCEPT !.bid = o, !.timer = o])
       \/ /\ ~IsCurrentOffer(o)
          /\ UNCHANGED procVars
    /\ UNCHANGED <<jobVars, bidVars, bookingStatus, closeTask, autoClose,
                   faultVars>>

\* declineJobOffer, by bid id or by booking reference
DeclineJobOffer(p, o) ==
    /\ Request(p, "declineJobOffer")
    /\ IsCurrentOffer(o)
    /\ GotoWith(p, "decline", [NoArg EXCEPT !.bid = o])
    /\ UNCHANGED <<jobVars, bidVars, bookingStatus, taskVars, autoClose,
                   faultVars>>

WriteDeclined(p) ==
    /\ pc[p] = "decline"
    /\ SetBid(arg[p].bid, "DECLINED")
    /\ Goto(p, "next.find")
    /\ UNCHANGED <<jobVars, bidAmount, bidSeq, bookingStatus, taskVars,
                   autoClose, faultVars>>

\* Seeded bug: without a next bid the job is left as it is.
FindNextBidderOrStop(p) ==
    /\ pc[p] = "next.find"
    /\ \/ PendingBids = {} /\ Return(p)
       \/ \E o \in Operators :
            /\ IsLowest(o, PendingBids)
            /\ GotoWith(p, "next.offer", [arg[p] EXCEPT !.bid = o])
    /\ UNCHANGED <<jobVars, bidVars, bookingStatus, taskVars, autoClose,
                   faultVars>>

\* offerToNextBidder: find the next pending bid ...
FindNextBidder(p) ==
    /\ pc[p] = "next.find"
    /\ \/ PendingBids = {} /\ Goto(p, "next.none")
       \/ \E o \in Operators :
            /\ IsLowest(o, PendingBids)
            /\ GotoWith(p, "next.offer", [arg[p] EXCEPT !.bid = o])
    /\ UNCHANGED <<jobVars, bidVars, bookingStatus, taskVars, autoClose,
                   faultVars>>

\* ... there is none: escalate to the administrators ...
EscalateNoBidder(p) ==
    /\ pc[p] = "next.none"
    /\ jobStatus' = "NO_BIDS_RECEIVED"
    /\ offer' = None
    /\ Return(p)
    /\ UNCHANGED <<winner, biddingOver, offerOver, bidVars, bookingStatus,
                   taskVars, autoClose, faultVars>>

\* Seeded bug: the next offer gets no timeout task.
OfferToNextUntimed(p) ==
    /\ pc[p] = "next.offer"
    /\ offer' = arg[p].bid
    /\ offerOver' = FALSE
    /\ SetBid(arg[p].bid, "OFFERED")
    /\ Return(p)
    /\ UNCHANGED <<jobStatus, winner, biddingOver, bidAmount, bidSeq,
                   bookingStatus, taskVars, autoClose, faultVars>>

\* ... or offer it the job; job.status is not written.
OfferToNext(p) ==
    /\ pc[p] = "next.offer"
    /\ offer' = arg[p].bid
    /\ offerOver' = FALSE
    /\ SetBid(arg[p].bid, "OFFERED")
    /\ Goto(p, "next.schedule")
    /\ UNCHANGED <<jobStatus, winner, biddingOver, bidAmount, bidSeq,
                   bookingStatus, taskVars, autoClose, faultVars>>

----------------------------------------------------------------------------
(* Acceptance of an offer, by bid id or by booking reference *)

AcceptJobOffer(p, o) ==
    /\ Request(p, "acceptJobOffer")
    /\ IsCurrentOffer(o) /\ ~offerOver
    /\ GotoWith(p, "accept", [NoArg EXCEPT !.bid = o])
    /\ UNCHANGED <<jobVars, bidVars, bookingStatus, taskVars, autoClose,
                   faultVars>>

\* The bid statuses when o wins and the bids with a status in Open lose.
BidsWonBy(o, Open) ==
    [q \in Operators |-> IF q = o THEN "WON"
                         ELSE IF bidStatus[q] \in Open THEN "LOST"
                         ELSE bidStatus[q]]

\* Seeded bug: the booking is not updated with the job.
WriteAcceptedJobOnly(p) ==
    /\ pc[p] = "accept"
    /\ jobStatus' = "ASSIGNED"
    /\ winner' = arg[p].bid
    /\ offer' = None
    /\ offerOver' = FALSE
    /\ bidStatus' = BidsWonBy(arg[p].bid, {"PENDING", "OFFERED"})
    /\ Return(p)
    /\ UNCHANGED <<bookingStatus, biddingOver, bidAmount, bidSeq, taskVars,
                   autoClose, faultVars>>

WriteAccepted(p) ==
    /\ pc[p] = "accept"
    /\ jobStatus' = "ASSIGNED"
    /\ winner' = arg[p].bid
    /\ offer' = None
    /\ offerOver' = FALSE
    /\ bidStatus' = BidsWonBy(arg[p].bid, {"PENDING", "OFFERED"})
    /\ bookingStatus' = "ASSIGNED"
    /\ Return(p)
    /\ UNCHANGED <<biddingOver, bidAmount, bidSeq, taskVars, autoClose,
                   faultVars>>

----------------------------------------------------------------------------
(* Administrators *)

\* closeBiddingEarly and assignWinningBid award the job without an offer,
\* to the lowest of all bids, whatever their status.  (assignWinningBid
\* also admits BIDDING_CLOSED, which no reachable code writes.)
AwardNow(p) ==
    /\ Request(p, "awardNow")
    /\ jobStatus = "OPEN_FOR_BIDDING"
    /\ LET submitted == {o \in Operators : HasBid(o)} IN
       \/ submitted = {} /\ Goto(p, "award.none")
       \/ \E o \in Operators :
            /\ IsBestReputed(o, submitted)
            /\ GotoWith(p, "award", [NoArg EXCEPT !.bid = o])
    /\ UNCHANGED <<jobVars, bidVars, bookingStatus, taskVars, autoClose,
                   faultVars>>

\* Seeded bug: a status the other handlers do not know.
WriteBiddingClosed(p) ==
    /\ pc[p] = "award.none"
    /\ jobStatus' = "BIDDING_CLOSED"
    /\ Return(p)
    /\ UNCHANGED <<offer, winner, biddingOver, offerOver, bidVars,
                   bookingStatus, taskVars, autoClose, faultVars>>

WriteNoBids(p) ==
    /\ pc[p] = "award.none"
    /\ jobStatus' = "NO_BIDS_RECEIVED"
    /\ Return(p)
    /\ UNCHANGED <<offer, winner, biddingOver, offerOver, bidVars,
                   bookingStatus, taskVars, autoClose, faultVars>>

WriteAward(p) ==
    /\ pc[p] = "award"
    /\ jobStatus' = "ASSIGNED"
    /\ winner' = arg[p].bid
    /\ bidStatus' = BidsWonBy(arg[p].bid, {"PENDING"})
    /\ bookingStatus' = "ASSIGNED"
    /\ Return(p)
    /\ UNCHANGED <<offer, biddingOver, offerOver, bidAmount, bidSeq,
                   taskVars, autoClose, faultVars>>

\* reopenBidding: a new window, for which no close task is scheduled.  A
\* task left from the first window keeps its own time.
ReopenBidding(p) ==
    /\ Request(p, "reopenBidding")
    /\ jobStatus = "NO_BIDS_RECEIVED"
    /\ Goto(p, "reopen")
    /\ UNCHANGED <<jobVars, bidVars, bookingStatus, taskVars, autoClose,
                   faultVars>>

\* Seeded bug: bids that were declined may be offered the job again.
WriteReopenedWithBids(p) ==
    /\ pc[p] = "reopen"
    /\ jobStatus' = "OPEN_FOR_BIDDING"
    /\ biddingOver' = FALSE
    /\ closeTask' = IF closeTask = "scheduled" THEN "due" ELSE closeTask
    /\ autoClose' = FALSE
    /\ bidStatus' = [q \in Operators |->
                        IF bidStatus[q] = "DECLINED" THEN "PENDING"
                        ELSE bidStatus[q]]
    /\ Return(p)
    /\ UNCHANGED <<offer, winner, offerOver, bidAmount, bidSeq,
                   bookingStatus, timers, faultVars>>

WriteReopened(p) ==
    /\ pc[p] = "reopen"
    /\ jobStatus' = "OPEN_FOR_BIDDING"
    /\ biddingOver' = FALSE
    /\ closeTask' = IF closeTask = "scheduled" THEN "due" ELSE closeTask
    /\ autoClose' = FALSE
    /\ Return(p)
    /\ UNCHANGED <<offer, winner, offerOver, bidVars, bookingStatus, timers,
                   faultVars>>

\* manualJobAssignment: five awaits after the checks.
ManualJobAssignment(p, o, a) ==
    /\ Request(p, "manualJobAssignment")
    /\ jobStatus \notin {"NONE", "ASSIGNED"}
    /\ LET next == IF jobStatus = "OPEN_FOR_BIDDING"
                   THEN "manual.cancelClose" ELSE "manual.upsert"
       IN GotoWith(p, next, [NoArg EXCEPT !.bid = o, !.amount = a])
    /\ UNCHANGED <<jobVars, bidVars, bookingStatus, taskVars, autoClose,
                   faultVars>>

\* cancelScheduledClose; BullMQ refuses to remove a task being processed.
CancelScheduledClose(p) ==
    /\ pc[p] = "manual.cancelClose"
    /\ \/ /\ \E w \in Workers : pc[w] \in ClosePCs
          /\ UNCHANGED taskVars
          /\ Return(p)
       \/ /\ \A w \in Workers : pc[w] \notin ClosePCs
          /\ closeTask' = "absent" /\ UNCHANGED timers
          /\ Goto(p, "manual.upsert")
    /\ UNCHANGED <<jobVars, bidVars, bookingStatus, autoClose, faultVars>>

UpsertWonBid(p) ==
    /\ pc[p] = "manual.upsert"
    /\ SetBid(arg[p].bid, "WON")
    /\ bidAmount' = [bidAmount EXCEPT ![arg[p].bid] = arg[p].amount]
    /\ bidSeq' = IF HasBid(arg[p].bid) THEN bidSeq
                 ELSE [bidSeq EXCEPT ![arg[p].bid] = BidsSubmitted]
    /\ Goto(p, "manual.lost")
    /\ UNCHANGED <<jobVars, bookingStatus, taskVars, autoClose, faultVars>>

\* Seeded bug: only the pending bids lose, as elsewhere.
WritePendingLost(p) ==
    /\ pc[p] = "manual.lost"
    /\ bidStatus' = [q \in Operators |->
                        IF q # arg[p].bid /\ bidStatus[q] = "PENDING"
                        THEN "LOST" ELSE bidStatus[q]]
    /\ Goto(p, "manual.job")
    /\ UNCHANGED <<jobVars, bidAmount, bidSeq, bookingStatus, taskVars,
                   autoClose, faultVars>>

WriteOthersLost(p) ==
    /\ pc[p] = "manual.lost"
    /\ bidStatus' = [q \in Operators |->
                        IF q # arg[p].bid /\ HasBid(q) THEN "LOST"
                        ELSE bidStatus[q]]
    /\ Goto(p, "manual.job")
    /\ UNCHANGED <<jobVars, bidAmount, bidSeq, bookingStatus, taskVars,
                   autoClose, faultVars>>

\* currentOfferedBidId is not cleared.
WriteJobAssigned(p) ==
    /\ pc[p] = "manual.job"
    /\ jobStatus' = "ASSIGNED"
    /\ winner' = arg[p].bid
    /\ Goto(p, "manual.booking")
    /\ UNCHANGED <<offer, biddingOver, offerOver, bidVars, bookingStatus,
                   taskVars, autoClose, faultVars>>

WriteBookingAssigned(p) ==
    /\ pc[p] = "manual.booking"
    /\ bookingStatus' = "ASSIGNED"
    /\ Return(p)
    /\ UNCHANGED <<jobVars, bidVars, taskVars, autoClose, faultVars>>

----------------------------------------------------------------------------
(* cancelBooking, from the writes to the job on; neither queue is touched *)

CancelBooking(p) ==
    /\ Request(p, "cancelBooking")
    /\ bookingStatus # "CANCELLED"
    /\ LET next == IF jobStatus = "NONE" THEN "cancel.booking"
                   ELSE IF BidsSubmitted = 0 THEN "cancel.jobOnly"
                   ELSE "cancel.job"
       IN Goto(p, next)
    /\ UNCHANGED <<jobVars, bidVars, bookingStatus, taskVars, autoClose,
                   faultVars>>

WriteJobCancelled(p) ==
    /\ \/ pc[p] = "cancel.job" /\ Goto(p, "cancel.bids")
       \/ pc[p] = "cancel.jobOnly" /\ Goto(p, "cancel.booking")
    /\ jobStatus' = "CANCELLED"
    /\ UNCHANGED <<offer, winner, biddingOver, offerOver, bidVars,
                   bookingStatus, taskVars, autoClose, faultVars>>

WriteBidsDeclined(p) ==
    /\ pc[p] = "cancel.bids"
    /\ bidStatus' = [q \in Operators |->
                        IF bidStatus[q] \in {"PENDING", "OFFERED"}
                        THEN "DECLINED" ELSE bidStatus[q]]
    /\ Goto(p, "cancel.booking")
    /\ UNCHANGED <<jobVars, bidAmount, bidSeq, bookingStatus, taskVars,
                   autoClose, faultVars>>

WriteBookingCancelled(p) ==
    /\ pc[p] = "cancel.booking"
    /\ bookingStatus' = "CANCELLED"
    /\ Return(p)
    /\ UNCHANGED <<jobVars, bidVars, taskVars, autoClose, faultVars>>

----------------------------------------------------------------------------
(* Time and faults *)

BiddingWindowPasses ==
    /\ jobStatus # "NONE" /\ ~biddingOver
    /\ biddingOver' = TRUE
    /\ UNCHANGED <<jobStatus, offer, winner, offerOver, bidVars,
                   bookingStatus, taskVars, procVars, autoClose, faultVars>>

AcceptanceWindowPasses ==
    /\ offer # None /\ ~offerOver
    /\ offerOver' = TRUE
    /\ UNCHANGED <<jobStatus, offer, winner, biddingOver, bidVars,
                   bookingStatus, taskVars, procVars, autoClose, faultVars>>

\* An await throws.  A request answers 500; a worker rethrows and its task
\* fails for good, because no queue sets "attempts".
AwaitFails(p) ==
    /\ pc[p] # "idle" /\ errors < MaxErrors
    /\ errors' = errors + 1
    /\ Return(p)
    /\ UNCHANGED <<jobVars, bidVars, bookingStatus, taskVars, autoClose,
                   crashes>>

\* The Node process, which serves the requests and runs the workers, dies
\* and restarts.  BullMQ finds the tasks that were being processed stalled
\* and runs them again (once: MaxCrashes <= 1 in the models).
Crash ==
    /\ ~Idle /\ crashes < MaxCrashes
    /\ crashes' = crashes + 1
    /\ pc' = [p \in Procs |-> "idle"]
    /\ arg' = [p \in Procs |-> NoArg]
    /\ closeTask' = IF \E w \in Workers : pc[w] \in ClosePCs
                    THEN "due" ELSE closeTask
    /\ timers' = [o \in Operators |->
                    timers[o] + Cardinality({w \in Workers : arg[w].timer = o})]
    /\ UNCHANGED <<jobVars, bidVars, bookingStatus, autoClose, errors>>

----------------------------------------------------------------------------
(* The specification *)

StartRequest(p) ==
    \/ CreateJobForBooking(p)
    \/ CreateFromBooking(p)
    \/ \E o \in Operators, a \in Amounts : PlaceBid(p, o, a)
    \/ \E o \in Operators : WithdrawBid(p, o)
    \/ \E o \in Operators : DeclineJobOffer(p, o)
    \/ \E o \in Operators : AcceptJobOffer(p, o)
    \/ AwardNow(p)
    \/ ReopenBidding(p)
    \/ \E o \in Operators, a \in Amounts : ManualJobAssignment(p, o, a)
    \/ CancelBooking(p)

StartTask(p) ==
    \/ CloseBidding(p)
    \/ \E o \in Operators : AcceptanceTimeout(p, o)

Continue(p) ==
    \/ CreateJob(p)
    \/ ScheduleBiddingWindowClose(p)
    \/ FindExistingBid(p)
    \/ UpdateBid(p)
    \/ CreateBid(p)
    \/ WriteWithdrawn(p)
    \/ CloseWithNoBids(p)
    \/ OfferToLowest(p)
    \/ ScheduleAcceptanceTimeout(p)
    \/ WriteDeclined(p)
    \/ FindNextBidder(p)
    \/ EscalateNoBidder(p)
    \/ OfferToNext(p)
    \/ WriteAccepted(p)
    \/ WriteNoBids(p)
    \/ WriteAward(p)
    \/ WriteReopened(p)
    \/ CancelScheduledClose(p)
    \/ UpsertWonBid(p)
    \/ WriteOthersLost(p)
    \/ WriteJobAssigned(p)
    \/ WriteBookingAssigned(p)
    \/ WriteJobCancelled(p)
    \/ WriteBidsDeclined(p)
    \/ WriteBookingCancelled(p)

Next ==
    \/ \E p \in Procs : StartRequest(p) \/ StartTask(p) \/ Continue(p)
    \/ BiddingWindowPasses
    \/ AcceptanceWindowPasses
    \/ \E p \in Procs : AwaitFails(p)
    \/ Crash

Spec == Init /\ [][Next]_vars

\* Time passes, a started handler goes on, and workers take due tasks;
\* nobody has to issue a request.
Fairness ==
    /\ WF_vars(BiddingWindowPasses)
    /\ WF_vars(AcceptanceWindowPasses)
    /\ \A p \in Procs : WF_vars(Continue(p))
    /\ WF_vars(\E p \in Procs : CloseBidding(p))
    /\ \A o \in Operators : WF_vars(\E p \in Procs : AcceptanceTimeout(p, o))

FairSpec == Spec /\ Fairness

----------------------------------------------------------------------------
(* What holds however handlers overlap *)

NoFault == errors = 0 /\ crashes = 0

\* An open offer cannot be forgotten: while the job waits for an answer,
\* the timeout task of the current offer is in the queue, or the handler
\* that made the offer is about to add it, or a handler that found the
\* offer ended is about to replace it.  (bidding.processor.ts:109-141 and
\* acceptance.processor.ts:82-174 add the task after the transaction.)
OfferHasTimer ==
    NoFault /\ jobStatus = "PENDING_ACCEPTANCE" =>
        /\ offer # None
        /\ \/ timers[offer] > 0
           \/ \E p \in Procs : /\ pc[p] \in {"close.schedule", "next.schedule"}
                               /\ arg[p].bid = offer
           \/ \E p \in Procs : pc[p] \in PassPCs

\* A bidding window that was opened with a close task still has it, or the
\* worker is closing the window, or a manual assignment has removed the
\* task and is about to take the job out of bidding.
\* (jobs-creation.service.ts:24-34, admin.service.ts:2043-2084.)
WindowHasCloseTask ==
    NoFault /\ autoClose /\ jobStatus = "OPEN_FOR_BIDDING" =>
        \/ closeTask # "absent"
        \/ \E p \in Procs : pc[p] \in {"create.schedule", "close.none",
                "close.offer", "manual.upsert", "manual.lost", "manual.job"}

\* Every offer comes to an end: the operator answers, the timeout passes
\* the job on, or somebody takes the job out of the offer phase.
OfferEnds == jobStatus = "PENDING_ACCEPTANCE" ~> jobStatus # "PENDING_ACCEPTANCE"

\* A queued timeout task ends its offer even after a decline that failed
\* half-way and across a crash, when the task is run again: once no more
\* awaits fail, the offer is replaced.
TimerEndsOffer ==
    \A o \in Operators :
        (IsCurrentOffer(o) /\ timers[o] > 0 /\ errors = MaxErrors)
            ~> ~IsCurrentOffer(o)

\* A window opened with a close task is closed ("Automatic closure when
\* window expires", docs/FEATURES.md:63).
WindowCloses ==
    (autoClose /\ jobStatus = "OPEN_FOR_BIDDING")
        ~> ~(autoClose /\ jobStatus = "OPEN_FOR_BIDDING")

----------------------------------------------------------------------------
(* What holds between requests when they do not overlap *)

Quiescent == Idle /\ NoFault

\* The job's winning bid is the only bid with status WON, through offers,
\* early awards and manual reassignments.
OneWinner ==
    Quiescent =>
        /\ {o \in Operators : bidStatus[o] = "WON"} = {winner} \ {None}
        /\ jobStatus = "ASSIGNED" => winner # None

\* The offer stands with the lowest bid not yet declined or withdrawn.
LowestOffered ==
    Quiescent /\ jobStatus = "PENDING_ACCEPTANCE" =>
        \A q \in PendingBids : RanksBefore(offer, q)

\* The two status columns, written by separate statements, agree.
BookingFollowsJob ==
    Quiescent =>
        /\ bookingStatus = "ASSIGNED" <=> jobStatus = "ASSIGNED"
        /\ jobStatus = "CANCELLED" <=>
                bookingStatus = "CANCELLED" /\ jobStatus # "NONE"

----------------------------------------------------------------------------
(* What the documentation says and the code does not do *)

\* "Job locked to winning operator" (docs/FEATURES.md:69).
LockedToWinner ==
    [][jobStatus = "ASSIGNED" => jobStatus' = "ASSIGNED" /\ winner' = winner]_vars

\* "Operator can withdraw bid before bidding window closes (status =
\* WITHDRAWN)" (DATABASE_SCHEMA.md:781): a withdrawn bid does not win.
WithdrawnNotAwarded ==
    [][\A o \in Operators :
            bidStatus[o] = "WITHDRAWN" => bidStatus'[o] # "WON"]_vars

\* "Automatic closure when window expires" (docs/FEATURES.md:63), for any
\* window.
EveryWindowCloses ==
    jobStatus = "OPEN_FOR_BIDDING" ~> jobStatus # "OPEN_FOR_BIDDING"

\* The same line: the worker closes the window when it expires, not before.
ClosedOnlyWhenOver ==
    [][\A w \in Workers :
            pc[w] = "idle" /\ pc'[w] \in ClosePCs => biddingOver]_vars
=============================================================================
