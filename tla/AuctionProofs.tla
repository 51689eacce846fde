--------------------------- MODULE AuctionProofs ---------------------------
(***************************************************************************)
(* Proofs about Auction, for any number of operators, requests in flight   *)
(* and workers, any bid amounts and with or without overlapping handlers:  *)
(* types, and that the auction cannot be forgotten.  An open offer keeps   *)
(* its timeout task and an open window its close task, unless a handler    *)
(* that is running is about to act on the job.  When handlers do not       *)
(* overlap, the rows agree between requests and every step is a step of    *)
(* Dispatch, also when awaits fail and the process crashes.                *)
(***************************************************************************)
EXTENDS AuctionRefinement, FiniteSetTheorems, TLAPS

----------------------------------------------------------------------------
(* Lemmas about the helpers *)

\* The number of submitted bids is a natural number.
LEMMA BidsSubmittedNat == BidsSubmitted \in Nat
  <1> DEFINE S == {o \in Operators : HasBid(o)}
  <1>1. S \subseteq Operators
    OBVIOUS
  <1>2. IsFiniteSet(S)
    BY <1>1, FS_Subset, AuctionAssumption DEF AuctionAssumption
  <1>3. Cardinality(S) \in Nat
    BY <1>2, FS_CardinalityType
  <1>4. QED BY <1>3 DEF BidsSubmitted

\* The number of workers that hold a given timeout task is a natural number.
LEMMA HoldersNat ==
    ASSUME NEW o
    PROVE  Cardinality({w \in Workers : arg[w].timer = o}) \in Nat
  <1> DEFINE S == {w \in Workers : arg[w].timer = o}
  <1>1. S \subseteq Workers
    OBVIOUS
  <1>2. IsFiniteSet(S)
    BY <1>1, FS_Subset, AuctionAssumption DEF AuctionAssumption
  <1>3. QED BY <1>2, FS_CardinalityType

\* What moving a handler to another step does to the program counters.
LEMMA GotoType ==
    ASSUME TypeOK, NEW p \in Procs, NEW step \in PC, Goto(p, step)
    PROVE  /\ pc' \in [Procs -> PC] /\ arg' \in [Procs -> Arg]
           /\ pc'[p] = step
           /\ \A q \in Procs : q # p => pc'[q] = pc[q]
           /\ arg' = arg
  <1>1. pc \in [Procs -> PC] /\ arg \in [Procs -> Arg]
    BY DEF TypeOK
  <1>2. pc' = [pc EXCEPT ![p] = step] /\ arg' = arg
    BY DEF Goto
  <1>3. QED BY <1>1, <1>2

LEMMA GotoWithType ==
    ASSUME TypeOK, NEW p \in Procs, NEW step \in PC, NEW a \in Arg,
           GotoWith(p, step, a)
    PROVE  /\ pc' \in [Procs -> PC] /\ arg' \in [Procs -> Arg]
           /\ pc'[p] = step /\ arg'[p] = a
           /\ \A q \in Procs : q # p => pc'[q] = pc[q] /\ arg'[q] = arg[q]
  <1>1. pc \in [Procs -> PC] /\ arg \in [Procs -> Arg]
    BY DEF TypeOK
  <1>2. pc' = [pc EXCEPT ![p] = step] /\ arg' = [arg EXCEPT ![p] = a]
    BY DEF GotoWith
  <1>3. QED BY <1>1, <1>2

LEMMA NoArgType == NoArg \in Arg
  BY DEF NoArg, Arg, OperatorOrNone

LEMMA ReturnType ==
    ASSUME TypeOK, NEW p \in Procs, Return(p)
    PROVE  /\ pc' \in [Procs -> PC] /\ arg' \in [Procs -> Arg]
           /\ pc'[p] = "idle" /\ arg'[p] = NoArg
           /\ \A q \in Procs : q # p => pc'[q] = pc[q] /\ arg'[q] = arg[q]
  <1>1. NoArg \in Arg
    BY NoArgType
  <1>2. "idle" \in PC
    BY DEF PC
  <1>3. GotoWith(p, "idle", NoArg)
    BY DEF Return
  <1>4. QED BY <1>1, <1>2, <1>3, GotoWithType

----------------------------------------------------------------------------
(* Type correctness *)

\* What a handler's start or a step that only reads leaves alone.
Tables == <<jobVars, bidVars, bookingStatus, taskVars, autoClose, faultVars>>

LEMMA TablesType ==
    ASSUME TypeOK, UNCHANGED Tables,
           pc' \in [Procs -> PC], arg' \in [Procs -> Arg]
    PROVE  TypeOK'
  BY DEF TypeOK, Tables, jobVars, bidVars, taskVars, faultVars

\* The arguments a request or task carries.
LEMMA ArgType ==
    ASSUME NEW o \in Operators, NEW a \in Nat
    PROVE  /\ [NoArg EXCEPT !.bid = o, !.amount = a] \in Arg
           /\ [NoArg EXCEPT !.bid = o] \in Arg
           /\ [NoArg EXCEPT !.bid = o, !.timer = o] \in Arg
  BY DEF NoArg, Arg, OperatorOrNone

\* Starting a request changes nothing but the handler's own state.
LEMMA StartRequestType ==
    ASSUME TypeOK, NEW p \in Procs, StartRequest(p)
    PROVE  TypeOK'
  <1> USE DEF Tables
  <1>1. CASE CreateJobForBooking(p)
    <2>1. "create.auto" \in PC BY DEF PC
    <2>2. QED BY <1>1, <2>1, GotoType, TablesType DEF CreateJobForBooking
  <1>2. CASE CreateFromBooking(p)
    <2>1. "create.manual" \in PC BY DEF PC
    <2>2. QED BY <1>2, <2>1, GotoType, TablesType DEF CreateFromBooking
  <1>3. ASSUME NEW o \in Operators, NEW a \in Amounts, PlaceBid(p, o, a)
        PROVE  TypeOK'
    <2>1. "bid.find" \in PC BY DEF PC
    <2>2. a \in Nat BY AuctionAssumption DEF AuctionAssumption
    <2>3. QED BY <1>3, <2>1, <2>2, ArgType, GotoWithType, TablesType
              DEF PlaceBid
  <1>4. ASSUME NEW o \in Operators, WithdrawBid(p, o)
        PROVE  TypeOK'
    <2>1. "withdraw" \in PC BY DEF PC
    <2>2. [NoArg EXCEPT !.bid = o] \in Arg BY ArgType
    <2>3. QED BY <1>4, <2>1, <2>2, GotoWithType, TablesType DEF WithdrawBid
  <1>5. ASSUME NEW o \in Operators, DeclineJobOffer(p, o)
        PROVE  TypeOK'
    <2>1. "decline" \in PC BY DEF PC, PassPCs
    <2>2. [NoArg EXCEPT !.bid = o] \in Arg BY ArgType
    <2>3. QED BY <1>5, <2>1, <2>2, GotoWithType, TablesType
              DEF DeclineJobOffer
  <1>6. ASSUME NEW o \in Operators, AcceptJobOffer(p, o)
        PROVE  TypeOK'
    <2>1. "accept" \in PC BY DEF PC
    <2>2. [NoArg EXCEPT !.bid = o] \in Arg BY ArgType
    <2>3. QED BY <1>6, <2>1, <2>2, GotoWithType, TablesType
              DEF AcceptJobOffer
  <1>7. CASE AwardNow(p)
    <2>1. "award" \in PC /\ "award.none" \in PC BY DEF PC
    <2>2. \A o \in Operators : [NoArg EXCEPT !.bid = o] \in Arg BY ArgType
    <2>3. CASE Goto(p, "award.none")
      BY <1>7, <2>1, <2>3, GotoType, TablesType DEF AwardNow
    <2>4. CASE \E o \in Operators :
                    GotoWith(p, "award", [NoArg EXCEPT !.bid = o])
      BY <1>7, <2>1, <2>2, <2>4, GotoWithType, TablesType DEF AwardNow
    <2>5. QED BY <1>7, <2>3, <2>4 DEF AwardNow
  <1>8. CASE ReopenBidding(p)
    <2>1. "reopen" \in PC BY DEF PC
    <2>2. QED BY <1>8, <2>1, GotoType, TablesType DEF ReopenBidding
  <1>9. ASSUME NEW o \in Operators, NEW a \in Amounts,
               ManualJobAssignment(p, o, a)
        PROVE  TypeOK'
    <2> DEFINE next == IF jobStatus = "OPEN_FOR_BIDDING"
                       THEN "manual.cancelClose" ELSE "manual.upsert"
    <2>1. next \in PC BY DEF PC
    <2>2. a \in Nat BY AuctionAssumption DEF AuctionAssumption
    <2>3. [NoArg EXCEPT !.bid = o, !.amount = a] \in Arg BY <2>2, ArgType
    <2>4. GotoWith(p, next, [NoArg EXCEPT !.bid = o, !.amount = a])
      BY <1>9 DEF ManualJobAssignment
    <2>5. pc' \in [Procs -> PC] /\ arg' \in [Procs -> Arg]
      BY <2>1, <2>3, <2>4, GotoWithType
    <2>6. QED BY <1>9, <2>5, TablesType DEF ManualJobAssignment
  <1>10. CASE CancelBooking(p)
    <2> DEFINE next == IF jobStatus = "NONE" THEN "cancel.booking"
                       ELSE IF BidsSubmitted = 0 THEN "cancel.jobOnly"
                       ELSE "cancel.job"
    <2>1. next \in PC BY DEF PC
    <2>2. Goto(p, next) BY <1>10 DEF CancelBooking
    <2>3. pc' \in [Procs -> PC] /\ arg' \in [Procs -> Arg]
      BY <2>1, <2>2, GotoType
    <2>4. QED BY <1>10, <2>3, TablesType DEF CancelBooking
  <1>11. QED BY <1>1, <1>2, <1>3, <1>4, <1>5, <1>6, <1>7, <1>8, <1>9, <1>10
             DEF StartRequest

\* Taking a task from a queue.
LEMMA StartTaskType ==
    ASSUME TypeOK, NEW p \in Procs, StartTask(p)
    PROVE  TypeOK'
  <1> USE DEF jobVars, bidVars, taskVars, procVars, faultVars
  <1>1. CASE CloseBidding(p)
    <2>1. "close.none" \in PC /\ "close.offer" \in PC BY DEF PC, ClosePCs
    <2>2. \A o \in Operators : [NoArg EXCEPT !.bid = o] \in Arg BY ArgType
    <2>3. pc' \in [Procs -> PC] /\ arg' \in [Procs -> Arg]
      <3>1. CASE UNCHANGED procVars
        BY <3>1 DEF TypeOK
      <3>2. CASE Goto(p, "close.none")
        BY <2>1, <3>2, GotoType
      <3>3. CASE \E o \in Operators :
                    GotoWith(p, "close.offer", [NoArg EXCEPT !.bid = o])
        BY <2>1, <2>2, <3>3, GotoWithType
      <3>4. QED BY <1>1, <3>1, <3>2, <3>3 DEF CloseBidding
    <2>4. closeTask' \in CloseTask
      BY <1>1 DEF CloseBidding, CloseTask
    <2>5. QED BY <1>1, <2>3, <2>4 DEF CloseBidding, TypeOK
  <1>2. ASSUME NEW o \in Operators, AcceptanceTimeout(p, o)
        PROVE  TypeOK'
    <2>1. "decline" \in PC BY DEF PC, PassPCs
    <2>2. [NoArg EXCEPT !.bid = o, !.timer = o] \in Arg BY ArgType
    <2>3. pc' \in [Procs -> PC] /\ arg' \in [Procs -> Arg]
      <3>1. CASE UNCHANGED procVars
        BY <3>1 DEF TypeOK
      <3>2. CASE GotoWith(p, "decline", [NoArg EXCEPT !.bid = o, !.timer = o])
        BY <2>1, <2>2, <3>2, GotoWithType
      <3>3. QED BY <1>2, <3>1, <3>2 DEF AcceptanceTimeout
    <2>4. timers' \in [Operators -> Nat]
      BY <1>2 DEF AcceptanceTimeout, TimerDue, TypeOK
    <2>5. QED BY <1>2, <2>3, <2>4 DEF AcceptanceTimeout, TypeOK
  <1>3. QED BY <1>1, <1>2 DEF StartTask

\* Steps that write one bid, and what an EXCEPT does to the bid columns.
LEMMA SetBidType ==
    ASSUME TypeOK, NEW o, NEW status \in BidStatus, SetBid(o, status)
    PROVE  bidStatus' \in [Operators -> BidStatus]
  BY DEF TypeOK, SetBid

LEMMA BidsWonByType ==
    ASSUME TypeOK, NEW o, NEW Open
    PROVE  BidsWonBy(o, Open) \in [Operators -> BidStatus]
  BY DEF TypeOK, BidsWonBy, BidStatus

\* A step of a handler after its first.
LEMMA ContinueType ==
    ASSUME TypeOK, NEW p \in Procs, Continue(p)
    PROVE  TypeOK'
  <1> USE DEF jobVars, bidVars, taskVars, faultVars
  <1>a. arg[p].bid \in OperatorOrNone /\ arg[p].amount \in Nat
    BY DEF TypeOK, Arg
  <1>1. CASE CreateJob(p)
    <2>1. "create.schedule" \in PC BY DEF PC
    <2>2. pc' \in [Procs -> PC] /\ arg' \in [Procs -> Arg]
      <3>1. CASE Return(p) BY <3>1, ReturnType
      <3>2. CASE Goto(p, "create.schedule") BY <2>1, <3>2, GotoType
      <3>3. QED BY <1>1, <3>1, <3>2 DEF CreateJob
    <2>3. jobStatus' \in JobStatus /\ autoClose' \in BOOLEAN
      BY <1>1 DEF CreateJob, JobStatus, TypeOK
    <2>4. QED BY <1>1, <2>2, <2>3 DEF CreateJob, TypeOK
  <1>2. CASE ScheduleBiddingWindowClose(p)
    <2>1. pc' \in [Procs -> PC] /\ arg' \in [Procs -> Arg]
      BY <1>2, ReturnType DEF ScheduleBiddingWindowClose
    <2>2. closeTask' \in CloseTask
      BY <1>2 DEF ScheduleBiddingWindowClose, CloseTask
    <2>3. QED BY <1>2, <2>1, <2>2, <1>a DEF ScheduleBiddingWindowClose, TypeOK
  <1>3. CASE FindExistingBid(p)
    <2>1. "bid.update" \in PC /\ "bid.create" \in PC BY DEF PC, ClosePCs, PassPCs
    <2>2. pc' \in [Procs -> PC] /\ arg' \in [Procs -> Arg]
      BY <1>3, <2>1, GotoType DEF FindExistingBid
    <2>3. QED BY <1>3, <2>2, <1>a DEF FindExistingBid, TypeOK
  <1>4. CASE UpdateBid(p)
    <2>1. pc' \in [Procs -> PC] /\ arg' \in [Procs -> Arg]
      BY <1>4, ReturnType DEF UpdateBid
    <2>2. bidAmount' \in [Operators -> Nat]
      BY <1>4, <1>a DEF UpdateBid, TypeOK
    <2>3. QED BY <1>4, <2>1, <2>2, <1>a DEF UpdateBid, TypeOK
  <1>5. CASE CreateBid(p)
    <2>1. pc' \in [Procs -> PC] /\ arg' \in [Procs -> Arg]
      BY <1>5, ReturnType DEF CreateBid
    <2>2. /\ bidStatus' \in [Operators -> BidStatus]
          /\ bidAmount' \in [Operators -> Nat]
          /\ bidSeq' \in [Operators -> Nat]
      <3>1. CASE UNCHANGED bidVars BY <3>1 DEF TypeOK
      <3>2. CASE ~HasBid(arg[p].bid)
        <4>1. bidStatus' \in [Operators -> BidStatus]
          BY <1>5, <3>2, SetBidType DEF CreateBid, BidStatus
        <4>2. QED BY <1>5, <1>a, <3>2, <4>1, BidsSubmittedNat
                  DEF CreateBid, TypeOK
      <3>3. QED BY <1>5, <3>1, <3>2 DEF CreateBid
    <2>3. QED BY <1>5, <2>1, <2>2, <1>a DEF CreateBid, TypeOK
  <1>6. CASE WriteWithdrawn(p)
    <2>1. pc' \in [Procs -> PC] /\ arg' \in [Procs -> Arg]
      BY <1>6, ReturnType DEF WriteWithdrawn
    <2>2. bidStatus' \in [Operators -> BidStatus]
      BY <1>6, SetBidType DEF WriteWithdrawn, BidStatus
    <2>3. QED BY <1>6, <2>1, <2>2, <1>a DEF WriteWithdrawn, TypeOK
  <1>7. CASE CloseWithNoBids(p)
    <2>1. pc' \in [Procs -> PC] /\ arg' \in [Procs -> Arg]
      BY <1>7, ReturnType DEF CloseWithNoBids
    <2>2. jobStatus' \in JobStatus
      BY <1>7 DEF CloseWithNoBids, JobStatus
    <2>3. QED BY <1>7, <2>1, <2>2, <1>a DEF CloseWithNoBids, TypeOK
  <1>8. CASE OfferToLowest(p)
    <2>1. "close.schedule" \in PC BY DEF PC, ClosePCs, PassPCs
    <2>2. pc' \in [Procs -> PC] /\ arg' \in [Procs -> Arg]
      BY <1>8, <2>1, GotoType DEF OfferToLowest
    <2>3. bidStatus' \in [Operators -> BidStatus]
      BY <1>8, SetBidType DEF OfferToLowest, BidStatus
    <2>4. jobStatus' \in JobStatus
      BY <1>8 DEF OfferToLowest, JobStatus
    <2>5. QED BY <1>8, <2>2, <2>3, <2>4, <1>a DEF OfferToLowest, TypeOK
  <1>9. CASE ScheduleAcceptanceTimeout(p)
    <2>1. pc' \in [Procs -> PC] /\ arg' \in [Procs -> Arg]
      BY <1>9, ReturnType DEF ScheduleAcceptanceTimeout
    <2>2. timers' \in [Operators -> Nat]
      <3>1. timers \in [Operators -> Nat] BY DEF TypeOK
      <3>2. timers' = [timers EXCEPT ![arg[p].bid] = timers[arg[p].bid] + 1]
        BY <1>9 DEF ScheduleAcceptanceTimeout
      <3>3. CASE arg[p].bid \in Operators BY <3>1, <3>2, <3>3
      <3>4. CASE arg[p].bid \notin Operators BY <3>1, <3>2, <3>4
      <3>5. QED BY <3>3, <3>4
    <2>3. QED BY <1>9, <2>1, <2>2, <1>a DEF ScheduleAcceptanceTimeout, TypeOK
  <1>10. CASE WriteDeclined(p)
    <2>1. "next.find" \in PC BY DEF PC, ClosePCs, PassPCs
    <2>2. pc' \in [Procs -> PC] /\ arg' \in [Procs -> Arg]
      BY <1>10, <2>1, GotoType DEF WriteDeclined
    <2>3. bidStatus' \in [Operators -> BidStatus]
      BY <1>10, SetBidType DEF WriteDeclined, BidStatus
    <2>4. QED BY <1>10, <2>2, <2>3, <1>a DEF WriteDeclined, TypeOK
  <1>11. CASE FindNextBidder(p)
    <2>1. "next.none" \in PC /\ "next.offer" \in PC BY DEF PC, PassPCs
    <2>2. \A o \in Operators : [arg[p] EXCEPT !.bid = o] \in Arg
      BY DEF TypeOK, Arg, OperatorOrNone
    <2>3. pc' \in [Procs -> PC] /\ arg' \in [Procs -> Arg]
      <3>1. CASE Goto(p, "next.none") BY <2>1, <3>1, GotoType
      <3>2. CASE \E o \in Operators :
                    GotoWith(p, "next.offer", [arg[p] EXCEPT !.bid = o])
        BY <2>1, <2>2, <3>2, GotoWithType
      <3>3. QED BY <1>11, <3>1, <3>2 DEF FindNextBidder
    <2>4. QED BY <1>11, <2>3, TablesType DEF FindNextBidder, Tables
  <1>12. CASE EscalateNoBidder(p)
    <2>1. pc' \in [Procs -> PC] /\ arg' \in [Procs -> Arg]
      BY <1>12, ReturnType DEF EscalateNoBidder
    <2>2. jobStatus' \in JobStatus /\ offer' \in OperatorOrNone
      BY <1>12 DEF EscalateNoBidder, JobStatus, OperatorOrNone
    <2>3. QED BY <1>12, <2>1, <2>2, <1>a DEF EscalateNoBidder, TypeOK
  <1>13. CASE OfferToNext(p)
    <2>1. "next.schedule" \in PC BY DEF PC, ClosePCs, PassPCs
    <2>2. pc' \in [Procs -> PC] /\ arg' \in [Procs -> Arg]
      BY <1>13, <2>1, GotoType DEF OfferToNext
    <2>3. bidStatus' \in [Operators -> BidStatus]
      BY <1>13, SetBidType DEF OfferToNext, BidStatus
    <2>4. QED BY <1>13, <2>2, <2>3, <1>a DEF OfferToNext, TypeOK
  <1>14. CASE WriteAccepted(p)
    <2>1. pc' \in [Procs -> PC] /\ arg' \in [Procs -> Arg]
      BY <1>14, ReturnType DEF WriteAccepted
    <2>2. bidStatus' \in [Operators -> BidStatus]
      BY <1>14, BidsWonByType DEF WriteAccepted
    <2>3. jobStatus' \in JobStatus /\ bookingStatus' \in BookingStatus /\ offer' \in OperatorOrNone
      BY <1>14 DEF WriteAccepted, JobStatus, BookingStatus, OperatorOrNone
    <2>4. QED BY <1>14, <2>1, <2>2, <2>3, <1>a DEF WriteAccepted, TypeOK
  <1>15. CASE WriteNoBids(p)
    <2>1. pc' \in [Procs -> PC] /\ arg' \in [Procs -> Arg]
      BY <1>15, ReturnType DEF WriteNoBids
    <2>2. jobStatus' \in JobStatus
      BY <1>15 DEF WriteNoBids, JobStatus
    <2>3. QED BY <1>15, <2>1, <2>2, <1>a DEF WriteNoBids, TypeOK
  <1>16. CASE WriteAward(p)
    <2>1. pc' \in [Procs -> PC] /\ arg' \in [Procs -> Arg]
      BY <1>16, ReturnType DEF WriteAward
    <2>2. bidStatus' \in [Operators -> BidStatus]
      BY <1>16, BidsWonByType DEF WriteAward
    <2>3. jobStatus' \in JobStatus /\ bookingStatus' \in BookingStatus
      BY <1>16 DEF WriteAward, JobStatus, BookingStatus
    <2>4. QED BY <1>16, <2>1, <2>2, <2>3, <1>a DEF WriteAward, TypeOK
  <1>17. CASE WriteReopened(p)
    <2>1. pc' \in [Procs -> PC] /\ arg' \in [Procs -> Arg]
      BY <1>17, ReturnType DEF WriteReopened
    <2>2. jobStatus' \in JobStatus /\ closeTask' \in CloseTask
      BY <1>17 DEF WriteReopened, JobStatus, CloseTask, TypeOK
    <2>3. QED BY <1>17, <2>1, <2>2, <1>a DEF WriteReopened, TypeOK
  <1>18. CASE CancelScheduledClose(p)
    <2>1. "manual.upsert" \in PC BY DEF PC, ClosePCs, PassPCs
    <2>2. pc' \in [Procs -> PC] /\ arg' \in [Procs -> Arg]
      BY <1>18, <2>1, ReturnType, GotoType DEF CancelScheduledClose
    <2>3. closeTask' \in CloseTask /\ timers' = timers
      BY <1>18 DEF CancelScheduledClose, CloseTask, TypeOK
    <2>4. QED BY <1>18, <2>2, <2>3, <1>a DEF CancelScheduledClose, TypeOK
  <1>19. CASE UpsertWonBid(p)
    <2>1. "manual.lost" \in PC BY DEF PC, ClosePCs, PassPCs
    <2>2. pc' \in [Procs -> PC] /\ arg' \in [Procs -> Arg]
      BY <1>19, <2>1, GotoType DEF UpsertWonBid
    <2>3. bidStatus' \in [Operators -> BidStatus]
      BY <1>19, SetBidType DEF UpsertWonBid, BidStatus
    <2>4. bidAmount' \in [Operators -> Nat]
      BY <1>19, <1>a DEF UpsertWonBid, TypeOK
    <2>5. bidSeq' \in [Operators -> Nat]
      BY <1>19, BidsSubmittedNat DEF UpsertWonBid, TypeOK
    <2>6. QED BY <1>19, <2>2, <2>3, <2>4, <2>5, <1>a DEF UpsertWonBid, TypeOK
  <1>20. CASE WriteOthersLost(p)
    <2>1. "manual.job" \in PC BY DEF PC, ClosePCs, PassPCs
    <2>2. pc' \in [Procs -> PC] /\ arg' \in [Procs -> Arg]
      BY <1>20, <2>1, GotoType DEF WriteOthersLost
    <2>3. bidStatus' \in [Operators -> BidStatus]
      BY <1>20 DEF WriteOthersLost, BidStatus, TypeOK
    <2>4. QED BY <1>20, <2>2, <2>3, <1>a DEF WriteOthersLost, TypeOK
  <1>21. CASE WriteJobAssigned(p)
    <2>1. "manual.booking" \in PC BY DEF PC, ClosePCs, PassPCs
    <2>2. pc' \in [Procs -> PC] /\ arg' \in [Procs -> Arg]
      BY <1>21, <2>1, GotoType DEF WriteJobAssigned
    <2>3. jobStatus' \in JobStatus
      BY <1>21 DEF WriteJobAssigned, JobStatus
    <2>4. QED BY <1>21, <2>2, <2>3, <1>a DEF WriteJobAssigned, TypeOK
  <1>22. CASE WriteBookingAssigned(p)
    <2>1. pc' \in [Procs -> PC] /\ arg' \in [Procs -> Arg]
      BY <1>22, ReturnType DEF WriteBookingAssigned
    <2>2. bookingStatus' \in BookingStatus
      BY <1>22 DEF WriteBookingAssigned, BookingStatus
    <2>3. QED BY <1>22, <2>1, <2>2, <1>a DEF WriteBookingAssigned, TypeOK
  <1>23. CASE WriteJobCancelled(p)
    <2>1. "cancel.bids" \in PC /\ "cancel.booking" \in PC BY DEF PC, ClosePCs, PassPCs
    <2>2. pc' \in [Procs -> PC] /\ arg' \in [Procs -> Arg]
      BY <1>23, <2>1, GotoType DEF WriteJobCancelled
    <2>3. jobStatus' \in JobStatus
      BY <1>23 DEF WriteJobCancelled, JobStatus
    <2>4. QED BY <1>23, <2>2, <2>3, <1>a DEF WriteJobCancelled, TypeOK
  <1>24. CASE WriteBidsDeclined(p)
    <2>1. "cancel.booking" \in PC BY DEF PC, ClosePCs, PassPCs
    <2>2. pc' \in [Procs -> PC] /\ arg' \in [Procs -> Arg]
      BY <1>24, <2>1, GotoType DEF WriteBidsDeclined
    <2>3. bidStatus' \in [Operators -> BidStatus]
      BY <1>24 DEF WriteBidsDeclined, BidStatus, TypeOK
    <2>4. QED BY <1>24, <2>2, <2>3, <1>a DEF WriteBidsDeclined, TypeOK
  <1>25. CASE WriteBookingCancelled(p)
    <2>1. pc' \in [Procs -> PC] /\ arg' \in [Procs -> Arg]
      BY <1>25, ReturnType DEF WriteBookingCancelled
    <2>2. bookingStatus' \in BookingStatus
      BY <1>25 DEF WriteBookingCancelled, BookingStatus
    <2>3. QED BY <1>25, <2>1, <2>2, <1>a DEF WriteBookingCancelled, TypeOK
  <1>26. QED
    BY <1>1, <1>2, <1>3, <1>4, <1>5, <1>6, <1>7, <1>8, <1>9, <1>10,
       <1>11, <1>12, <1>13, <1>14, <1>15, <1>16, <1>17, <1>18, <1>19,
       <1>20, <1>21, <1>22, <1>23, <1>24, <1>25
    DEF Continue

\* No step leaves the types.
LEMMA NextType == TypeOK /\ [Next]_vars => TypeOK'
  <1> SUFFICES ASSUME TypeOK, [Next]_vars PROVE TypeOK'
    OBVIOUS
  <1> USE DEF jobVars, bidVars, taskVars, procVars, faultVars
  <1>1. ASSUME NEW p \in Procs, StartRequest(p) \/ StartTask(p) \/ Continue(p)
        PROVE  TypeOK'
    BY <1>1, StartRequestType, StartTaskType, ContinueType
  <1>2. CASE BiddingWindowPasses
    BY <1>2 DEF BiddingWindowPasses, TypeOK
  <1>3. CASE AcceptanceWindowPasses
    BY <1>3 DEF AcceptanceWindowPasses, TypeOK
  <1>4. ASSUME NEW p \in Procs, AwaitFails(p)
        PROVE  TypeOK'
    <2>1. pc' \in [Procs -> PC] /\ arg' \in [Procs -> Arg]
      BY <1>4, ReturnType DEF AwaitFails
    <2>2. QED BY <1>4, <2>1 DEF AwaitFails, TypeOK
  <1>5. CASE Crash
    <2>1. pc' \in [Procs -> PC] /\ arg' \in [Procs -> Arg]
      BY <1>5, NoArgType DEF Crash, PC
    <2>2. timers' \in [Operators -> Nat]
      <3> DEFINE held(o) == Cardinality({w \in Workers : arg[w].timer = o})
      <3>1. \A o \in Operators : held(o) \in Nat
        BY HoldersNat
      <3>2. timers' = [o \in Operators |-> timers[o] + held(o)]
        BY <1>5 DEF Crash
      <3> HIDE DEF held
      <3>3. QED BY <3>1, <3>2 DEF TypeOK
    <2>3. closeTask' \in CloseTask
      BY <1>5 DEF Crash, CloseTask, TypeOK
    <2>4. QED BY <1>5, <2>1, <2>2, <2>3 DEF Crash, TypeOK
  <1>6. CASE UNCHANGED vars
    BY <1>6 DEF vars, TypeOK
  <1>7. QED BY <1>1, <1>2, <1>3, <1>4, <1>5, <1>6 DEF Next

LEMMA InitType == Init => TypeOK
  <1> SUFFICES ASSUME Init PROVE TypeOK
    OBVIOUS
  <1>1. NoArg \in Arg /\ "idle" \in PC
    BY NoArgType DEF PC
  <1>2. QED BY <1>1 DEF Init, TypeOK, JobStatus, OperatorOrNone, BidStatus,
                       BookingStatus, CloseTask

\* Every table, queue and handler keeps its type, in every interleaving and
\* under every fault.
THEOREM TypeCorrect == Spec => []TypeOK
  <1>1. Init => TypeOK
    BY InitType
  <1>2. TypeOK /\ [Next]_vars => TypeOK'
    BY NextType
  <1>3. QED BY <1>1, <1>2, PTL DEF Spec

----------------------------------------------------------------------------
(* The inductive invariant of OfferHasTimer *)

ScheduleSteps == {"close.schedule", "next.schedule"}
OfferSteps == {"close.offer", "next.offer"} \union ScheduleSteps

\* A handler that offers the job, or is about to schedule the timeout of
\* its offer, knows the bid: without this the offer could be to nobody and
\* the task for nobody.
BidKnown ==
    \A p \in Procs : pc[p] \in OfferSteps => arg[p].bid \in Operators

TimerInv == TypeOK /\ BidKnown /\ OfferHasTimer

\* BidKnown survives a handler's move to a step that offers nothing.
LEMMA MoveKeepsBidKnown ==
    ASSUME TypeOK, BidKnown, NEW p \in Procs,
           \/ Return(p)
           \/ \E step \in PC \ OfferSteps : Goto(p, step)
           \/ \E step \in PC \ OfferSteps, a \in Arg : GotoWith(p, step, a)
    PROVE  BidKnown'
  <1>1. CASE Return(p)
    <2>1. "idle" \notin OfferSteps BY DEF OfferSteps, ScheduleSteps
    <2>2. QED BY <1>1, <2>1, ReturnType DEF BidKnown
  <1>2. ASSUME NEW step \in PC \ OfferSteps, Goto(p, step)
        PROVE  BidKnown'
    BY <1>2, GotoType DEF BidKnown
  <1>3. ASSUME NEW step \in PC \ OfferSteps, NEW a \in Arg,
               GotoWith(p, step, a)
        PROVE  BidKnown'
    BY <1>3, GotoWithType DEF BidKnown
  <1>4. QED BY <1>1, <1>2, <1>3

\* OfferHasTimer survives a step that writes neither the offer nor the
\* timers and takes no handler away from replacing or scheduling an offer.
LEMMA QuietKeepsTimer ==
    ASSUME OfferHasTimer,
           UNCHANGED <<jobStatus, offer, timers, errors, crashes>>,
           \A q \in Procs : pc[q] \in PassPCs => pc'[q] \in PassPCs,
           \A q \in Procs : pc[q] \in ScheduleSteps =>
                                pc'[q] = pc[q] /\ arg'[q] = arg[q]
    PROVE  OfferHasTimer'
  BY DEF OfferHasTimer, NoFault, ScheduleSteps

\* OfferHasTimer holds of a job that waits for no answer.
LEMMA NoOfferNoTimer ==
    ASSUME jobStatus' # "PENDING_ACCEPTANCE"
    PROVE  OfferHasTimer'
  BY DEF OfferHasTimer

\* In particular it survives the moves of a handler that does neither.
LEMMA MoveKeepsTimer ==
    ASSUME TypeOK, OfferHasTimer, NEW p \in Procs,
           UNCHANGED <<jobStatus, offer, timers, errors, crashes>>,
           pc[p] \notin PassPCs \union ScheduleSteps,
           \/ Return(p)
           \/ \E step \in PC : Goto(p, step)
           \/ \E step \in PC, a \in Arg : GotoWith(p, step, a)
    PROVE  OfferHasTimer'
  <1>1. \A q \in Procs : q # p => pc'[q] = pc[q] /\ arg'[q] = arg[q]
    BY ReturnType, GotoType, GotoWithType
  <1>2. QED BY <1>1, QuietKeepsTimer

\* The steps named below are steps, and none of them offers the job.
LEMMA PlainSteps ==
    {"create.auto", "create.manual", "create.schedule", "bid.find",
     "bid.update", "bid.create", "withdraw", "decline", "accept",
     "award.none", "award", "reopen", "manual.cancelClose", "manual.upsert",
     "manual.lost", "manual.job", "manual.booking", "cancel.job",
     "cancel.jobOnly", "cancel.bids", "cancel.booking", "close.none",
     "next.find", "next.none"} \subseteq PC \ OfferSteps
  BY DEF PC, ClosePCs, PassPCs, OfferSteps, ScheduleSteps

\* A request that starts keeps both parts.
LEMMA StartRequestKeepsTimer ==
    ASSUME TimerInv, NEW p \in Procs, StartRequest(p)
    PROVE  BidKnown' /\ OfferHasTimer'
  <1>1. UNCHANGED <<jobStatus, offer, timers, errors, crashes>>
    BY DEF StartRequest, CreateJobForBooking, CreateFromBooking, PlaceBid,
           WithdrawBid, DeclineJobOffer, AcceptJobOffer, AwardNow,
           ReopenBidding, ManualJobAssignment, CancelBooking, jobVars,
           taskVars, faultVars
  <1>2. pc[p] \notin PassPCs \union ScheduleSteps
    BY DEF StartRequest, CreateJobForBooking, CreateFromBooking, PlaceBid,
           WithdrawBid, DeclineJobOffer, AcceptJobOffer, AwardNow,
           ReopenBidding, ManualJobAssignment, CancelBooking, Request, Free,
           PassPCs, ScheduleSteps
  <1>3. \/ \E step \in PC \ OfferSteps : Goto(p, step)
        \/ \E step \in PC \ OfferSteps, a \in Arg : GotoWith(p, step, a)
    <2>1. Amounts \subseteq Nat BY AuctionAssumption DEF AuctionAssumption
    <2>2. CASE CreateJobForBooking(p)
      BY <2>2, PlainSteps DEF CreateJobForBooking
    <2>3. CASE CreateFromBooking(p)
      BY <2>3, PlainSteps DEF CreateFromBooking
    <2>4. CASE \E o \in Operators, a \in Amounts : PlaceBid(p, o, a)
      BY <2>1, <2>4, PlainSteps, ArgType DEF PlaceBid
    <2>5. CASE \E o \in Operators : WithdrawBid(p, o)
      BY <2>5, PlainSteps, ArgType DEF WithdrawBid
    <2>6. CASE \E o \in Operators : DeclineJobOffer(p, o)
      BY <2>6, PlainSteps, ArgType DEF DeclineJobOffer
    <2>7. CASE \E o \in Operators : AcceptJobOffer(p, o)
      BY <2>7, PlainSteps, ArgType DEF AcceptJobOffer
    <2>8. CASE AwardNow(p)
      BY <2>8, PlainSteps, ArgType DEF AwardNow
    <2>9. CASE ReopenBidding(p)
      BY <2>9, PlainSteps DEF ReopenBidding
    <2>10. CASE \E o \in Operators, a \in Amounts :
                    ManualJobAssignment(p, o, a)
      BY <2>1, <2>10, PlainSteps, ArgType DEF ManualJobAssignment
    <2>11. CASE CancelBooking(p)
      BY <2>11, PlainSteps DEF CancelBooking
    <2>12. QED BY <2>2, <2>3, <2>4, <2>5, <2>6, <2>7, <2>8, <2>9, <2>10,
                  <2>11 DEF StartRequest
  <1>4. BidKnown'
    BY <1>3, MoveKeepsBidKnown DEF TimerInv
  <1>5. OfferHasTimer'
    BY <1>1, <1>2, <1>3, MoveKeepsTimer DEF TimerInv
  <1>6. QED BY <1>4, <1>5

\* Taking a task keeps both: a close task finds no open offer, and the
\* timeout of the current offer is followed by the decline.
LEMMA StartTaskKeepsTimer ==
    ASSUME TimerInv, NEW p \in Procs, StartTask(p)
    PROVE  BidKnown' /\ OfferHasTimer'
  <1> USE DEF jobVars, bidVars, taskVars, procVars, faultVars, TimerInv
  <1>1. CASE CloseBidding(p)
    <2>1. CASE jobStatus # "OPEN_FOR_BIDDING"
      BY <1>1, <2>1, QuietKeepsTimer DEF CloseBidding, BidKnown
    <2>2. CASE jobStatus = "OPEN_FOR_BIDDING" /\ Goto(p, "close.none")
      <3>1. BidKnown'
        BY <2>2, PlainSteps, MoveKeepsBidKnown
      <3>2. QED BY <1>1, <2>2, <3>1, NoOfferNoTimer DEF CloseBidding
    <2>3. ASSUME jobStatus = "OPEN_FOR_BIDDING", NEW o \in Operators,
                 GotoWith(p, "close.offer", [NoArg EXCEPT !.bid = o])
          PROVE  BidKnown' /\ OfferHasTimer'
      <3>1. [NoArg EXCEPT !.bid = o].bid = o
        BY DEF NoArg
      <3>2. "close.offer" \in PC
        BY DEF PC, ClosePCs
      <3>a. [NoArg EXCEPT !.bid = o] \in Arg
        BY ArgType
      <3>b. /\ arg'[p] = [NoArg EXCEPT !.bid = o]
            /\ \A q \in Procs : q # p => pc'[q] = pc[q] /\ arg'[q] = arg[q]
        BY <2>3, <3>2, <3>a, GotoWithType
      <3>3. BidKnown'
        BY <3>1, <3>b DEF BidKnown
      <3>4. QED BY <1>1, <2>3, <3>3, NoOfferNoTimer DEF CloseBidding
    <2>4. QED BY <1>1, <2>1, <2>2, <2>3 DEF CloseBidding
  <1>2. ASSUME NEW o \in Operators, AcceptanceTimeout(p, o)
        PROVE  BidKnown' /\ OfferHasTimer'
    <2>1. CASE IsCurrentOffer(o)
      <3>1. GotoWith(p, "decline", [NoArg EXCEPT !.bid = o, !.timer = o])
        BY <1>2, <2>1 DEF AcceptanceTimeout
      <3>2. BidKnown'
        BY <3>1, PlainSteps, ArgType, MoveKeepsBidKnown
      <3>3. pc'[p] \in PassPCs
        BY <3>1, PlainSteps, ArgType, GotoWithType DEF PassPCs
      <3>4. offer' = offer /\ offer # None
        BY <1>2, <2>1, AuctionAssumption
           DEF AcceptanceTimeout, IsCurrentOffer, AuctionAssumption
      <3>5. QED BY <3>2, <3>3, <3>4 DEF OfferHasTimer
    <2>2. CASE ~IsCurrentOffer(o)
      <3>1. UNCHANGED procVars /\ BidKnown'
        BY <1>2, <2>2 DEF AcceptanceTimeout, BidKnown
      <3>2. CASE jobStatus # "PENDING_ACCEPTANCE"
        BY <1>2, <3>1, <3>2, NoOfferNoTimer DEF AcceptanceTimeout
      <3>3. CASE jobStatus = "PENDING_ACCEPTANCE" /\ offer # o
        <4>1. offer # None /\ NoFault => timers'[offer] = timers[offer]
          BY <1>2, <3>3 DEF AcceptanceTimeout, TypeOK, OperatorOrNone
        <4>2. UNCHANGED <<jobStatus, offer, errors, crashes>>
          BY <1>2 DEF AcceptanceTimeout
        <4>3. QED BY <3>1, <4>1, <4>2 DEF OfferHasTimer, NoFault
      <3>4. QED BY <2>2, <3>2, <3>3 DEF IsCurrentOffer
    <2>3. QED BY <2>1, <2>2
  <1>3. QED BY <1>1, <1>2 DEF StartTask

\* The steps that take the job out of the offer phase, or leave it out.
LEMMA LeavingKeepsTimer ==
    ASSUME TimerInv, NEW p \in Procs,
           \/ CloseWithNoBids(p) \/ EscalateNoBidder(p) \/ WriteAccepted(p)
           \/ WriteNoBids(p) \/ WriteAward(p) \/ WriteReopened(p)
           \/ WriteJobAssigned(p) \/ WriteJobCancelled(p)
    PROVE  BidKnown' /\ OfferHasTimer'
  <1>1. jobStatus' # "PENDING_ACCEPTANCE"
    BY DEF CloseWithNoBids, EscalateNoBidder, WriteAccepted, WriteNoBids,
           WriteAward, WriteReopened, WriteJobAssigned, WriteJobCancelled
  <1>2. Return(p) \/ \E step \in PC \ OfferSteps : Goto(p, step)
    <2>1. CASE WriteJobAssigned(p)
      BY <2>1, PlainSteps DEF WriteJobAssigned
    <2>2. CASE WriteJobCancelled(p)
      BY <2>2, PlainSteps DEF WriteJobCancelled
    <2>3. QED BY <2>1, <2>2
              DEF CloseWithNoBids, EscalateNoBidder, WriteAccepted,
                  WriteNoBids, WriteAward, WriteReopened
  <1>3. BidKnown'
    BY <1>2, MoveKeepsBidKnown DEF TimerInv
  <1>4. QED BY <1>1, <1>3, NoOfferNoTimer

\* The steps that touch neither the offer nor the timers.
LEMMA AsideKeepsTimer ==
    ASSUME TimerInv, NEW p \in Procs,
           \/ ScheduleBiddingWindowClose(p) \/ FindExistingBid(p)
           \/ UpdateBid(p) \/ CreateBid(p) \/ WriteWithdrawn(p)
           \/ CancelScheduledClose(p) \/ UpsertWonBid(p)
           \/ WriteOthersLost(p) \/ WriteBookingAssigned(p)
           \/ WriteBidsDeclined(p) \/ WriteBookingCancelled(p)
    PROVE  BidKnown' /\ OfferHasTimer'
  <1> USE DEF ScheduleBiddingWindowClose, FindExistingBid, UpdateBid,
           CreateBid, WriteWithdrawn, CancelScheduledClose, UpsertWonBid,
           WriteOthersLost, WriteBookingAssigned, WriteBidsDeclined,
           WriteBookingCancelled
  <1>1. UNCHANGED <<jobStatus, offer, timers, errors, crashes>>
    BY DEF jobVars, taskVars, faultVars
  <1>2. pc[p] \notin PassPCs \union ScheduleSteps
    BY DEF PassPCs, ScheduleSteps
  <1>3. Return(p) \/ \E step \in PC \ OfferSteps : Goto(p, step)
    BY PlainSteps
  <1>4. BidKnown'
    BY <1>3, MoveKeepsBidKnown DEF TimerInv
  <1>5. OfferHasTimer'
    BY <1>1, <1>2, <1>3, MoveKeepsTimer DEF TimerInv
  <1>6. QED BY <1>4, <1>5

\* The steps that make, schedule, decline and pass on an offer, and the
\* creation of the job.
LEMMA ContinueKeepsTimer ==
    ASSUME TimerInv, NEW p \in Procs, Continue(p)
    PROVE  BidKnown' /\ OfferHasTimer'
  <1> USE DEF jobVars, bidVars, taskVars, faultVars, TimerInv
  <1>1. CASE OfferToLowest(p) \/ OfferToNext(p)
    <2>1. PICK step \in ScheduleSteps : Goto(p, step)
      BY <1>1 DEF OfferToLowest, OfferToNext, ScheduleSteps
    <2>2. step \in PC
      BY DEF ScheduleSteps, PC, ClosePCs
    <2>3. arg[p].bid \in Operators /\ arg[p].bid # None
      BY <1>1, AuctionAssumption
         DEF OfferToLowest, OfferToNext, BidKnown, OfferSteps, AuctionAssumption
    <2>4. /\ pc'[p] = step /\ arg' = arg
          /\ \A q \in Procs : q # p => pc'[q] = pc[q]
      BY <2>1, <2>2, GotoType
    <2>5. BidKnown'
      BY <2>3, <2>4 DEF BidKnown
    <2>6. offer' = arg[p].bid
      BY <1>1 DEF OfferToLowest, OfferToNext
    <2>7. QED BY <2>3, <2>4, <2>5, <2>6 DEF OfferHasTimer, ScheduleSteps
  <1>2. CASE ScheduleAcceptanceTimeout(p)
    <2>1. Return(p)
      BY <1>2 DEF ScheduleAcceptanceTimeout
    <2>2. BidKnown'
      BY <2>1, MoveKeepsBidKnown
    <2>3. arg[p].bid \in Operators
      BY <1>2 DEF ScheduleAcceptanceTimeout, BidKnown, OfferSteps, ScheduleSteps
    <2>4. /\ timers' = [timers EXCEPT ![arg[p].bid] = timers[arg[p].bid] + 1]
          /\ timers \in [Operators -> Nat]
      BY <1>2 DEF ScheduleAcceptanceTimeout, TypeOK
    <2>5. timers'[arg[p].bid] > 0
      BY <2>3, <2>4
    <2>6. \A o \in Operators : timers[o] > 0 => timers'[o] > 0
      BY <2>4, <2>5
    <2>7. \A q \in Procs : q # p => pc'[q] = pc[q] /\ arg'[q] = arg[q]
      BY <2>1, ReturnType
    <2>8. UNCHANGED <<jobStatus, offer, errors, crashes>> /\ pc[p] \notin PassPCs
      BY <1>2 DEF ScheduleAcceptanceTimeout, PassPCs
    <2>9. OfferHasTimer'
      <3>1. SUFFICES ASSUME NoFault, jobStatus = "PENDING_ACCEPTANCE"
                     PROVE  OfferHasTimer'
        BY <2>8 DEF OfferHasTimer, NoFault
      <3>2. offer \in Operators
        BY <3>1 DEF OfferHasTimer, TypeOK, OperatorOrNone
      <3>3. CASE timers[offer] > 0 \/ arg[p].bid = offer
        BY <2>5, <2>6, <2>8, <3>1, <3>2, <3>3 DEF OfferHasTimer
      <3>4. CASE \E q \in Procs : /\ q # p
                                  /\ pc[q] \in ScheduleSteps
                                  /\ arg[q].bid = offer
        BY <2>7, <2>8, <3>1, <3>4 DEF OfferHasTimer, ScheduleSteps
      <3>5. CASE \E q \in Procs : pc[q] \in PassPCs
        BY <2>7, <2>8, <3>1, <3>5 DEF OfferHasTimer
      <3>6. QED BY <3>1, <3>3, <3>4, <3>5 DEF OfferHasTimer, ScheduleSteps
    <2>10. QED BY <2>2, <2>9
  <1>3. CASE WriteDeclined(p)
    <2>1. Goto(p, "next.find")
      BY <1>3 DEF WriteDeclined
    <2>2. BidKnown'
      BY <2>1, PlainSteps, MoveKeepsBidKnown
    <2>3. pc'[p] = "next.find"
      BY <2>1, PlainSteps, GotoType
    <2>4. QED BY <1>3, <2>2, <2>3 DEF WriteDeclined, OfferHasTimer, NoFault,
                                      PassPCs
  <1>4. CASE FindNextBidder(p)
    <2>1. CASE Goto(p, "next.none")
      <3>1. BidKnown'
        BY <2>1, PlainSteps, MoveKeepsBidKnown
      <3>2. pc'[p] = "next.none"
        BY <2>1, PlainSteps, GotoType
      <3>3. QED BY <1>4, <3>1, <3>2 DEF FindNextBidder, OfferHasTimer,
                                        NoFault, PassPCs
    <2>2. ASSUME NEW o \in Operators,
                 GotoWith(p, "next.offer", [arg[p] EXCEPT !.bid = o])
          PROVE  BidKnown' /\ OfferHasTimer'
      <3>1. /\ [arg[p] EXCEPT !.bid = o] \in Arg
            /\ [arg[p] EXCEPT !.bid = o].bid = o
        BY DEF TypeOK, Arg, OperatorOrNone
      <3>2. "next.offer" \in PC
        BY DEF PC, PassPCs
      <3>3. /\ pc'[p] = "next.offer" /\ arg'[p] = [arg[p] EXCEPT !.bid = o]
            /\ \A q \in Procs : q # p => pc'[q] = pc[q] /\ arg'[q] = arg[q]
        BY <2>2, <3>1, <3>2, GotoWithType
      <3>4. BidKnown'
        BY <3>1, <3>3 DEF BidKnown
      <3>5. QED BY <1>4, <3>3, <3>4 DEF FindNextBidder, OfferHasTimer,
                                        NoFault, PassPCs
    <2>3. QED BY <1>4, <2>1, <2>2 DEF FindNextBidder
  <1>5. CASE CreateJob(p)
    <2>1. Return(p) \/ Goto(p, "create.schedule")
      BY <1>5 DEF CreateJob
    <2>2. BidKnown'
      BY <2>1, PlainSteps, MoveKeepsBidKnown
    <2>3. CASE UNCHANGED jobStatus
      BY <1>5, <2>1, <2>3, PlainSteps, MoveKeepsTimer, <2>2
         DEF CreateJob, PassPCs, ScheduleSteps
    <2>4. CASE jobStatus' = "OPEN_FOR_BIDDING"
      BY <2>2, <2>4, NoOfferNoTimer
    <2>5. QED BY <1>5, <2>3, <2>4 DEF CreateJob
  <1>6. QED BY <1>1, <1>2, <1>3, <1>4, <1>5, LeavingKeepsTimer,
               AsideKeepsTimer DEF Continue

\* The invariant is inductive.  A fault ends the promise: a handler that
\* dies between the offer and its task, or between the decline and the
\* next offer, leaves the job as it is.
LEMMA TimerInvNext == TimerInv /\ [Next]_vars => TimerInv'
  <1> SUFFICES ASSUME TimerInv, [Next]_vars PROVE TimerInv'
    OBVIOUS
  <1>1. TypeOK'
    BY NextType DEF TimerInv
  <1>2. BidKnown' /\ OfferHasTimer'
    <2>1. ASSUME NEW p \in Procs,
                 StartRequest(p) \/ StartTask(p) \/ Continue(p)
          PROVE  BidKnown' /\ OfferHasTimer'
      BY <2>1, StartRequestKeepsTimer, StartTaskKeepsTimer,
         ContinueKeepsTimer
    <2>2. CASE BiddingWindowPasses
      BY <2>2 DEF BiddingWindowPasses, TimerInv, BidKnown, OfferHasTimer,
                  NoFault, procVars, taskVars, faultVars
    <2>3. CASE AcceptanceWindowPasses
      BY <2>3 DEF AcceptanceWindowPasses, TimerInv, BidKnown, OfferHasTimer,
                  NoFault, procVars, taskVars, faultVars
    <2>4. ASSUME NEW p \in Procs, AwaitFails(p)
          PROVE  BidKnown' /\ OfferHasTimer'
      <3>1. Return(p) /\ errors' = errors + 1 /\ errors \in Nat
        BY <2>4 DEF AwaitFails, TimerInv, TypeOK
      <3>2. QED BY <3>1, MoveKeepsBidKnown
                DEF TimerInv, OfferHasTimer, NoFault
    <2>5. CASE Crash
      <3>1. crashes' = crashes + 1 /\ crashes \in Nat
        BY <2>5 DEF Crash, TimerInv, TypeOK
      <3>2. \A p \in Procs : pc'[p] \notin OfferSteps
        BY <2>5 DEF Crash, OfferSteps, ScheduleSteps
      <3>3. QED BY <3>1, <3>2 DEF BidKnown, OfferHasTimer, NoFault
    <2>6. CASE UNCHANGED vars
      BY <2>6 DEF vars, jobVars, procVars, taskVars, faultVars, TimerInv,
                  BidKnown, OfferHasTimer, NoFault
    <2>7. QED BY <2>1, <2>2, <2>3, <2>4, <2>5, <2>6 DEF Next
  <1>3. QED BY <1>1, <1>2 DEF TimerInv

\* Without faults an open offer is never forgotten: its timeout task is in
\* the queue, or a running handler is about to add it or to replace the
\* offer.
THEOREM OfferNeverForgotten == Spec => []OfferHasTimer
  <1>1. Init => TimerInv
    <2>1. Init => TypeOK
      BY InitType
    <2>2. Init => BidKnown /\ OfferHasTimer
      BY DEF Init, BidKnown, OfferHasTimer, OfferSteps, ScheduleSteps
    <2>3. QED BY <2>1, <2>2 DEF TimerInv
  <1>2. TimerInv /\ [Next]_vars => TimerInv'
    BY TimerInvNext
  <1>3. TimerInv => OfferHasTimer
    BY DEF TimerInv
  <1>4. QED BY <1>1, <1>2, <1>3, PTL DEF Spec

----------------------------------------------------------------------------
(* The inductive invariant of WindowHasCloseTask *)

\* The steps that WindowHasCloseTask lets stand in for the close task.
ClosingSteps == {"create.schedule", "close.none", "close.offer",
                 "manual.upsert", "manual.lost", "manual.job"}

\* No window is promised a close task before the job exists: otherwise
\* POST /jobs, which schedules none, would open a window that is.
NoJobNoPromise == jobStatus = "NONE" => ~autoClose

WindowInv == TypeOK /\ NoJobNoPromise /\ WindowHasCloseTask

\* A step that opens no window, removes no task and takes no handler away
\* from a closing step keeps the promise.
LEMMA QuietKeepsWindow ==
    ASSUME WindowInv,
           UNCHANGED <<jobStatus, autoClose, closeTask, errors, crashes>>,
           \A q \in Procs : pc[q] \in ClosingSteps => pc'[q] \in ClosingSteps
    PROVE  NoJobNoPromise' /\ WindowHasCloseTask'
  BY DEF WindowInv, NoJobNoPromise, WindowHasCloseTask, NoFault, ClosingSteps

\* A window that is shut, or that was opened without a promise, needs none.
LEMMA ShutKeepsWindow ==
    ASSUME jobStatus' # "NONE",
           jobStatus' # "OPEN_FOR_BIDDING" \/ ~autoClose'
    PROVE  NoJobNoPromise' /\ WindowHasCloseTask'
  BY DEF NoJobNoPromise, WindowHasCloseTask

\* The steps of requests and workers outside the closing of a window.
LEMMA MoveKeepsWindow ==
    ASSUME WindowInv, NEW p \in Procs,
           UNCHANGED <<jobStatus, autoClose, closeTask, errors, crashes>>,
           pc[p] \notin ClosingSteps,
           \/ UNCHANGED procVars
           \/ Return(p)
           \/ \E step \in PC : Goto(p, step)
           \/ \E step \in PC, a \in Arg : GotoWith(p, step, a)
    PROVE  NoJobNoPromise' /\ WindowHasCloseTask'
  <1>1. \A q \in Procs : q # p => pc'[q] = pc[q]
    BY ReturnType, GotoType, GotoWithType DEF WindowInv, procVars
  <1>2. QED BY <1>1, QuietKeepsWindow

LEMMA StartRequestKeepsWindow ==
    ASSUME WindowInv, NEW p \in Procs, StartRequest(p)
    PROVE  NoJobNoPromise' /\ WindowHasCloseTask'
  <1> USE DEF StartRequest, CreateJobForBooking, CreateFromBooking, PlaceBid,
           WithdrawBid, DeclineJobOffer, AcceptJobOffer, AwardNow,
           ReopenBidding, ManualJobAssignment, CancelBooking
  <1>1. UNCHANGED <<jobStatus, autoClose, closeTask, errors, crashes>>
    BY DEF jobVars, taskVars, faultVars
  <1>2. pc[p] = "idle"
    BY DEF Request, Free
  <1>3. \A q \in Procs : q # p => pc'[q] = pc[q]
    BY DEF WindowInv, TypeOK, Goto, GotoWith
  <1>4. QED BY <1>1, <1>2, <1>3, QuietKeepsWindow DEF ClosingSteps

LEMMA StartTaskKeepsWindow ==
    ASSUME WindowInv, NEW p \in Procs, StartTask(p)
    PROVE  NoJobNoPromise' /\ WindowHasCloseTask'
  <1> USE DEF jobVars, bidVars, taskVars, procVars, faultVars
  <1>1. CASE CloseBidding(p)
    <2>1. UNCHANGED <<jobStatus, autoClose>>
      BY <1>1 DEF CloseBidding
    <2>2. CASE jobStatus # "OPEN_FOR_BIDDING"
      BY <2>1, <2>2 DEF WindowInv, NoJobNoPromise, WindowHasCloseTask
    <2>3. CASE jobStatus = "OPEN_FOR_BIDDING"
      <3>1. \E step \in {"close.none", "close.offer"} :
                pc' = [pc EXCEPT ![p] = step]
        BY <1>1, <2>3 DEF CloseBidding, Goto, GotoWith
      <3>2. pc'[p] \in ClosingSteps
        BY <3>1 DEF WindowInv, TypeOK, ClosingSteps
      <3>3. QED BY <2>1, <2>3, <3>2
                DEF NoJobNoPromise, WindowHasCloseTask, ClosingSteps
    <2>4. QED BY <2>2, <2>3
  <1>2. ASSUME NEW o \in Operators, AcceptanceTimeout(p, o)
        PROVE  NoJobNoPromise' /\ WindowHasCloseTask'
    <2>1. UNCHANGED <<jobStatus, autoClose, closeTask, errors, crashes>>
      BY <1>2 DEF AcceptanceTimeout
    <2>2. pc[p] = "idle" /\ \A q \in Procs : q # p => pc'[q] = pc[q]
      BY <1>2 DEF AcceptanceTimeout, Free, GotoWith, WindowInv, TypeOK
    <2>3. QED BY <2>1, <2>2, QuietKeepsWindow DEF ClosingSteps
  <1>3. QED BY <1>1, <1>2 DEF StartTask

LEMMA ContinueKeepsWindow ==
    ASSUME WindowInv, NEW p \in Procs, Continue(p)
    PROVE  NoJobNoPromise' /\ WindowHasCloseTask'
  <1> USE DEF jobVars, bidVars, taskVars, procVars, faultVars
  <1>1. CASE \/ CloseWithNoBids(p) \/ EscalateNoBidder(p)
             \/ WriteAccepted(p) \/ WriteNoBids(p) \/ WriteAward(p)
             \/ WriteReopened(p) \/ WriteJobAssigned(p)
             \/ WriteJobCancelled(p) \/ OfferToLowest(p)
    BY <1>1, ShutKeepsWindow
       DEF CloseWithNoBids, EscalateNoBidder, WriteAccepted, WriteNoBids,
           WriteAward, WriteReopened, WriteJobAssigned, WriteJobCancelled,
           OfferToLowest
  <1>2. CASE \/ FindExistingBid(p) \/ UpdateBid(p) \/ CreateBid(p)
             \/ WriteWithdrawn(p) \/ ScheduleAcceptanceTimeout(p)
             \/ WriteDeclined(p) \/ FindNextBidder(p) \/ OfferToNext(p)
             \/ WriteBookingAssigned(p) \/ WriteBidsDeclined(p)
             \/ WriteBookingCancelled(p)
    <2> USE DEF FindExistingBid, UpdateBid, CreateBid, WriteWithdrawn,
            ScheduleAcceptanceTimeout, WriteDeclined, FindNextBidder,
            OfferToNext, WriteBookingAssigned, WriteBidsDeclined,
            WriteBookingCancelled
    <2>1. UNCHANGED <<jobStatus, autoClose, closeTask, errors, crashes>>
      BY <1>2
    <2>2. pc[p] \notin ClosingSteps
      BY <1>2 DEF ClosingSteps
    <2>3. \A q \in Procs : q # p => pc'[q] = pc[q]
      BY <1>2 DEF WindowInv, TypeOK, Goto, GotoWith, Return
    <2>4. QED BY <2>1, <2>2, <2>3, QuietKeepsWindow
  <1>3. CASE CreateJob(p)
    <2>1. CASE UNCHANGED <<jobStatus, autoClose>> /\ Return(p)
      BY <1>3, <2>1, MoveKeepsWindow DEF CreateJob, ClosingSteps
    <2>2. CASE jobStatus' = "OPEN_FOR_BIDDING" /\ Goto(p, "create.schedule")
      <3>1. pc'[p] = "create.schedule"
        BY <2>2, PlainSteps, GotoType DEF WindowInv
      <3>2. QED BY <2>2, <3>1 DEF NoJobNoPromise, WindowHasCloseTask
    <2>3. CASE jobStatus = "NONE" /\ jobStatus' = "OPEN_FOR_BIDDING"
                /\ UNCHANGED autoClose
      BY <2>3, ShutKeepsWindow DEF WindowInv, NoJobNoPromise
    <2>4. QED BY <1>3, <2>1, <2>2, <2>3 DEF CreateJob
  <1>4. CASE ScheduleBiddingWindowClose(p)
    BY <1>4 DEF ScheduleBiddingWindowClose, WindowInv, NoJobNoPromise,
                WindowHasCloseTask
  <1>5. CASE CancelScheduledClose(p)
    <2>1. CASE UNCHANGED taskVars /\ Return(p)
      BY <1>5, <2>1, MoveKeepsWindow DEF CancelScheduledClose, ClosingSteps
    <2>2. CASE Goto(p, "manual.upsert")
      <3>1. pc'[p] = "manual.upsert"
        BY <2>2, PlainSteps, GotoType DEF WindowInv
      <3>2. QED BY <1>5, <3>1 DEF CancelScheduledClose, WindowInv,
                                  NoJobNoPromise, WindowHasCloseTask
    <2>3. QED BY <1>5, <2>1, <2>2 DEF CancelScheduledClose
  <1>6. CASE UpsertWonBid(p) \/ WriteOthersLost(p)
    <2>1. UNCHANGED <<jobStatus, autoClose, closeTask, errors, crashes>>
      BY <1>6 DEF UpsertWonBid, WriteOthersLost
    <2>2. \E step \in ClosingSteps : step \in PC /\ Goto(p, step)
      BY <1>6, PlainSteps DEF UpsertWonBid, WriteOthersLost, ClosingSteps
    <2>3. /\ pc'[p] \in ClosingSteps
          /\ \A q \in Procs : q # p => pc'[q] = pc[q]
      BY <2>2, GotoType DEF WindowInv
    <2>4. QED BY <2>1, <2>3, QuietKeepsWindow
  <1>7. QED BY <1>1, <1>2, <1>3, <1>4, <1>5, <1>6 DEF Continue

LEMMA WindowInvNext == WindowInv /\ [Next]_vars => WindowInv'
  <1> SUFFICES ASSUME WindowInv, [Next]_vars PROVE WindowInv'
    OBVIOUS
  <1> USE DEF vars, jobVars, procVars, taskVars, faultVars
  <1>1. TypeOK'
    BY NextType DEF WindowInv
  <1>2. NoJobNoPromise' /\ WindowHasCloseTask'
    <2>1. ASSUME NEW p \in Procs,
                 StartRequest(p) \/ StartTask(p) \/ Continue(p)
          PROVE  NoJobNoPromise' /\ WindowHasCloseTask'
      BY <2>1, StartRequestKeepsWindow, StartTaskKeepsWindow,
         ContinueKeepsWindow
    <2>2. CASE BiddingWindowPasses \/ AcceptanceWindowPasses \/ UNCHANGED vars
      BY <2>2, QuietKeepsWindow
         DEF BiddingWindowPasses, AcceptanceWindowPasses
    <2>3. ASSUME NEW p \in Procs, AwaitFails(p)
          PROVE  NoJobNoPromise' /\ WindowHasCloseTask'
      <3>1. errors' = errors + 1 /\ errors \in Nat
        BY <2>3 DEF AwaitFails, WindowInv, TypeOK
      <3>2. QED BY <2>3, <3>1 DEF AwaitFails, WindowInv, NoJobNoPromise,
                                  WindowHasCloseTask, NoFault
    <2>4. CASE Crash
      <3>1. crashes' = crashes + 1 /\ crashes \in Nat
        BY <2>4 DEF Crash, WindowInv, TypeOK
      <3>2. QED BY <2>4, <3>1 DEF Crash, WindowInv, NoJobNoPromise,
                                  WindowHasCloseTask, NoFault
    <2>5. QED BY <2>1, <2>2, <2>3, <2>4 DEF Next
  <1>3. QED BY <1>1, <1>2 DEF WindowInv

\* Without faults a bidding window that was opened with a close task keeps
\* it, or a running handler is about to close the window or assign the job.
THEOREM WindowNeverForgotten == Spec => []WindowHasCloseTask
  <1>1. Init => WindowInv
    <2>1. Init => TypeOK
      BY InitType
    <2>2. Init => NoJobNoPromise /\ WindowHasCloseTask
      BY DEF Init, NoJobNoPromise, WindowHasCloseTask
    <2>3. QED BY <2>1, <2>2 DEF WindowInv
  <1>2. WindowInv /\ [Next]_vars => WindowInv'
    BY WindowInvNext
  <1>3. WindowInv => WindowHasCloseTask
    BY DEF WindowInv
  <1>4. QED BY <1>1, <1>2, <1>3, PTL DEF Spec

----------------------------------------------------------------------------
(* Handlers that do not overlap: the inductive invariant *)

\* At most one handler is running.
Alone == \A p, q \in Procs : pc[p] # "idle" /\ pc[q] # "idle" => p = q

\* What the handler at p has read or written, and nobody has changed since.
Knows(p) ==
    /\ pc[p] \in {"create.auto", "create.manual"} =>
            jobStatus = "NONE" /\ bookingStatus = "PAID"
    /\ pc[p] \in {"bid.find", "bid.update", "bid.create", "withdraw",
                  "award"} =>
            jobStatus = "OPEN_FOR_BIDDING" /\ arg[p].bid \in Operators
    /\ pc[p] \in {"withdraw", "award"} => HasBid(arg[p].bid)
    /\ pc[p] \in {"close.none", "award.none"} =>
            jobStatus = "OPEN_FOR_BIDDING" /\ PendingBids = {}
    /\ pc[p] = "close.offer" =>
            /\ jobStatus = "OPEN_FOR_BIDDING"
            /\ IsLowest(arg[p].bid, PendingBids)
    /\ pc[p] \in {"decline", "accept"} =>
            /\ jobStatus = "PENDING_ACCEPTANCE" /\ offer = arg[p].bid
            /\ arg[p].bid \in Operators
    /\ pc[p] \in {"next.find", "next.none", "next.offer"} =>
            jobStatus = "PENDING_ACCEPTANCE"
    /\ pc[p] = "next.none" => PendingBids = {}
    /\ pc[p] = "next.offer" => IsLowest(arg[p].bid, PendingBids)
    /\ pc[p] = "reopen" => jobStatus = "NO_BIDS_RECEIVED"
    /\ pc[p] \in {"manual.cancelClose", "manual.upsert", "manual.lost",
                  "manual.job"} =>
            jobStatus \notin {"NONE", "ASSIGNED"} /\ arg[p].bid \in Operators
    /\ pc[p] \in {"manual.lost", "manual.job"} => bidStatus[arg[p].bid] = "WON"
    /\ pc[p] = "manual.job" =>
            \A q \in Operators \ {arg[p].bid} :
                bidStatus[q] \notin {"PENDING", "WON"}
    /\ pc[p] = "manual.booking" => jobStatus = "ASSIGNED"
    /\ pc[p] \in {"cancel.job", "cancel.jobOnly"} => jobStatus # "NONE"
    /\ pc[p] = "cancel.bids" => jobStatus = "CANCELLED"
    /\ pc[p] = "cancel.booking" => jobStatus \in {"NONE", "CANCELLED"}

At(steps) == \E p \in Procs : pc[p] \in steps

\* No operator has the job yet.
Unassigned == jobStatus \in {"NONE", "OPEN_FOR_BIDDING", "PENDING_ACCEPTANCE",
                             "NO_BIDS_RECEIVED"}

\* The parts of OneWinner, LowestOffered and BookingFollowsJob, each with
\* the steps between whose writes it does not hold.
WinnerWon ==
    /\ Unassigned => winner = None
    /\ jobStatus = "ASSIGNED" => winner # None
    /\ \/ At({"manual.lost", "manual.job"})
       \/ \A o \in Operators : bidStatus[o] = "WON" <=> o = winner

OfferFirst ==
    \/ jobStatus # "PENDING_ACCEPTANCE"
    \/ At({"next.find", "next.none", "next.offer", "manual.lost",
           "manual.job"})
    \/ \A q \in PendingBids : RanksBefore(offer, q)

StatusesAgree ==
    \/ At({"manual.booking"})
    \/ At({"cancel.bids", "cancel.booking"}) /\ jobStatus = "CANCELLED"
    \/ /\ bookingStatus = "ASSIGNED" <=> jobStatus = "ASSIGNED"
       /\ jobStatus = "CANCELLED" <=>
                bookingStatus = "CANCELLED" /\ jobStatus # "NONE"

RowsAgree == NoFault => WinnerWon /\ OfferFirst /\ StatusesAgree

AloneInv == Alone /\ (\A p \in Procs : Knows(p)) /\ RowsAgree

----------------------------------------------------------------------------
(* The only running handler *)

\* After a step the handler at p is at step and nobody else is running.
Only(p, step) == pc[p] = step /\ \A q \in Procs : q # p => pc[q] = "idle"

LEMMA OnlyAlone ==
    ASSUME NEW p \in Procs, NEW step, Only(p, step)'
    PROVE  Alone'
  BY DEF Only, Alone

\* A handler that does not run knows nothing.
LEMMA IdleKnows ==
    ASSUME NEW q, pc'[q] = "idle"
    PROVE  Knows(q)'
  BY DEF Knows

\* It is enough to look at the running handler.
LEMMA OnlyKnows ==
    ASSUME NEW p \in Procs, NEW step, Only(p, step)', Knows(p)', RowsAgree'
    PROVE  AloneInv'
  <1>1. \A q \in Procs : Knows(q)'
    <2>1. ASSUME NEW q \in Procs PROVE Knows(q)'
      <3>1. CASE q = p BY <3>1
      <3>2. CASE q # p
        <4>1. pc'[q] = "idle" BY <3>2 DEF Only
        <4>2. QED BY <4>1, IdleKnows
      <3>3. QED BY <3>1, <3>2
    <2>2. QED BY <2>1
  <1>2. Alone' BY OnlyAlone
  <1>3. QED BY <1>1, <1>2 DEF AloneInv

LEMMA OnlyAt ==
    ASSUME NEW p \in Procs, Only(p, pc[p]), NEW steps, "idle" \notin steps
    PROVE  At(steps) <=> pc[p] \in steps
  BY DEF Only, At

LEMMA OnlyAtNext ==
    ASSUME NEW p \in Procs, NEW step, Only(p, step)', NEW steps,
           "idle" \notin steps
    PROVE  At(steps)' <=> step \in steps
  BY DEF Only, At

\* While a handler runs the others do not.
LEMMA RunningIsOnly ==
    ASSUME Alone, NEW p \in Procs, pc[p] # "idle"
    PROVE  Only(p, pc[p])
  BY DEF Alone, Only

LEMMA GotoOnly ==
    ASSUME TypeOK, NEW p \in Procs, NEW step \in PC, Only(p, pc[p]),
           Goto(p, step)
    PROVE  Only(p, step)' /\ arg' = arg
  BY GotoType DEF Only

LEMMA GotoWithOnly ==
    ASSUME TypeOK, NEW p \in Procs, NEW step \in PC, NEW a \in Arg,
           Only(p, pc[p]), GotoWith(p, step, a)
    PROVE  Only(p, step)' /\ arg'[p] = a
  BY GotoWithType DEF Only

LEMMA ReturnOnly ==
    ASSUME TypeOK, NEW p \in Procs, Only(p, pc[p]), Return(p)
    PROVE  Only(p, "idle")'
  BY ReturnType DEF Only


\* When no handler runs, all the rows agree.
LEMMA IdleRows ==
    ASSUME AloneInv, Idle, NoFault
    PROVE  /\ Unassigned => winner = None
           /\ jobStatus = "ASSIGNED" => winner # None
           /\ \A o \in Operators : bidStatus[o] = "WON" <=> o = winner
           /\ jobStatus = "PENDING_ACCEPTANCE" =>
                    \A q \in PendingBids : RanksBefore(offer, q)
           /\ bookingStatus = "ASSIGNED" <=> jobStatus = "ASSIGNED"
           /\ jobStatus = "CANCELLED" <=>
                    bookingStatus = "CANCELLED" /\ jobStatus # "NONE"
  <1>1. ~At({"manual.lost", "manual.job"})
    BY DEF Idle, At
  <1>2. ~At({"next.find", "next.none", "next.offer", "manual.lost",
             "manual.job"})
    BY DEF Idle, At
  <1>3. ~At({"manual.booking"}) /\ ~At({"cancel.bids", "cancel.booking"})
    BY DEF Idle, At
  <1>4. QED BY <1>1, <1>2, <1>3
            DEF AloneInv, RowsAgree, WinnerWon, OfferFirst, StatusesAgree

\* What a handler's first step leaves alone; only the queues may change.
Rows == <<jobVars, bidVars, bookingStatus, faultVars>>

\* The first step of a handler: it is enough that it knows what it read.
LEMMA StartStep ==
    ASSUME AloneInv, Idle, NEW p \in Procs, NEW step, Only(p, step)',
           UNCHANGED Rows, Knows(p)'
    PROVE  AloneInv'
  <1> USE DEF Rows, jobVars, bidVars, faultVars
  <1>1. ASSUME NoFault'
        PROVE  (WinnerWon /\ OfferFirst /\ StatusesAgree)'
    <2>1. NoFault BY <1>1 DEF NoFault
    <2>2. WinnerWon' BY <2>1, IdleRows DEF WinnerWon, Unassigned
    <2>3. OfferFirst'
      BY <2>1, IdleRows DEF OfferFirst, PendingBids, RanksBefore
    <2>4. StatusesAgree' BY <2>1, IdleRows DEF StatusesAgree
    <2>5. QED BY <2>2, <2>3, <2>4
  <1>2. RowsAgree' BY <1>1 DEF RowsAgree
  <1>3. QED BY <1>2, OnlyKnows

\* A free process may start only when nobody runs.
LEMMA FreeIsIdle ==
    ASSUME ~Overlap, NEW p \in Procs, Free(p)
    PROVE  Idle /\ Only(p, pc[p]) /\ pc[p] = "idle"
  BY DEF Free, Idle, Only

----------------------------------------------------------------------------
(* First steps *)

LEMMA StartRequestAlone ==
    ASSUME ~Overlap, TypeOK, AloneInv, NEW p \in Procs, StartRequest(p)
    PROVE  AloneInv'
  <1> USE DEF Rows, jobVars, bidVars, faultVars, Request
  <1>a. Idle /\ Only(p, pc[p])
    BY FreeIsIdle DEF StartRequest, CreateJobForBooking, CreateFromBooking,
       PlaceBid, WithdrawBid, DeclineJobOffer, AcceptJobOffer, AwardNow,
       ReopenBidding, ManualJobAssignment, CancelBooking
  <1>b. ASSUME NEW step \in PC, Goto(p, step), UNCHANGED Rows, Knows(p)'
        PROVE  AloneInv'
    <2>1. Only(p, step)' BY <1>a, <1>b, GotoOnly
    <2>2. QED BY <1>a, <1>b, <2>1, StartStep
  <1>c. ASSUME NEW step \in PC, NEW a \in Arg, GotoWith(p, step, a),
               UNCHANGED Rows, Knows(p)'
        PROVE  AloneInv'
    <2>1. Only(p, step)' BY <1>a, <1>c, GotoWithOnly
    <2>2. QED BY <1>a, <1>c, <2>1, StartStep
  <1>1. CASE CreateJobForBooking(p)
    <2>1. "create.auto" \in PC BY DEF PC
    <2>2. pc'[p] = "create.auto"
      BY <1>1, <2>1, GotoType DEF CreateJobForBooking
    <2>3. Knows(p)' BY <1>1, <2>2 DEF CreateJobForBooking, Knows
    <2>4. QED BY <1>1, <2>1, <2>3, <1>b DEF CreateJobForBooking
  <1>2. CASE CreateFromBooking(p)
    <2>1. "create.manual" \in PC BY DEF PC
    <2>2. pc'[p] = "create.manual"
      BY <1>2, <2>1, GotoType DEF CreateFromBooking
    <2>3. Knows(p)' BY <1>2, <2>2 DEF CreateFromBooking, Knows
    <2>4. QED BY <1>2, <2>1, <2>3, <1>b DEF CreateFromBooking
  <1>3. ASSUME NEW o \in Operators, NEW a \in Amounts, PlaceBid(p, o, a)
        PROVE  AloneInv'
    <2> DEFINE read == [NoArg EXCEPT !.bid = o, !.amount = a]
    <2>1. "bid.find" \in PC /\ a \in Nat
      BY AuctionAssumption DEF PC, AuctionAssumption
    <2>2. read \in Arg /\ read.bid = o
      BY <2>1, ArgType DEF NoArg
    <2>3. GotoWith(p, "bid.find", read) BY <1>3 DEF PlaceBid
    <2> HIDE DEF read
    <2>4. pc'[p] = "bid.find" /\ arg'[p] = read
      BY <2>1, <2>2, <2>3, GotoWithType
    <2>5. Knows(p)' BY <1>3, <2>2, <2>4 DEF PlaceBid, Knows
    <2>6. QED BY <1>3, <2>1, <2>2, <2>3, <2>5, <1>c DEF PlaceBid
  <1>4. ASSUME NEW o \in Operators, WithdrawBid(p, o)
        PROVE  AloneInv'
    <2> DEFINE read == [NoArg EXCEPT !.bid = o]
    <2>1. "withdraw" \in PC BY DEF PC
    <2>2. read \in Arg /\ read.bid = o BY ArgType DEF NoArg
    <2>3. GotoWith(p, "withdraw", read) BY <1>4 DEF WithdrawBid
    <2> HIDE DEF read
    <2>4. pc'[p] = "withdraw" /\ arg'[p] = read
      BY <2>1, <2>2, <2>3, GotoWithType
    <2>5. Knows(p)' BY <1>4, <2>2, <2>4 DEF WithdrawBid, Knows, HasBid
    <2>6. QED BY <1>4, <2>1, <2>2, <2>3, <2>5, <1>c DEF WithdrawBid
  <1>5. ASSUME NEW o \in Operators, DeclineJobOffer(p, o)
        PROVE  AloneInv'
    <2> DEFINE read == [NoArg EXCEPT !.bid = o]
    <2>1. "decline" \in PC BY DEF PC, PassPCs
    <2>2. read \in Arg /\ read.bid = o BY ArgType DEF NoArg
    <2>3. GotoWith(p, "decline", read) BY <1>5 DEF DeclineJobOffer
    <2> HIDE DEF read
    <2>4. pc'[p] = "decline" /\ arg'[p] = read
      BY <2>1, <2>2, <2>3, GotoWithType
    <2>5. Knows(p)'
      BY <1>5, <2>2, <2>4 DEF DeclineJobOffer, IsCurrentOffer, Knows
    <2>6. QED BY <1>5, <2>1, <2>2, <2>3, <2>5, <1>c DEF DeclineJobOffer
  <1>6. ASSUME NEW o \in Operators, AcceptJobOffer(p, o)
        PROVE  AloneInv'
    <2> DEFINE read == [NoArg EXCEPT !.bid = o]
    <2>1. "accept" \in PC BY DEF PC
    <2>2. read \in Arg /\ read.bid = o BY ArgType DEF NoArg
    <2>3. GotoWith(p, "accept", read) BY <1>6 DEF AcceptJobOffer
    <2> HIDE DEF read
    <2>4. pc'[p] = "accept" /\ arg'[p] = read
      BY <2>1, <2>2, <2>3, GotoWithType
    <2>5. Knows(p)'
      BY <1>6, <2>2, <2>4 DEF AcceptJobOffer, IsCurrentOffer, Knows
    <2>6. QED BY <1>6, <2>1, <2>2, <2>3, <2>5, <1>c DEF AcceptJobOffer
  <1>7. CASE AwardNow(p)
    <2> DEFINE submitted == {o \in Operators : HasBid(o)}
    <2>1. "award" \in PC /\ "award.none" \in PC BY DEF PC
    <2>2. CASE submitted = {} /\ Goto(p, "award.none")
      <3>1. pc'[p] = "award.none" BY <2>1, <2>2, GotoType
      <3>2. PendingBids = {} BY <2>2 DEF HasBid, PendingBids
      <3>3. Knows(p)'
        BY <1>7, <3>1, <3>2 DEF AwardNow, Knows, PendingBids
      <3>4. QED BY <1>7, <2>1, <2>2, <3>3, <1>b DEF AwardNow
    <2>3. ASSUME NEW o \in submitted,
                 GotoWith(p, "award", [NoArg EXCEPT !.bid = o])
          PROVE  AloneInv'
      <3> DEFINE read == [NoArg EXCEPT !.bid = o]
      <3>1. read \in Arg /\ read.bid = o BY ArgType DEF NoArg
      <3>2. GotoWith(p, "award", read) BY <2>3
      <3> HIDE DEF read
      <3>3. pc'[p] = "award" /\ arg'[p] = read
        BY <2>1, <3>1, <3>2, GotoWithType
      <3>4. Knows(p)' BY <1>7, <3>1, <3>3 DEF AwardNow, Knows, HasBid
      <3>5. QED BY <1>7, <2>1, <3>1, <3>2, <3>4, <1>c DEF AwardNow
    <2>4. QED BY <1>7, <2>2, <2>3 DEF AwardNow, IsBestReputed
  <1>8. CASE ReopenBidding(p)
    <2>1. "reopen" \in PC BY DEF PC
    <2>2. pc'[p] = "reopen" BY <1>8, <2>1, GotoType DEF ReopenBidding
    <2>3. Knows(p)' BY <1>8, <2>2 DEF ReopenBidding, Knows
    <2>4. QED BY <1>8, <2>1, <2>3, <1>b DEF ReopenBidding
  <1>9. ASSUME NEW o \in Operators, NEW a \in Amounts,
               ManualJobAssignment(p, o, a)
        PROVE  AloneInv'
    <2> DEFINE next == IF jobStatus = "OPEN_FOR_BIDDING"
                       THEN "manual.cancelClose" ELSE "manual.upsert"
               read == [NoArg EXCEPT !.bid = o, !.amount = a]
    <2>1. next \in {"manual.cancelClose", "manual.upsert"}
      OBVIOUS
    <2>2. next \in PC /\ a \in Nat
      BY AuctionAssumption DEF PC, AuctionAssumption
    <2>3. read \in Arg /\ read.bid = o
      BY <2>2, ArgType DEF NoArg
    <2>4. GotoWith(p, next, read) BY <1>9 DEF ManualJobAssignment
    <2> HIDE DEF read, next
    <2>5. pc'[p] = next /\ arg'[p] = read
      BY <2>2, <2>3, <2>4, GotoWithType
    <2>6. Knows(p)' BY <1>9, <2>1, <2>3, <2>5 DEF ManualJobAssignment, Knows
    <2>7. QED BY <1>9, <2>2, <2>3, <2>4, <2>6, <1>c DEF ManualJobAssignment
  <1>10. CASE CancelBooking(p)
    <2> DEFINE next == IF jobStatus = "NONE" THEN "cancel.booking"
                       ELSE IF BidsSubmitted = 0 THEN "cancel.jobOnly"
                       ELSE "cancel.job"
    <2>1. next \in PC BY DEF PC
    <2>2. Goto(p, next) BY <1>10 DEF CancelBooking
    <2>3. pc'[p] = next BY <2>1, <2>2, GotoType
    <2>4. Knows(p)' BY <1>10, <2>3 DEF CancelBooking, Knows
    <2>5. QED BY <1>10, <2>1, <2>2, <2>4, <1>b DEF CancelBooking
  <1>11. QED BY <1>1, <1>2, <1>3, <1>4, <1>5, <1>6, <1>7, <1>8, <1>9, <1>10
             DEF StartRequest

LEMMA StartTaskAlone ==
    ASSUME ~Overlap, TypeOK, AloneInv, NEW p \in Procs, StartTask(p)
    PROVE  AloneInv'
  <1> USE DEF Rows, jobVars, bidVars, faultVars
  <1>a. Idle /\ Only(p, pc[p]) /\ pc[p] = "idle" /\ UNCHANGED Rows
    BY FreeIsIdle DEF StartTask, CloseBidding, AcceptanceTimeout
  <1>b. CASE UNCHANGED procVars
    <2>1. Only(p, "idle")' BY <1>a, <1>b DEF procVars, Only
    <2>2. Knows(p)' BY <2>1, IdleKnows DEF Only
    <2>3. QED BY <1>a, <2>1, <2>2, StartStep
  <1>1. CASE CloseBidding(p)
    <2>1. "close.none" \in PC /\ "close.offer" \in PC BY DEF PC, ClosePCs
    <2>2. CASE /\ jobStatus = "OPEN_FOR_BIDDING" /\ PendingBids = {}
               /\ Goto(p, "close.none")
      <3>1. Only(p, "close.none")' BY <1>a, <2>1, <2>2, GotoOnly
      <3>2. pc'[p] = "close.none" BY <2>1, <2>2, GotoType
      <3>3. Knows(p)' BY <1>a, <2>2, <3>2 DEF Knows, PendingBids
      <3>4. QED BY <1>a, <3>1, <3>3, StartStep
    <2>3. ASSUME jobStatus = "OPEN_FOR_BIDDING", NEW o \in Operators,
                 IsLowest(o, PendingBids),
                 GotoWith(p, "close.offer", [NoArg EXCEPT !.bid = o])
          PROVE  AloneInv'
      <3> DEFINE read == [NoArg EXCEPT !.bid = o]
      <3>1. read \in Arg /\ read.bid = o BY ArgType DEF NoArg
      <3>2. GotoWith(p, "close.offer", read) BY <2>3
      <3> HIDE DEF read
      <3>3. Only(p, "close.offer")' BY <1>a, <2>1, <3>1, <3>2, GotoWithOnly
      <3>4. pc'[p] = "close.offer" /\ arg'[p] = read
        BY <2>1, <3>1, <3>2, GotoWithType
      <3>5. IsLowest(o, PendingBids)'
        BY <1>a, <2>3 DEF IsLowest, PendingBids, RanksBefore
      <3>6. Knows(p)' BY <1>a, <2>3, <3>1, <3>4, <3>5 DEF Knows
      <3>7. QED BY <1>a, <3>3, <3>6, StartStep
    <2>4. QED BY <1>1, <1>b, <2>2, <2>3 DEF CloseBidding
  <1>2. ASSUME NEW o \in Operators, AcceptanceTimeout(p, o)
        PROVE  AloneInv'
    <2>1. CASE /\ IsCurrentOffer(o)
               /\ GotoWith(p, "decline", [NoArg EXCEPT !.bid = o, !.timer = o])
      <3> DEFINE read == [NoArg EXCEPT !.bid = o, !.timer = o]
      <3>1. "decline" \in PC BY DEF PC, PassPCs
      <3>2. read \in Arg /\ read.bid = o BY ArgType DEF NoArg
      <3>3. GotoWith(p, "decline", read) BY <2>1
      <3> HIDE DEF read
      <3>4. Only(p, "decline")' BY <1>a, <3>1, <3>2, <3>3, GotoWithOnly
      <3>5. pc'[p] = "decline" /\ arg'[p] = read
        BY <3>1, <3>2, <3>3, GotoWithType
      <3>6. Knows(p)' BY <1>a, <2>1, <3>2, <3>5 DEF IsCurrentOffer, Knows
      <3>7. QED BY <1>a, <3>4, <3>6, StartStep
    <2>2. QED BY <1>2, <1>b, <2>1 DEF AcceptanceTimeout
  <1>3. QED BY <1>1, <1>2 DEF StartTask

----------------------------------------------------------------------------
(* Further steps *)

\* RowsAgree, when the only handler that runs is at step.
RowsAt(step) ==
    /\ Unassigned => winner = None
    /\ jobStatus = "ASSIGNED" => winner # None
    /\ \/ step \in {"manual.lost", "manual.job"}
       \/ \A o \in Operators : bidStatus[o] = "WON" <=> o = winner
    /\ \/ jobStatus # "PENDING_ACCEPTANCE"
       \/ step \in {"next.find", "next.none", "next.offer", "manual.lost",
                    "manual.job"}
       \/ \A q \in PendingBids : RanksBefore(offer, q)
    /\ \/ step = "manual.booking"
       \/ step \in {"cancel.bids", "cancel.booking"} /\ jobStatus = "CANCELLED"
       \/ /\ bookingStatus = "ASSIGNED" <=> jobStatus = "ASSIGNED"
          /\ jobStatus = "CANCELLED" <=>
                bookingStatus = "CANCELLED" /\ jobStatus # "NONE"

LEMMA RowsBefore ==
    ASSUME AloneInv, NEW p \in Procs, Only(p, pc[p]), NoFault
    PROVE  RowsAt(pc[p])
  <1>1. At({"manual.lost", "manual.job"}) <=>
            pc[p] \in {"manual.lost", "manual.job"}
    BY OnlyAt
  <1>2. At({"next.find", "next.none", "next.offer", "manual.lost",
            "manual.job"})
        <=> pc[p] \in {"next.find", "next.none", "next.offer",
                       "manual.lost", "manual.job"}
    BY OnlyAt
  <1>3. At({"manual.booking"}) <=> pc[p] = "manual.booking"
    BY OnlyAt
  <1>4. At({"cancel.bids", "cancel.booking"}) <=>
            pc[p] \in {"cancel.bids", "cancel.booking"}
    BY OnlyAt
  <1>5. WinnerWon /\ OfferFirst /\ StatusesAgree
    BY DEF AloneInv, RowsAgree
  <1>6. QED BY <1>1, <1>2, <1>3, <1>4, <1>5
            DEF WinnerWon, OfferFirst, StatusesAgree, RowsAt

LEMMA RowsAfter ==
    ASSUME NEW p \in Procs, NEW step, Only(p, step)', RowsAt(step)'
    PROVE  RowsAgree'
  <1>1. At({"manual.lost", "manual.job"})' <=>
            step \in {"manual.lost", "manual.job"}
    BY OnlyAtNext
  <1>2. At({"next.find", "next.none", "next.offer", "manual.lost",
            "manual.job"})'
        <=> step \in {"next.find", "next.none", "next.offer",
                      "manual.lost", "manual.job"}
    BY OnlyAtNext
  <1>3. At({"manual.booking"})' <=> step = "manual.booking"
    BY OnlyAtNext
  <1>4. At({"cancel.bids", "cancel.booking"})' <=>
            step \in {"cancel.bids", "cancel.booking"}
    BY OnlyAtNext
  <1>5. WinnerWon' BY <1>1 DEF RowsAt, WinnerWon, Unassigned
  <1>6. OfferFirst' BY <1>2 DEF RowsAt, OfferFirst
  <1>7. StatusesAgree' BY <1>3, <1>4 DEF RowsAt, StatusesAgree
  <1>8. QED BY <1>5, <1>6, <1>7 DEF RowsAgree

\* A step of the only running handler, without a fault.
LEMMA ContinueStep ==
    ASSUME AloneInv, NEW p \in Procs, Only(p, pc[p]), UNCHANGED faultVars,
           NEW step, Only(p, step)', Knows(p)',
           RowsAt(pc[p]) => RowsAt(step)'
    PROVE  AloneInv'
  <1>1. RowsAgree'
    <2>1. CASE NoFault
      <3>1. RowsAt(pc[p]) BY <2>1, RowsBefore
      <3>2. QED BY <3>1, RowsAfter
    <2>2. CASE ~NoFault
      <3>1. ~NoFault' BY <2>2 DEF NoFault, faultVars
      <3>2. QED BY <3>1 DEF RowsAgree
    <2>3. QED BY <2>1, <2>2
  <1>2. QED BY <1>1, OnlyKnows

\* The same for the last step of a handler, which then knows nothing.
LEMMA LastStep ==
    ASSUME TypeOK, AloneInv, NEW p \in Procs, Only(p, pc[p]),
           UNCHANGED faultVars, Return(p), RowsAt(pc[p]) => RowsAt("idle")'
    PROVE  AloneInv'
  <1>1. Only(p, "idle")' BY ReturnOnly
  <1>2. Knows(p)' BY <1>1, IdleKnows DEF Only
  <1>3. QED BY <1>1, <1>2, ContinueStep

LEMMA ContinueAlone ==
    ASSUME TypeOK, AloneInv, NEW p \in Procs, Continue(p)
    PROVE  AloneInv'
  <1> USE DEF jobVars, bidVars, taskVars, faultVars
  <1>a. pc[p] # "idle"
    BY DEF Continue, CreateJob, ScheduleBiddingWindowClose, FindExistingBid,
       UpdateBid, CreateBid, WriteWithdrawn, CloseWithNoBids, OfferToLowest,
       ScheduleAcceptanceTimeout, WriteDeclined, FindNextBidder,
       EscalateNoBidder, OfferToNext, WriteAccepted, WriteNoBids, WriteAward,
       WriteReopened, CancelScheduledClose, UpsertWonBid, WriteOthersLost,
       WriteJobAssigned, WriteBookingAssigned, WriteJobCancelled,
       WriteBidsDeclined, WriteBookingCancelled
  <1>b. Only(p, pc[p]) BY <1>a, RunningIsOnly DEF AloneInv
  <1>c. Knows(p) BY DEF AloneInv
  <1>d. /\ jobStatus \in JobStatus
        /\ bidStatus \in [Operators -> BidStatus] /\ None \notin Operators
    BY AuctionAssumption DEF TypeOK, AuctionAssumption
  <1>e. UNCHANGED faultVars
    BY DEF Continue, CreateJob, ScheduleBiddingWindowClose, FindExistingBid,
       UpdateBid, CreateBid, WriteWithdrawn, CloseWithNoBids, OfferToLowest,
       ScheduleAcceptanceTimeout, WriteDeclined, FindNextBidder,
       EscalateNoBidder, OfferToNext, WriteAccepted, WriteNoBids, WriteAward,
       WriteReopened, CancelScheduledClose, UpsertWonBid, WriteOthersLost,
       WriteJobAssigned, WriteBookingAssigned, WriteJobCancelled,
       WriteBidsDeclined, WriteBookingCancelled
  <1>f. ASSUME Return(p), RowsAt(pc[p]) => RowsAt("idle")'
        PROVE  AloneInv'
    BY <1>b, <1>e, <1>f, LastStep
  <1>g. ASSUME NEW step \in PC, Goto(p, step), Knows(p)',
               RowsAt(pc[p]) => RowsAt(step)'
        PROVE  AloneInv'
    <2>1. Only(p, step)' BY <1>b, <1>g, GotoOnly
    <2>2. QED BY <1>b, <1>e, <1>g, <2>1, ContinueStep
  <1>1. CASE CreateJob(p)
    <2>1. jobStatus = "NONE" /\ bookingStatus = "PAID"
      BY <1>1, <1>c DEF CreateJob, Knows
    <2>2. CASE Return(p)
      <3>1. RowsAt(pc[p]) => RowsAt("idle")'
        BY <1>1, <2>1 DEF CreateJob, RowsAt, Unassigned
      <3>2. QED BY <2>2, <3>1, <1>f
    <2>3. CASE Goto(p, "create.schedule")
      <3>1. "create.schedule" \in PC BY DEF PC
      <3>2. pc'[p] = "create.schedule" BY <2>3, <3>1, GotoType
      <3>3. Knows(p)' BY <3>2 DEF Knows
      <3>4. RowsAt(pc[p]) => RowsAt("create.schedule")'
        BY <1>1, <2>1 DEF CreateJob, RowsAt, Unassigned
      <3>5. QED BY <2>3, <3>1, <3>3, <3>4, <1>g
    <2>4. QED BY <1>1, <2>2, <2>3 DEF CreateJob
  <1>2. CASE ScheduleBiddingWindowClose(p)
    <2>1. RowsAt(pc[p]) => RowsAt("idle")'
      BY <1>2 DEF ScheduleBiddingWindowClose, RowsAt, Unassigned,
                  PendingBids, RanksBefore
    <2>2. QED BY <1>2, <2>1, <1>f DEF ScheduleBiddingWindowClose
  <1>3. CASE FindExistingBid(p)
    <2>1. ASSUME NEW step \in {"bid.update", "bid.create"}, Goto(p, step)
          PROVE  AloneInv'
      <3>1. step \in PC BY DEF PC
      <3>2. pc'[p] = step /\ arg' = arg BY <2>1, <3>1, GotoType
      <3>3. Knows(p)' BY <1>3, <1>c, <3>2 DEF FindExistingBid, Knows
      <3>4. RowsAt(pc[p]) => RowsAt(step)'
        BY <1>3 DEF FindExistingBid, RowsAt, Unassigned, PendingBids,
                    RanksBefore
      <3>5. QED BY <2>1, <3>1, <3>3, <3>4, <1>g
    <2>2. QED BY <1>3, <2>1 DEF FindExistingBid
  <1>4. CASE UpdateBid(p)
    <2>1. jobStatus = "OPEN_FOR_BIDDING" BY <1>4, <1>c DEF UpdateBid, Knows
    <2>2. RowsAt(pc[p]) => RowsAt("idle")'
      BY <1>4, <2>1 DEF UpdateBid, RowsAt, Unassigned
    <2>3. QED BY <1>4, <2>2, <1>f DEF UpdateBid
  <1>5. CASE CreateBid(p)
    <2>1. jobStatus = "OPEN_FOR_BIDDING" BY <1>5, <1>c DEF CreateBid, Knows
    <2>2. RowsAt(pc[p]) => RowsAt("idle")'
      <3>1. CASE UNCHANGED bidVars
        BY <1>5, <2>1, <3>1 DEF CreateBid, RowsAt, Unassigned
      <3>2. CASE ~HasBid(arg[p].bid) /\ SetBid(arg[p].bid, "PENDING")
        BY <1>5, <1>d, <2>1, <3>2
           DEF CreateBid, RowsAt, Unassigned, SetBid, HasBid
      <3>3. QED BY <1>5, <3>1, <3>2 DEF CreateBid
    <2>3. QED BY <1>5, <2>2, <1>f DEF CreateBid
  <1>6. CASE WriteWithdrawn(p)
    <2>1. jobStatus = "OPEN_FOR_BIDDING" BY <1>6, <1>c DEF WriteWithdrawn, Knows
    <2>2. RowsAt(pc[p]) => RowsAt("idle")'
      BY <1>6, <1>d, <2>1 DEF WriteWithdrawn, RowsAt, Unassigned, SetBid
    <2>3. QED BY <1>6, <2>2, <1>f DEF WriteWithdrawn
  <1>7. CASE CloseWithNoBids(p)
    <2>1. jobStatus = "OPEN_FOR_BIDDING"
      BY <1>7, <1>c DEF CloseWithNoBids, Knows
    <2>2. RowsAt(pc[p]) => RowsAt("idle")'
      BY <1>7, <2>1 DEF CloseWithNoBids, RowsAt, Unassigned
    <2>3. QED BY <1>7, <2>2, <1>f DEF CloseWithNoBids
  <1>8. CASE OfferToLowest(p)
    <2>1. jobStatus = "OPEN_FOR_BIDDING" /\ IsLowest(arg[p].bid, PendingBids)
      BY <1>8, <1>c DEF OfferToLowest, Knows
    <2>2. "close.schedule" \in PC BY DEF PC, ClosePCs
    <2>3. pc'[p] = "close.schedule" BY <1>8, <2>2, GotoType DEF OfferToLowest
    <2>4. Knows(p)' BY <2>3 DEF Knows
    <2>5. \A q \in PendingBids' : RanksBefore(offer, q)'
      BY <1>8, <1>d, <2>1
         DEF OfferToLowest, IsLowest, PendingBids, RanksBefore, SetBid
    <2>6. RowsAt(pc[p]) => RowsAt("close.schedule")'
      BY <1>8, <1>d, <2>1, <2>5
         DEF OfferToLowest, RowsAt, Unassigned, SetBid
    <2>7. QED BY <1>8, <2>2, <2>4, <2>6, <1>g DEF OfferToLowest
  <1>9. CASE ScheduleAcceptanceTimeout(p)
    <2>1. RowsAt(pc[p]) => RowsAt("idle")'
      BY <1>9 DEF ScheduleAcceptanceTimeout, RowsAt, Unassigned, PendingBids,
                  RanksBefore
    <2>2. QED BY <1>9, <2>1, <1>f DEF ScheduleAcceptanceTimeout
  <1>10. CASE WriteDeclined(p)
    <2>1. jobStatus = "PENDING_ACCEPTANCE" BY <1>10, <1>c DEF WriteDeclined, Knows
    <2>2. "next.find" \in PC BY DEF PC, PassPCs
    <2>3. pc'[p] = "next.find" BY <1>10, <2>2, GotoType DEF WriteDeclined
    <2>4. Knows(p)' BY <1>10, <2>1, <2>3 DEF WriteDeclined, Knows
    <2>5. RowsAt(pc[p]) => RowsAt("next.find")'
      BY <1>10, <1>d, <2>1 DEF WriteDeclined, RowsAt, Unassigned, SetBid
    <2>6. QED BY <1>10, <2>2, <2>4, <2>5, <1>g DEF WriteDeclined
  <1>11. CASE FindNextBidder(p)
    <2>1. jobStatus = "PENDING_ACCEPTANCE"
      BY <1>11, <1>c DEF FindNextBidder, Knows
    <2>2. "next.none" \in PC /\ "next.offer" \in PC BY DEF PC, PassPCs
    <2>3. \A step \in {"next.none", "next.offer"} :
                RowsAt(pc[p]) => RowsAt(step)'
      BY <1>11 DEF FindNextBidder, RowsAt, Unassigned
    <2>4. CASE PendingBids = {} /\ Goto(p, "next.none")
      <3>1. pc'[p] = "next.none" BY <2>2, <2>4, GotoType
      <3>2. Knows(p)'
        BY <1>11, <2>1, <2>4, <3>1 DEF FindNextBidder, Knows, PendingBids
      <3>3. QED BY <2>2, <2>3, <2>4, <3>2, <1>g
    <2>5. ASSUME NEW o \in Operators, IsLowest(o, PendingBids),
                 GotoWith(p, "next.offer", [arg[p] EXCEPT !.bid = o])
          PROVE  AloneInv'
      <3> DEFINE read == [arg[p] EXCEPT !.bid = o]
      <3>1. read \in Arg /\ read.bid = o BY DEF TypeOK, Arg, OperatorOrNone
      <3>2. GotoWith(p, "next.offer", read) BY <2>5
      <3> HIDE DEF read
      <3>3. Only(p, "next.offer")' BY <1>b, <2>2, <3>1, <3>2, GotoWithOnly
      <3>4. pc'[p] = "next.offer" /\ arg'[p] = read
        BY <2>2, <3>1, <3>2, GotoWithType
      <3>5. IsLowest(o, PendingBids)'
        BY <1>11, <2>5 DEF FindNextBidder, IsLowest, PendingBids, RanksBefore
      <3>6. Knows(p)'
        BY <1>11, <2>1, <3>1, <3>4, <3>5 DEF FindNextBidder, Knows
      <3>7. QED BY <1>b, <1>e, <2>3, <3>3, <3>6, ContinueStep
    <2>6. QED BY <1>11, <2>4, <2>5 DEF FindNextBidder
  <1>12. CASE EscalateNoBidder(p)
    <2>1. jobStatus = "PENDING_ACCEPTANCE"
      BY <1>12, <1>c DEF EscalateNoBidder, Knows
    <2>2. RowsAt(pc[p]) => RowsAt("idle")'
      BY <1>12, <2>1 DEF EscalateNoBidder, RowsAt, Unassigned
    <2>3. QED BY <1>12, <2>2, <1>f DEF EscalateNoBidder
  <1>13. CASE OfferToNext(p)
    <2>1. /\ jobStatus = "PENDING_ACCEPTANCE"
          /\ IsLowest(arg[p].bid, PendingBids)
      BY <1>13, <1>c DEF OfferToNext, Knows
    <2>2. "next.schedule" \in PC BY DEF PC
    <2>3. pc'[p] = "next.schedule" BY <1>13, <2>2, GotoType DEF OfferToNext
    <2>4. Knows(p)' BY <2>3 DEF Knows
    <2>5. \A q \in PendingBids' : RanksBefore(offer, q)'
      BY <1>13, <1>d, <2>1
         DEF OfferToNext, IsLowest, PendingBids, RanksBefore, SetBid
    <2>6. RowsAt(pc[p]) => RowsAt("next.schedule")'
      BY <1>13, <1>d, <2>1, <2>5
         DEF OfferToNext, RowsAt, Unassigned, SetBid
    <2>7. QED BY <1>13, <2>2, <2>4, <2>6, <1>g DEF OfferToNext
  <1>14. CASE WriteAccepted(p)
    <2>1. jobStatus = "PENDING_ACCEPTANCE" /\ arg[p].bid \in Operators
      BY <1>14, <1>c DEF WriteAccepted, Knows
    <2>2. RowsAt(pc[p]) => RowsAt("idle")'
      BY <1>14, <1>d, <2>1 DEF WriteAccepted, RowsAt, Unassigned, BidsWonBy
    <2>3. QED BY <1>14, <2>2, <1>f DEF WriteAccepted
  <1>15. CASE WriteNoBids(p)
    <2>1. jobStatus = "OPEN_FOR_BIDDING" BY <1>15, <1>c DEF WriteNoBids, Knows
    <2>2. RowsAt(pc[p]) => RowsAt("idle")'
      BY <1>15, <2>1 DEF WriteNoBids, RowsAt, Unassigned
    <2>3. QED BY <1>15, <2>2, <1>f DEF WriteNoBids
  <1>16. CASE WriteAward(p)
    <2>1. jobStatus = "OPEN_FOR_BIDDING" /\ arg[p].bid \in Operators
      BY <1>16, <1>c DEF WriteAward, Knows
    <2>2. RowsAt(pc[p]) => RowsAt("idle")'
      BY <1>16, <1>d, <2>1 DEF WriteAward, RowsAt, Unassigned, BidsWonBy
    <2>3. QED BY <1>16, <2>2, <1>f DEF WriteAward
  <1>17. CASE WriteReopened(p)
    <2>1. jobStatus = "NO_BIDS_RECEIVED" BY <1>17, <1>c DEF WriteReopened, Knows
    <2>2. RowsAt(pc[p]) => RowsAt("idle")'
      BY <1>17, <2>1 DEF WriteReopened, RowsAt, Unassigned
    <2>3. QED BY <1>17, <2>2, <1>f DEF WriteReopened
  <1>18. CASE CancelScheduledClose(p)
    <2>1. CASE Return(p)
      <3>1. RowsAt(pc[p]) => RowsAt("idle")'
        BY <1>18 DEF CancelScheduledClose, RowsAt, Unassigned, PendingBids,
                     RanksBefore
      <3>2. QED BY <2>1, <3>1, <1>f
    <2>2. CASE Goto(p, "manual.upsert")
      <3>1. "manual.upsert" \in PC BY DEF PC
      <3>2. pc'[p] = "manual.upsert" /\ arg' = arg BY <2>2, <3>1, GotoType
      <3>3. Knows(p)' BY <1>18, <1>c, <3>2 DEF CancelScheduledClose, Knows
      <3>4. RowsAt(pc[p]) => RowsAt("manual.upsert")'
        BY <1>18 DEF CancelScheduledClose, RowsAt, Unassigned, PendingBids,
                     RanksBefore
      <3>5. QED BY <2>2, <3>1, <3>3, <3>4, <1>g
    <2>3. QED BY <1>18, <2>1, <2>2 DEF CancelScheduledClose
  <1>19. CASE UpsertWonBid(p)
    <2>1. jobStatus \notin {"NONE", "ASSIGNED"} /\ arg[p].bid \in Operators
      BY <1>19, <1>c DEF UpsertWonBid, Knows
    <2>2. "manual.lost" \in PC BY DEF PC
    <2>3. pc'[p] = "manual.lost" /\ arg' = arg
      BY <1>19, <2>2, GotoType DEF UpsertWonBid
    <2>4. bidStatus'[arg[p].bid] = "WON"
      BY <1>19, <1>d, <2>1 DEF UpsertWonBid, SetBid
    <2>5. Knows(p)' BY <1>19, <2>1, <2>3, <2>4 DEF UpsertWonBid, Knows
    <2>6. RowsAt(pc[p]) => RowsAt("manual.lost")'
      BY <1>19 DEF UpsertWonBid, RowsAt, Unassigned
    <2>7. QED BY <1>19, <2>2, <2>5, <2>6, <1>g DEF UpsertWonBid
  <1>20. CASE WriteOthersLost(p)
    <2>1. /\ jobStatus \notin {"NONE", "ASSIGNED"} /\ arg[p].bid \in Operators
          /\ bidStatus[arg[p].bid] = "WON"
      BY <1>20, <1>c DEF WriteOthersLost, Knows
    <2>2. "manual.job" \in PC BY DEF PC
    <2>3. pc'[p] = "manual.job" /\ arg' = arg
      BY <1>20, <2>2, GotoType DEF WriteOthersLost
    <2>4. /\ bidStatus'[arg[p].bid] = "WON"
          /\ \A q \in Operators \ {arg[p].bid} :
                bidStatus'[q] \notin {"PENDING", "WON"}
      BY <1>20, <1>d, <2>1 DEF WriteOthersLost, HasBid
    <2>5. Knows(p)' BY <1>20, <2>1, <2>3, <2>4 DEF WriteOthersLost, Knows
    <2>6. RowsAt(pc[p]) => RowsAt("manual.job")'
      BY <1>20 DEF WriteOthersLost, RowsAt, Unassigned
    <2>7. QED BY <1>20, <2>2, <2>5, <2>6, <1>g DEF WriteOthersLost
  <1>21. CASE WriteJobAssigned(p)
    <2>1. /\ arg[p].bid \in Operators /\ bidStatus[arg[p].bid] = "WON"
          /\ \A q \in Operators \ {arg[p].bid} : bidStatus[q] # "WON"
      BY <1>21, <1>c DEF WriteJobAssigned, Knows
    <2>2. "manual.booking" \in PC BY DEF PC
    <2>3. pc'[p] = "manual.booking"
      BY <1>21, <2>2, GotoType DEF WriteJobAssigned
    <2>4. Knows(p)' BY <1>21, <2>3 DEF WriteJobAssigned, Knows
    <2>5. RowsAt(pc[p]) => RowsAt("manual.booking")'
      BY <1>21, <1>d, <2>1 DEF WriteJobAssigned, RowsAt, Unassigned
    <2>6. QED BY <1>21, <2>2, <2>4, <2>5, <1>g DEF WriteJobAssigned
  <1>22. CASE WriteBookingAssigned(p)
    <2>1. jobStatus = "ASSIGNED" BY <1>22, <1>c DEF WriteBookingAssigned, Knows
    <2>2. RowsAt(pc[p]) => RowsAt("idle")'
      BY <1>22, <2>1 DEF WriteBookingAssigned, RowsAt, Unassigned
    <2>3. QED BY <1>22, <2>2, <1>f DEF WriteBookingAssigned
  <1>23. CASE WriteJobCancelled(p)
    <2>1. ASSUME NEW step \in {"cancel.bids", "cancel.booking"}, Goto(p, step)
          PROVE  AloneInv'
      <3>1. step \in PC BY DEF PC
      <3>2. pc'[p] = step BY <2>1, <3>1, GotoType
      <3>3. Knows(p)' BY <1>23, <3>2 DEF WriteJobCancelled, Knows
      <3>4. RowsAt(pc[p]) => RowsAt(step)'
        BY <1>23 DEF WriteJobCancelled, RowsAt, Unassigned
      <3>5. QED BY <2>1, <3>1, <3>3, <3>4, <1>g
    <2>2. QED BY <1>23, <2>1 DEF WriteJobCancelled
  <1>24. CASE WriteBidsDeclined(p)
    <2>1. jobStatus = "CANCELLED" BY <1>24, <1>c DEF WriteBidsDeclined, Knows
    <2>2. "cancel.booking" \in PC BY DEF PC
    <2>3. pc'[p] = "cancel.booking"
      BY <1>24, <2>2, GotoType DEF WriteBidsDeclined
    <2>4. Knows(p)' BY <1>24, <2>1, <2>3 DEF WriteBidsDeclined, Knows
    <2>5. RowsAt(pc[p]) => RowsAt("cancel.booking")'
      BY <1>24, <1>d, <2>1 DEF WriteBidsDeclined, RowsAt, Unassigned
    <2>6. QED BY <1>24, <2>2, <2>4, <2>5, <1>g DEF WriteBidsDeclined
  <1>25. CASE WriteBookingCancelled(p)
    <2>1. jobStatus \in {"NONE", "CANCELLED"}
      BY <1>25, <1>c DEF WriteBookingCancelled, Knows
    <2>2. RowsAt(pc[p]) => RowsAt("idle")'
      BY <1>25, <2>1 DEF WriteBookingCancelled, RowsAt, Unassigned
    <2>3. QED BY <1>25, <2>2, <1>f DEF WriteBookingCancelled
  <1>26. QED
    BY <1>1, <1>2, <1>3, <1>4, <1>5, <1>6, <1>7, <1>8, <1>9, <1>10,
       <1>11, <1>12, <1>13, <1>14, <1>15, <1>16, <1>17, <1>18, <1>19,
       <1>20, <1>21, <1>22, <1>23, <1>24, <1>25
    DEF Continue

----------------------------------------------------------------------------
(* The invariant *)

LEMMA NextAlone ==
    ASSUME ~Overlap, TypeOK, AloneInv, [Next]_vars
    PROVE  AloneInv'
  <1> USE DEF jobVars, bidVars, procVars, faultVars
  <1>a. ASSUME UNCHANGED <<jobStatus, offer, winner, bidVars, bookingStatus,
                           procVars, faultVars>>
        PROVE  AloneInv'
    BY <1>a DEF AloneInv, Alone, Knows, HasBid, IsLowest, PendingBids, RanksBefore,
       RowsAgree, NoFault, WinnerWon, Unassigned, OfferFirst, StatusesAgree,
       At
  <1>1. ASSUME NEW p \in Procs, StartRequest(p) \/ StartTask(p) \/ Continue(p)
        PROVE  AloneInv'
    BY <1>1, StartRequestAlone, StartTaskAlone, ContinueAlone
  <1>2. CASE BiddingWindowPasses
    BY <1>2, <1>a DEF BiddingWindowPasses
  <1>3. CASE AcceptanceWindowPasses
    BY <1>3, <1>a DEF AcceptanceWindowPasses
  <1>4. ASSUME NEW p \in Procs, AwaitFails(p)
        PROVE  AloneInv'
    <2>1. Only(p, pc[p]) BY <1>4, RunningIsOnly DEF AwaitFails, AloneInv
    <2>2. Only(p, "idle")' BY <1>4, <2>1, ReturnOnly DEF AwaitFails
    <2>3. Knows(p)' BY <2>2, IdleKnows DEF Only
    <2>4. RowsAgree' BY <1>4 DEF AwaitFails, TypeOK, RowsAgree, NoFault
    <2>5. QED BY <2>2, <2>3, <2>4, OnlyKnows
  <1>5. CASE Crash
    <2>1. \A p \in Procs : pc'[p] = "idle" BY <1>5 DEF Crash
    <2>2. Alone' BY <2>1 DEF Alone
    <2>3. \A p \in Procs : Knows(p)' BY <2>1, IdleKnows
    <2>4. RowsAgree' BY <1>5 DEF Crash, TypeOK, RowsAgree, NoFault
    <2>5. QED BY <2>2, <2>3, <2>4 DEF AloneInv
  <1>6. CASE UNCHANGED vars
    BY <1>6, <1>a DEF vars
  <1>7. QED BY <1>1, <1>2, <1>3, <1>4, <1>5, <1>6 DEF Next

LEMMA InitAlone == Init => AloneInv
  <1> SUFFICES ASSUME Init PROVE AloneInv
    OBVIOUS
  <1>1. \A p \in Procs : pc[p] = "idle" BY DEF Init
  <1>2. Alone BY <1>1 DEF Alone
  <1>3. \A p \in Procs : Knows(p) BY <1>1 DEF Knows
  <1>4. RowsAgree
    BY AuctionAssumption DEF Init, AuctionAssumption, RowsAgree, WinnerWon,
       Unassigned, OfferFirst, StatusesAgree
  <1>5. QED BY <1>2, <1>3, <1>4 DEF AloneInv

\* The offered bid exists.
OfferHasBid ==
    jobStatus = "PENDING_ACCEPTANCE" => offer \in Operators /\ HasBid(offer)

\* Bids do not vanish, and only a bid is offered.
LEMMA ContinueOffer ==
    ASSUME TypeOK, AloneInv, OfferHasBid, NEW p \in Procs, Continue(p)
    PROVE  OfferHasBid'
  <1> USE DEF jobVars, bidVars
  <1>a. Knows(p) BY DEF AloneInv
  <1>b. bidStatus \in [Operators -> BidStatus] BY DEF TypeOK
  <1>c. ASSUME UNCHANGED <<jobStatus, offer>> \/ jobStatus' # "PENDING_ACCEPTANCE",
               \A o \in Operators : HasBid(o) => HasBid(o)'
        PROVE  OfferHasBid'
    BY <1>c DEF OfferHasBid
  <1>d. ASSUME NEW o, NEW status \in BidStatus \ {"NONE"}, SetBid(o, status)
        PROVE  \A q \in Operators : HasBid(q) => HasBid(q)'
    BY <1>b, <1>d DEF SetBid, HasBid
  <1>e. ASSUME NEW S, bidStatus' = BidsWonBy(arg[p].bid, S)
        PROVE  \A q \in Operators : HasBid(q) => HasBid(q)'
    BY <1>b, <1>e DEF BidsWonBy, HasBid
  <1>1. CASE OfferToLowest(p)
    <2>1. arg[p].bid \in Operators
      BY <1>1, <1>a DEF OfferToLowest, Knows, IsLowest, PendingBids
    <2>2. QED BY <1>1, <1>b, <2>1 DEF OfferToLowest, SetBid, HasBid, OfferHasBid
  <1>2. CASE OfferToNext(p)
    <2>1. arg[p].bid \in Operators
      BY <1>2, <1>a DEF OfferToNext, Knows, IsLowest, PendingBids
    <2>2. QED BY <1>2, <1>b, <2>1 DEF OfferToNext, SetBid, HasBid, OfferHasBid
  <1>3. CASE \/ CreateJob(p) \/ CloseWithNoBids(p) \/ EscalateNoBidder(p)
             \/ WriteNoBids(p) \/ WriteReopened(p) \/ WriteJobAssigned(p)
             \/ WriteJobCancelled(p)
    <2>1. UNCHANGED bidStatus
      BY <1>3 DEF CreateJob, CloseWithNoBids, EscalateNoBidder, WriteNoBids,
         WriteReopened, WriteJobAssigned, WriteJobCancelled
    <2>2. UNCHANGED <<jobStatus, offer>> \/ jobStatus' # "PENDING_ACCEPTANCE"
      BY <1>3 DEF CreateJob, CloseWithNoBids, EscalateNoBidder, WriteNoBids,
         WriteReopened, WriteJobAssigned, WriteJobCancelled
    <2>3. QED BY <2>1, <2>2, <1>c DEF HasBid
  <1>4. CASE WriteAccepted(p) \/ WriteAward(p)
    <2>1. jobStatus' = "ASSIGNED" BY <1>4 DEF WriteAccepted, WriteAward
    <2>2. QED BY <2>1 DEF OfferHasBid
  <1>5. CASE CreateBid(p)
    <2>1. \A o \in Operators : HasBid(o) => HasBid(o)'
      BY <1>5, <1>d DEF CreateBid, BidStatus, HasBid
    <2>2. QED BY <1>5, <2>1, <1>c DEF CreateBid
  <1>6. CASE WriteWithdrawn(p)
    <2>1. \A o \in Operators : HasBid(o) => HasBid(o)'
      BY <1>6, <1>d DEF WriteWithdrawn, BidStatus
    <2>2. QED BY <1>6, <2>1, <1>c DEF WriteWithdrawn
  <1>7. CASE WriteDeclined(p)
    <2>1. \A o \in Operators : HasBid(o) => HasBid(o)'
      BY <1>7, <1>d DEF WriteDeclined, BidStatus
    <2>2. QED BY <1>7, <2>1, <1>c DEF WriteDeclined
  <1>8. CASE UpsertWonBid(p)
    <2>1. \A o \in Operators : HasBid(o) => HasBid(o)'
      BY <1>8, <1>d DEF UpsertWonBid, BidStatus
    <2>2. QED BY <1>8, <2>1, <1>c DEF UpsertWonBid
  <1>9. CASE WriteOthersLost(p) \/ WriteBidsDeclined(p)
    <2>1. \A o \in Operators : HasBid(o) => HasBid(o)'
      BY <1>9, <1>b DEF WriteOthersLost, WriteBidsDeclined, HasBid
    <2>2. UNCHANGED <<jobStatus, offer>>
      BY <1>9 DEF WriteOthersLost, WriteBidsDeclined
    <2>3. QED BY <2>1, <2>2, <1>c
  <1>10. CASE \/ ScheduleBiddingWindowClose(p) \/ FindExistingBid(p)
              \/ UpdateBid(p) \/ ScheduleAcceptanceTimeout(p)
              \/ FindNextBidder(p) \/ CancelScheduledClose(p)
              \/ WriteBookingAssigned(p) \/ WriteBookingCancelled(p)
    <2>1. UNCHANGED <<jobStatus, offer, bidStatus>>
      BY <1>10 DEF ScheduleBiddingWindowClose, FindExistingBid, UpdateBid,
         ScheduleAcceptanceTimeout, FindNextBidder, CancelScheduledClose,
         WriteBookingAssigned, WriteBookingCancelled
    <2>2. QED BY <2>1, <1>c DEF HasBid
  <1>11. QED BY <1>1, <1>2, <1>3, <1>4, <1>5, <1>6, <1>7, <1>8, <1>9, <1>10
             DEF Continue

\* Nothing but a handler's further step writes the job or its bids.
LEMMA OtherSteps ==
    ASSUME [Next]_vars, ~ \E p \in Procs : Continue(p)
    PROVE  /\ UNCHANGED <<jobStatus, offer, winner, bidStatus>>
  BY DEF Next, StartRequest, StartTask, CreateJobForBooking,
     CreateFromBooking, PlaceBid, WithdrawBid, DeclineJobOffer,
     AcceptJobOffer, AwardNow, ReopenBidding, ManualJobAssignment,
     CancelBooking, CloseBidding, AcceptanceTimeout, BiddingWindowPasses,
     AcceptanceWindowPasses, AwaitFails, Crash, jobVars, bidVars, vars

LEMMA NextOffer ==
    ASSUME TypeOK, AloneInv, OfferHasBid, [Next]_vars
    PROVE  OfferHasBid'
  <1>1. CASE \E p \in Procs : Continue(p)
    BY <1>1, ContinueOffer
  <1>2. CASE ~ \E p \in Procs : Continue(p)
    BY <1>2, OtherSteps DEF OfferHasBid, HasBid
  <1>3. QED BY <1>1, <1>2

LEMMA AloneInvariant ==
    ASSUME ~Overlap
    PROVE  Spec => [](TypeOK /\ AloneInv /\ OfferHasBid)
  <1>1. Init => TypeOK /\ AloneInv /\ OfferHasBid
    BY InitType, InitAlone DEF Init, OfferHasBid
  <1>2. TypeOK /\ AloneInv /\ OfferHasBid /\ [Next]_vars =>
            (TypeOK /\ AloneInv /\ OfferHasBid)'
    BY NextType, NextAlone, NextOffer
  <1>3. QED BY <1>1, <1>2, PTL DEF Spec

----------------------------------------------------------------------------
(* What holds between requests *)

\* Between requests that do not overlap, the bid that won is the job's
\* winner and no other, whatever was offered, awarded or assigned by hand
\* before.
THEOREM OneWinnerAlone ==
    ASSUME ~Overlap
    PROVE  Spec => []OneWinner
  <1>1. TypeOK /\ AloneInv => OneWinner
    <2> SUFFICES ASSUME TypeOK, AloneInv, Quiescent PROVE
            /\ {o \in Operators : bidStatus[o] = "WON"} = {winner} \ {None}
            /\ jobStatus = "ASSIGNED" => winner # None
      BY DEF OneWinner
    <2>1. /\ \A o \in Operators : bidStatus[o] = "WON" <=> o = winner
          /\ jobStatus = "ASSIGNED" => winner # None
      BY IdleRows DEF Quiescent
    <2>2. winner \in Operators \union {None} /\ None \notin Operators
      BY AuctionAssumption DEF TypeOK, OperatorOrNone, AuctionAssumption
    <2>3. QED BY <2>1, <2>2
  <1>2. QED BY <1>1, AloneInvariant, PTL

\* Between requests that do not overlap, an open offer stands with the
\* lowest bid that was not declined or withdrawn.
THEOREM LowestOfferedAlone ==
    ASSUME ~Overlap
    PROVE  Spec => []LowestOffered
  <1>1. TypeOK /\ AloneInv => LowestOffered
    BY IdleRows DEF Quiescent, LowestOffered
  <1>2. QED BY <1>1, AloneInvariant, PTL

\* Between requests that do not overlap, booking.status and job.status,
\* written by separate statements, agree.
THEOREM BookingFollowsJobAlone ==
    ASSUME ~Overlap
    PROVE  Spec => []BookingFollowsJob
  <1>1. TypeOK /\ AloneInv => BookingFollowsJob
    BY IdleRows DEF Quiescent, BookingFollowsJob
  <1>2. QED BY <1>1, AloneInvariant, PTL

----------------------------------------------------------------------------
(* The refinement of Dispatch *)

\* The abstract state, with a name for each of its variables.
phase == PhaseOf[jobStatus]
standing == {o \in Operators : bidStatus[o] = "PENDING"}
bidders == {o \in Operators : HasBid(o)}

LEMMA Phases ==
    /\ PhaseOf["NONE"] = "none"
    /\ PhaseOf["OPEN_FOR_BIDDING"] = "open"
    /\ PhaseOf["PENDING_ACCEPTANCE"] = "offered"
    /\ PhaseOf["NO_BIDS_RECEIVED"] = "escalated"
    /\ PhaseOf["ASSIGNED"] = "assigned"
    /\ PhaseOf["CANCELLED"] = "cancelled"
  BY DEF PhaseOf

LEMMA PhaseKnown ==
    ASSUME jobStatus \in JobStatus
    PROVE  /\ phase = "none" <=> jobStatus = "NONE"
           /\ phase = "assigned" <=> jobStatus = "ASSIGNED"
  BY Phases DEF phase, JobStatus

LEMMA AbstractStutter ==
    ASSUME UNCHANGED <<jobStatus, offer, winner, bidStatus>>
    PROVE  UNCHANGED Abstract!vars
  BY DEF Abstract!vars, Holder, HasBid

\* Every further step of a handler is a step of Dispatch or stutters.
LEMMA ContinueRefines ==
    ASSUME TypeOK, AloneInv, OfferHasBid, NEW p \in Procs, Continue(p)
    PROVE  [Abstract!Next]_(Abstract!vars)
  <1> DEFINE o == arg[p].bid
  <1> USE DEF jobVars, bidVars
  <1>a. Knows(p) BY DEF AloneInv
  <1>b. jobStatus \in JobStatus /\ bidStatus \in [Operators -> BidStatus]
    BY DEF TypeOK
  <1>c. ASSUME UNCHANGED <<jobStatus, offer, winner, bidStatus>>
        PROVE  [Abstract!Next]_(Abstract!vars)
    BY <1>c, AbstractStutter
  <1>d. ASSUME Abstract!Drop \/ Abstract!Escalate \/ Abstract!Reopen \/
               Abstract!Open \/ Abstract!Accept \/ Abstract!Cancel
        PROVE  [Abstract!Next]_(Abstract!vars)
    BY <1>d DEF Abstract!Next
  <1>f. ASSUME UNCHANGED <<jobStatus, offer, winner>>,
               standing' \subseteq standing, bidders' = bidders
        PROVE  [Abstract!Next]_(Abstract!vars)
    <2>1. Abstract!Drop
      BY <1>f DEF Abstract!Drop, Holder, standing, bidders
    <2>2. QED BY <2>1, <1>d
  <1>h. ASSUME o \in Operators, HasBid(o), NEW S, "PENDING" \in S, "NONE" \notin S,
               bidStatus' = BidsWonBy(o, S)
        PROVE  standing' = {} /\ bidders' = bidders
    BY <1>h, <1>b DEF BidsWonBy, standing, bidders, HasBid
  <1>1. CASE CreateJob(p)
    <2>1. jobStatus = "NONE" BY <1>1, <1>a DEF CreateJob, Knows
    <2>2. /\ jobStatus' = "OPEN_FOR_BIDDING"
          /\ UNCHANGED <<offer, winner, bidStatus>>
      BY <1>1, <2>1 DEF CreateJob
    <2>3. Abstract!Open
      BY <2>1, <2>2, Phases DEF Abstract!Open, Holder, HasBid
    <2>4. QED BY <2>3, <1>d
  <1>2. CASE ScheduleBiddingWindowClose(p)
    BY <1>2, <1>c DEF ScheduleBiddingWindowClose
  <1>3. CASE FindExistingBid(p)
    BY <1>3, <1>c DEF FindExistingBid
  <1>4. CASE UpdateBid(p)
    BY <1>4, <1>c DEF UpdateBid
  <1>5. CASE CreateBid(p)
    <2>1. jobStatus = "OPEN_FOR_BIDDING" /\ o \in Operators
      BY <1>5, <1>a DEF CreateBid, Knows
    <2>2. CASE UNCHANGED bidVars BY <1>5, <2>2, <1>c DEF CreateBid
    <2>3. CASE ~HasBid(o) /\ SetBid(o, "PENDING")
      <3>1. /\ standing' = standing \union {o}
            /\ bidders' = bidders \union {o} /\ o \notin bidders
        BY <2>1, <2>3, <1>b DEF standing, bidders, SetBid, HasBid
      <3>2. UNCHANGED <<jobStatus, offer, winner>> BY <1>5 DEF CreateBid
      <3>3. Abstract!Bid(o)
        BY <2>1, <3>1, <3>2, Phases
           DEF Abstract!Bid, Holder, standing, bidders
      <3>4. QED BY <2>1, <3>3 DEF Abstract!Next, Abstract!Bid
    <2>4. QED BY <1>5, <2>2, <2>3 DEF CreateBid
  <1>6. CASE WriteWithdrawn(p)
    <2>1. o \in Operators /\ HasBid(o)
      BY <1>6, <1>a DEF WriteWithdrawn, Knows
    <2>2. standing' \subseteq standing /\ bidders' = bidders
      BY <1>6, <2>1, <1>b DEF WriteWithdrawn, SetBid, HasBid, standing, bidders
    <2>3. QED BY <1>6, <2>2, <1>f DEF WriteWithdrawn
  <1>7. CASE CloseWithNoBids(p) \/ WriteNoBids(p)
    <2>1. jobStatus = "OPEN_FOR_BIDDING" /\ PendingBids = {}
      BY <1>7, <1>a DEF CloseWithNoBids, WriteNoBids, Knows
    <2>2. jobStatus' = "NO_BIDS_RECEIVED" /\ UNCHANGED <<winner, bidStatus>>
      BY <1>7 DEF CloseWithNoBids, WriteNoBids
    <2>3. Abstract!Escalate
      BY <2>1, <2>2, Phases DEF Abstract!Escalate, Holder, HasBid, PendingBids
    <2>4. QED BY <2>3, <1>d
  <1>8. CASE OfferToLowest(p) \/ OfferToNext(p)
    <2>1. /\ jobStatus \in {"OPEN_FOR_BIDDING", "PENDING_ACCEPTANCE"}
          /\ o \in Operators /\ bidStatus[o] = "PENDING"
      BY <1>8, <1>a DEF OfferToLowest, OfferToNext, Knows, IsLowest, PendingBids
    <2>2. /\ jobStatus' = "PENDING_ACCEPTANCE" /\ offer' = o
          /\ SetBid(o, "OFFERED")
      BY <1>8, <1>a DEF OfferToLowest, OfferToNext, Knows
    <2>3. /\ standing' = standing \ {o} /\ o \in standing
          /\ bidders' = bidders
      BY <2>1, <2>2, <1>b DEF SetBid, HasBid, standing, bidders
    <2>4. Abstract!Offer(o)
      BY <2>1, <2>2, <2>3, Phases
         DEF Abstract!Offer, Holder, standing, bidders
    <2>5. QED BY <2>1, <2>4 DEF Abstract!Next, Abstract!Offer
  <1>9. CASE ScheduleAcceptanceTimeout(p)
    BY <1>9, <1>c DEF ScheduleAcceptanceTimeout
  <1>10. CASE WriteDeclined(p)
    <2>1. o \in Operators /\ HasBid(o)
      BY <1>10, <1>a DEF WriteDeclined, Knows, OfferHasBid
    <2>2. standing' \subseteq standing /\ bidders' = bidders
      BY <1>10, <2>1, <1>b DEF WriteDeclined, SetBid, HasBid, standing, bidders
    <2>3. QED BY <1>10, <2>2, <1>f DEF WriteDeclined
  <1>11. CASE FindNextBidder(p)
    BY <1>11, <1>c DEF FindNextBidder
  <1>12. CASE EscalateNoBidder(p)
    <2>1. jobStatus = "PENDING_ACCEPTANCE" /\ PendingBids = {}
      BY <1>12, <1>a DEF EscalateNoBidder, Knows
    <2>2. jobStatus' = "NO_BIDS_RECEIVED" /\ UNCHANGED bidStatus
      BY <1>12 DEF EscalateNoBidder
    <2>3. Abstract!Escalate
      BY <2>1, <2>2, Phases DEF Abstract!Escalate, Holder, HasBid, PendingBids
    <2>4. QED BY <2>3, <1>d
  <1>13. CASE WriteAccepted(p)
    <2>1. /\ jobStatus = "PENDING_ACCEPTANCE" /\ offer = o
          /\ o \in Operators /\ HasBid(o)
      BY <1>13, <1>a DEF WriteAccepted, Knows, OfferHasBid
    <2>2. jobStatus' = "ASSIGNED" /\ winner' = o
      BY <1>13 DEF WriteAccepted
    <2>3. standing' = {} /\ bidders' = bidders
      BY <1>13, <2>1, <1>h DEF WriteAccepted
    <2>4. Abstract!Accept
      BY <2>1, <2>2, <2>3, Phases
         DEF Abstract!Accept, Holder, standing, bidders
    <2>5. QED BY <2>4, <1>d
  <1>14. CASE WriteAward(p)
    <2>1. jobStatus = "OPEN_FOR_BIDDING" /\ o \in Operators /\ HasBid(o)
      BY <1>14, <1>a DEF WriteAward, Knows
    <2>2. jobStatus' = "ASSIGNED" /\ winner' = o
      BY <1>14 DEF WriteAward
    <2>3. standing' = {} /\ bidders' = bidders
      BY <1>14, <2>1, <1>h DEF WriteAward
    <2>4. Abstract!Assign(o)
      BY <2>1, <2>2, <2>3, Phases
         DEF Abstract!Assign, Holder, standing, bidders
    <2>5. QED BY <2>1, <2>4 DEF Abstract!Next, Abstract!Assign
  <1>15. CASE WriteReopened(p)
    <2>1. jobStatus = "NO_BIDS_RECEIVED" BY <1>15, <1>a DEF WriteReopened, Knows
    <2>2. jobStatus' = "OPEN_FOR_BIDDING" /\ UNCHANGED bidStatus
      BY <1>15 DEF WriteReopened
    <2>3. Abstract!Reopen
      BY <2>1, <2>2, Phases DEF Abstract!Reopen, Holder, HasBid
    <2>4. QED BY <2>3, <1>d
  <1>16. CASE CancelScheduledClose(p)
    BY <1>16, <1>c DEF CancelScheduledClose
  <1>17. CASE UpsertWonBid(p)
    <2>1. jobStatus \notin {"NONE", "ASSIGNED"} /\ o \in Operators
      BY <1>17, <1>a DEF UpsertWonBid, Knows
    <2>2. UNCHANGED <<jobStatus, offer, winner>> /\ SetBid(o, "WON")
      BY <1>17 DEF UpsertWonBid
    <2>3. standing' = standing \ {o} /\ bidders' = bidders \union {o}
      BY <2>1, <2>2, <1>b DEF SetBid, HasBid, standing, bidders
    <2>4. phase \notin {"none", "assigned"} BY <2>1, <1>b, PhaseKnown
    <2>5. Abstract!EnterBid(o)
      BY <2>2, <2>3, <2>4
         DEF Abstract!EnterBid, Holder, phase, standing, bidders
    <2>6. QED BY <2>1, <2>5 DEF Abstract!Next, Abstract!EnterBid
  <1>18. CASE WriteOthersLost(p)
    <2>1. standing' \subseteq standing /\ bidders' = bidders
      BY <1>18, <1>b DEF WriteOthersLost, HasBid, standing, bidders
    <2>2. QED BY <1>18, <2>1, <1>f DEF WriteOthersLost
  <1>19. CASE WriteJobAssigned(p)
    <2>1. /\ jobStatus \notin {"NONE", "ASSIGNED"} /\ o \in Operators
          /\ bidStatus[o] = "WON"
          /\ \A q \in Operators \ {o} : bidStatus[q] # "PENDING"
      BY <1>19, <1>a DEF WriteJobAssigned, Knows
    <2>2. /\ jobStatus' = "ASSIGNED" /\ winner' = o
          /\ UNCHANGED bidStatus
      BY <1>19 DEF WriteJobAssigned
    <2>3. standing' = {} /\ bidders' = bidders
      BY <2>1, <2>2 DEF HasBid, standing, bidders
    <2>4. phase \notin {"none", "assigned"} BY <2>1, <1>b, PhaseKnown
    <2>5. Abstract!Assign(o)
      BY <2>2, <2>3, <2>4, Phases
         DEF Abstract!Assign, Holder, phase, standing, bidders
    <2>6. QED BY <2>1, <2>5 DEF Abstract!Next, Abstract!Assign
  <1>20. CASE WriteBookingAssigned(p)
    BY <1>20, <1>c DEF WriteBookingAssigned
  <1>21. CASE WriteJobCancelled(p)
    <2>1. jobStatus # "NONE" BY <1>21, <1>a DEF WriteJobCancelled, Knows
    <2>2. jobStatus' = "CANCELLED" /\ UNCHANGED bidStatus
      BY <1>21 DEF WriteJobCancelled
    <2>3. phase # "none" BY <2>1, <1>b, PhaseKnown
    <2>4. Abstract!Cancel
      BY <2>2, <2>3, Phases DEF Abstract!Cancel, Holder, HasBid, phase
    <2>5. QED BY <2>4, <1>d
  <1>22. CASE WriteBidsDeclined(p)
    <2>1. standing' \subseteq standing /\ bidders' = bidders
      BY <1>22, <1>b DEF WriteBidsDeclined, HasBid, standing, bidders
    <2>2. QED BY <1>22, <2>1, <1>f DEF WriteBidsDeclined
  <1>23. CASE WriteBookingCancelled(p)
    BY <1>23, <1>c DEF WriteBookingCancelled
  <1>24. QED
    BY <1>1, <1>2, <1>3, <1>4, <1>5, <1>6, <1>7, <1>8, <1>9, <1>10,
       <1>11, <1>12, <1>13, <1>14, <1>15, <1>16, <1>17, <1>18, <1>19,
       <1>20, <1>21, <1>22, <1>23
    DEF Continue

\* Handlers that do not overlap implement Dispatch, also when awaits fail
\* and the process crashes between any two of their steps.
THEOREM HandlersImplementDispatch ==
    ASSUME ~Overlap
    PROVE  Spec => ImplementsDispatch
  <1>1. Init => Abstract!Init
    BY Phases DEF Init, Abstract!Init, Holder, HasBid
  <1>2. TypeOK /\ AloneInv /\ OfferHasBid /\ [Next]_vars =>
            [Abstract!Next]_(Abstract!vars)
    <2>1. CASE \E p \in Procs : Continue(p)
      BY <2>1, ContinueRefines
    <2>2. CASE ~ \E p \in Procs : Continue(p)
      BY <2>2, OtherSteps, AbstractStutter
    <2>3. QED BY <2>1, <2>2
  <1>3. QED BY <1>1, <1>2, AloneInvariant, PTL
            DEF Spec, ImplementsDispatch, Abstract!Spec
=============================================================================
