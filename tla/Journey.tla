------------------------------ MODULE Journey ------------------------------
(***************************************************************************)
(* A paid booking from the award of its job to the end of the journey:     *)
(* changes of the pickup time, the reminder of the hourly scheduler,       *)
(* driver details, arrival, pickup and waiting charges, no-show,           *)
(* cancellation and refund, completion and the customer's rating.          *)
(*                                                                         *)
(* Handlers are sequences of awaits as in Auction; reads on which nothing  *)
(* depends (existence, the settings) are joined with the next step.  Time  *)
(* is counted in ticks and stands still while a handler runs, since one    *)
(* takes less than a tick.  The cron callback runs in the tick of the full *)
(* hour, at the exact millisecond or a little later.  Abstractions: one    *)
(* booking, whose job has an operator once it is assigned; the Stripe call *)
(* and the ledger of a refund are in Payments, the bids in Auction, the    *)
(* payout in Payouts.                                                      *)
(***************************************************************************)
EXTENDS Integers, Sequences, FiniteSets, FiniteSetsExt

CONSTANTS
    Clients,       \* concurrent requests
    Cron,          \* the reminder scheduler
    Requests,      \* the requests that are issued
    Pickups,       \* pickup times, in ticks
    Horizon,       \* bound on time
    Hour,          \* ticks in an hour
    ReminderAhead, \* the 24 hours of the reminder, in ticks
    AmendNotice,   \* the 24 hours before which a customer may amend
    Exactly,       \* the cron callback may run exactly on the hour
    Policies,      \* cancellation policies [hours, percent], in ticks
    Grace,         \* no-show grace period
    FreeWaiting,   \* *_FREE_WAITING_MINUTES of the booking's service type
    WaitingRate,   \* *_WAITING_RATE_PER_MINUTE
    Duration,      \* booking.durationMinutes
    CompletionBuffer, \* how much earlier a job may be completed
    OtherJobs,     \* completed jobs of the same operator
    Ratings,       \* ratings the customers give
    None           \* null

Procs == Clients \union {Cron}

Jobs == {"this"} \union OtherJobs

Times == 0 .. Horizon
OrNone(S) == S \union {None}

ASSUME JourneyAssumption ==
    /\ Cron \notin Clients
    /\ Horizon \in Nat /\ Pickups \subseteq Times
    /\ Hour \in Nat \ {0} /\ Exactly \in BOOLEAN
    /\ {ReminderAhead, AmendNotice, Grace, FreeWaiting, WaitingRate, Duration,
        CompletionBuffer} \subseteq Nat
    /\ Policies \subseteq [hours : Nat, percent : 0 .. 100]
    /\ IsFiniteSet(OtherJobs) /\ Ratings \subseteq Nat
    /\ None \notin Times \union Ratings

\* The tiers are those of the seed: more notice never earns less
\* (prisma/seed.ts:905-941; nothing else writes the table).
ASSUME PoliciesAreTiers ==
    \A q, r \in Policies : q.hours <= r.hours => q.percent <= r.percent

VARIABLES
    now,
    status,       \* booking.status
    pickup,       \* booking.pickupDatetime
    arrivedAt,    \* booking.driverArrivedAt
    waiting,      \* booking.waitingCharges
    refund,       \* booking.refundPercent
    jobStatus,    \* job.status
    assigned,     \* job.assignedOperatorId is set
    rating,       \* job.customerRating
    reputation,   \* the ratings that make up operator.reputationScore
    reminders,    \* reminders sent, by pickup time
    cronDue,      \* the hourly expression has fired
    pickupSince,  \* history: last change of pickup
    overlapped,   \* history: a handler ran between two awaits of another
    pc, arg

bookingVars == <<status, pickup, arrivedAt, waiting, refund>>
jobVars == <<jobStatus, assigned>>
ratingVars == <<rating, reputation>>
cronVars == <<reminders, cronDue>>
historyVars == <<pickupSince, overlapped>>
procVars == <<pc, arg>>
vars == <<now, bookingVars, jobVars, ratingVars, cronVars, historyVars,
          procVars>>

BookingStatus == {"PAID", "ASSIGNED", "IN_PROGRESS", "COMPLETED", "CANCELLED",
                  "REFUNDED", "NO_SHOW"}
JobStatus == {"OPEN_FOR_BIDDING", "ASSIGNED", "IN_PROGRESS",
              "PENDING_COMPLETION", "COMPLETED", "CANCELLED"}
PC == {"idle", "update", "cancel.job", "cancel.booking", "noShow", "pickup",
       "details", "complete", "confirm", "reject", "rate", "rate.read",
       "rate.score", "refund", "remind"}
\* at: a pickup time to write, or read; value: a percentage, a charge or a
\* rating; job, score: what rateJob works on.
Arg == [at : OrNone(Times), value : Nat, job : Jobs, score : Seq(Ratings)]
NoArg == [at |-> None, value |-> 0, job |-> "this", score |-> <<>>]

TypeOK ==
    /\ now \in Times
    /\ status \in BookingStatus
    /\ pickup \in Pickups
    /\ arrivedAt \in OrNone(Times)
    /\ waiting \in Nat
    /\ refund \in OrNone(0 .. 100)
    /\ jobStatus \in JobStatus /\ assigned \in BOOLEAN
    /\ rating \in [Jobs -> OrNone(Ratings)]
    /\ reputation \in Seq(Ratings)
    /\ reminders \in [Pickups -> Nat] /\ cronDue \in BOOLEAN
    /\ pickupSince \in Times
    /\ overlapped \in BOOLEAN
    /\ pc \in [Procs -> PC] /\ arg \in [Procs -> Arg]

Init ==
    /\ now = 0 /\ status = "PAID" /\ pickup \in Pickups
    /\ arrivedAt = None /\ waiting = 0 /\ refund = None
    /\ jobStatus = "OPEN_FOR_BIDDING" /\ assigned = FALSE
    /\ rating = [j \in Jobs |-> None] /\ reputation = <<>>
    /\ reminders = [t \in Pickups |-> 0] /\ cronDue = FALSE
    /\ pickupSince = 0 /\ overlapped = FALSE
    /\ pc = [p \in Procs |-> "idle"] /\ arg = [p \in Procs |-> NoArg]

----------------------------------------------------------------------------
(* Handlers: start at a free process, continue at pc, return to "idle" *)

Idle == \A p \in Procs : pc[p] = "idle"

\* The first step of a handler.
Begin(p) == pc[p] = "idle" /\ overlapped' = (overlapped \/ ~Idle)
Request(p, name) == p \in Clients /\ name \in Requests /\ Begin(p)

GotoWith(p, step, a) ==
    /\ pc' = [pc EXCEPT ![p] = step]
    /\ arg' = [arg EXCEPT ![p] = a]
Goto(p, step) == GotoWith(p, step, arg[p])
Return(p) == GotoWith(p, "idle", NoArg)

\* A first step that only reads.
Start(p, name, step, a) ==
    /\ Request(p, name)
    /\ GotoWith(p, step, a)
    /\ UNCHANGED <<now, bookingVars, jobVars, ratingVars, cronVars,
                   pickupSince>>

----------------------------------------------------------------------------
(* Bookings: changes, cancellation, no-show *)

\* update: an administrator needs no notice.
Update(p, t, role) ==
    /\ status = "PAID" /\ (role # "ADMIN" => pickup - now >= AmendNotice)
    /\ Start(p, "update", "update", [NoArg EXCEPT !.at = t])

WriteUpdate(p) ==
    /\ pc[p] = "update"
    /\ pickup' = arg[p].at /\ pickupSince' = now
    /\ Return(p)
    /\ UNCHANGED <<now, status, arrivedAt, waiting, refund, jobVars, ratingVars, cronVars, overlapped>>

\* The first policy, from the most hours down, that the notice satisfies.
Applicable(h) == {q \in Policies : h >= q.hours}
\* Seeded bug: orderBy hoursBeforePickup asc.
ShortestTier(h) ==
    IF Applicable(h) = {} THEN 0
    ELSE (CHOOSE q \in Applicable(h) :
            \A r \in Applicable(h) : q.hours <= r.hours).percent
CancellationRefund(h) ==
    IF Applicable(h) = {} THEN 0
    ELSE (CHOOSE q \in Applicable(h) :
            \A r \in Applicable(h) : r.hours <= q.hours).percent

Cancel(p) ==
    /\ status \notin {"CANCELLED", "REFUNDED", "COMPLETED"} /\ now < pickup
    /\ Start(p, "cancel", "cancel.job",
             [NoArg EXCEPT !.at = pickup,
                           !.value = CancellationRefund(pickup - now)])

WriteJobCancelled(p) ==
    /\ pc[p] = "cancel.job"
    /\ jobStatus' = "CANCELLED"
    /\ Goto(p, "cancel.booking")
    /\ UNCHANGED <<now, bookingVars, assigned, ratingVars, cronVars,
                   historyVars>>

WriteCancelled(p) ==
    /\ pc[p] = "cancel.booking"
    /\ status' = "CANCELLED"
    /\ refund' = arg[p].value
    /\ Return(p)
    /\ UNCHANGED <<now, pickup, arrivedAt, waiting,
                   jobVars, ratingVars, cronVars, historyVars>>

MarkAsNoShow(p) ==
    /\ status \in {"ASSIGNED", "IN_PROGRESS"} /\ now >= pickup + Grace
    /\ Start(p, "noShow", "noShow", NoArg)

\* The job keeps its status.
WriteNoShow(p) ==
    /\ pc[p] = "noShow"
    /\ status' = "NO_SHOW"
    /\ Return(p)
    /\ UNCHANGED <<now, pickup, arrivedAt, waiting, refund,
                   jobVars, ratingVars, cronVars, historyVars>>

\* refundBooking, whatever the status but REFUNDED
Refund(p) ==
    /\ status # "REFUNDED"
    /\ Start(p, "refund", "refund", NoArg)

WriteRefunded(p) ==
    /\ pc[p] = "refund"
    /\ status' = "REFUNDED"
    /\ Return(p)
    /\ UNCHANGED <<now, pickup, arrivedAt, waiting, refund, jobVars, ratingVars, cronVars, historyVars>>

----------------------------------------------------------------------------
(* The driver *)

\* recordDriverArrival, whatever the status, and again if asked
RecordDriverArrival(p) ==
    /\ Request(p, "arrival")
    /\ arrivedAt' = now
    /\ UNCHANGED <<now, status, pickup, waiting, refund,
                   jobVars, ratingVars, cronVars, pickupSince,
                   procVars>>

WaitingCharges(waited) ==
    IF waited <= FreeWaiting THEN 0 ELSE WaitingRate * (waited - FreeWaiting)

RecordPassengerPickup(p) ==
    /\ arrivedAt # None
    /\ Start(p, "pickup", "pickup",
             [NoArg EXCEPT !.value = WaitingCharges(now - arrivedAt)])

\* The status is written whatever it was.
WritePickup(p) ==
    /\ pc[p] = "pickup"
    /\ status' = "IN_PROGRESS"
    /\ waiting' = arg[p].value
    /\ Return(p)
    /\ UNCHANGED <<now, pickup, arrivedAt, refund, jobVars,
                   ratingVars, cronVars, historyVars>>

----------------------------------------------------------------------------
(* The job *)

\* The auction assigns the job: one transaction on job and booking.
AssignJob(p) ==
    /\ Request(p, "assign")
    /\ jobStatus = "OPEN_FOR_BIDDING"
    /\ jobStatus' = "ASSIGNED" /\ status' = "ASSIGNED"
    /\ assigned' = TRUE
    /\ UNCHANGED <<now, pickup, arrivedAt, waiting, refund, ratingVars, cronVars, pickupSince, procVars>>

\* submitDriverDetails: the operator must be the assigned one, whatever the
\* job's status; assignedOperatorId outlives a cancellation.
SubmitDriverDetails(p) ==
    /\ assigned
    /\ Start(p, "details", "details", NoArg)

WriteDriverDetails(p) ==
    /\ pc[p] = "details"
    /\ jobStatus' = "IN_PROGRESS"
    /\ Return(p)
    /\ UNCHANGED <<now, bookingVars, assigned, ratingVars, cronVars,
                   historyVars>>

\* Seeded bug: the duration of the journey is left out.
CompleteJobFromPickup(p) ==
    /\ jobStatus \in {"ASSIGNED", "IN_PROGRESS"}
    /\ now >= pickup - CompletionBuffer
    /\ Start(p, "complete", "complete", NoArg)

CompleteJob(p) ==
    /\ jobStatus \in {"ASSIGNED", "IN_PROGRESS"}
    /\ now >= pickup + Duration - CompletionBuffer
    /\ Start(p, "complete", "complete", NoArg)

\* confirmJobCompletion and rejectJobCompletion
ReviewCompletion(p) ==
    /\ jobStatus = "PENDING_COMPLETION"
    /\ \/ Start(p, "confirm", "confirm", NoArg)
       \/ Start(p, "reject", "reject", NoArg)

WriteJobStatus(p) ==
    /\ \/ pc[p] = "complete" /\ jobStatus' = "PENDING_COMPLETION"
       \/ pc[p] = "reject" /\ jobStatus' = "IN_PROGRESS"
    /\ Return(p)
    /\ UNCHANGED <<now, bookingVars, assigned, ratingVars, cronVars,
                   historyVars>>

WriteConfirmed(p) ==
    /\ pc[p] = "confirm"
    /\ jobStatus' = "COMPLETED" /\ status' = "COMPLETED"
    /\ Return(p)
    /\ UNCHANGED <<now, pickup, arrivedAt, waiting, refund, assigned, ratingVars, cronVars, historyVars>>

----------------------------------------------------------------------------
(* Ratings *)

JobCompleted(j) == j = "this" => jobStatus = "COMPLETED"

\* Seeded bug: an earlier rating is not looked at.
RateJobAgain(p, j, r) ==
    /\ JobCompleted(j)
    /\ Start(p, "rate", "rate", [NoArg EXCEPT !.job = j, !.value = r])

RateJob(p, j, r) ==
    /\ JobCompleted(j) /\ rating[j] = None
    /\ Start(p, "rate", "rate", [NoArg EXCEPT !.job = j, !.value = r])

WriteRating(p) ==
    /\ pc[p] = "rate"
    /\ rating' = [rating EXCEPT ![arg[p].job] = arg[p].value]
    /\ Goto(p, "rate.read")
    /\ UNCHANGED <<now, bookingVars, jobVars, reputation, cronVars, historyVars>>

\* The score is read, halved with the new rating, and written back.
ReadScore(p) ==
    /\ pc[p] = "rate.read"
    /\ GotoWith(p, "rate.score",
                [arg[p] EXCEPT !.score = Append(reputation, arg[p].value)])
    /\ UNCHANGED <<now, bookingVars, jobVars, ratingVars, cronVars, historyVars>>

WriteScore(p) ==
    /\ pc[p] = "rate.score"
    /\ reputation' = arg[p].score
    /\ Return(p)
    /\ UNCHANGED <<now, bookingVars, jobVars, rating, cronVars, historyVars>>

----------------------------------------------------------------------------
(* Time and the reminder scheduler *)

Tick ==
    /\ Idle /\ ~cronDue /\ now < Horizon
    /\ now' = now + 1
    /\ cronDue' = (now' % Hour = 0)
    /\ UNCHANGED <<bookingVars, jobVars, ratingVars, reminders, historyVars,
                   procVars>>

\* Seeded bug: the window is two hours wide.
WiderWindow(late) ==
    {t \in Pickups : now + ReminderAhead - 2 * Hour < t /\ t <= now + ReminderAhead}

\* gte and lte; a callback that is a little late misses the lower bound.
ReminderWindow(late) ==
    {t \in Pickups : /\ now + ReminderAhead - Hour <= t
                     /\ late => now + ReminderAhead - Hour # t
                     /\ t <= now + ReminderAhead}

\* sendJourneyReminders: list the bookings ...
SendReminders ==
    /\ cronDue /\ cronDue' = FALSE /\ Begin(Cron)
    /\ \E late \in {TRUE, ~Exactly} :
        IF status = "PAID" /\ pickup \in ReminderWindow(late)
        THEN Goto(Cron, "remind") ELSE UNCHANGED procVars
    /\ UNCHANGED <<now, bookingVars, jobVars, ratingVars, reminders,
                   pickupSince>>

\* ... and send each reminder, for the booking as it is read again.
SendJourneyReminder ==
    /\ pc[Cron] = "remind"
    /\ reminders' = [reminders EXCEPT ![pickup] = @ + 1]
    /\ Return(Cron)
    /\ UNCHANGED <<now, bookingVars, jobVars, ratingVars, cronDue, historyVars>>

----------------------------------------------------------------------------
(* The specification *)

StartRequest(p) ==
    \/ \E t \in Pickups, role \in {"CUSTOMER", "ADMIN"} : Update(p, t, role)
    \/ Cancel(p) \/ MarkAsNoShow(p) \/ Refund(p)
    \/ RecordDriverArrival(p) \/ RecordPassengerPickup(p)
    \/ AssignJob(p) \/ SubmitDriverDetails(p)
    \/ CompleteJob(p) \/ ReviewCompletion(p)
    \/ \E j \in Jobs, r \in Ratings : RateJob(p, j, r)

Continue(p) ==
    \/ WriteUpdate(p)
    \/ WriteJobCancelled(p) \/ WriteCancelled(p)
    \/ WriteNoShow(p) \/ WriteRefunded(p) \/ WritePickup(p)
    \/ WriteDriverDetails(p) \/ WriteJobStatus(p) \/ WriteConfirmed(p)
    \/ WriteRating(p) \/ ReadScore(p) \/ WriteScore(p)

Next ==
    \/ \E p \in Clients : StartRequest(p) \/ Continue(p)
    \/ Tick \/ SendReminders \/ SendJourneyReminder

Spec == Init /\ [][Next]_vars

----------------------------------------------------------------------------
(* What holds however handlers overlap *)

\* A cancellation returns the best percentage that its notice earns, though
\* the loop over the policies only looks for the first one that applies,
\* and the pickup may change before the percentage is stored.
\* (bookings.service.ts:1051-1063.)
RefundIsBestTier ==
    [][\A p \in Clients : pc[p] = "cancel.booking" /\ pc'[p] = "idle" =>
            refund' = Max({q.percent : q \in Applicable(arg[p].at - now)}
                            \union {0})]_vars

----------------------------------------------------------------------------
(* What holds as long as no two handlers overlap *)

\* No job is reported or confirmed complete before the end of the journey,
\* less the buffer.  (jobs.service.ts:362-392.)
DoneAfterJourney ==
    jobStatus \in {"PENDING_COMPLETION", "COMPLETED"} =>
        now >= pickup + Duration - CompletionBuffer

\* A no-show is recorded after the grace period of the pickup that the
\* booking shows for good.  (bookings.service.ts:1087-1096.)
NoShowAfterGrace == status = "NO_SHOW" => now >= pickup + Grace

\* A booking ends no sooner than its journey can: once it has an operator,
\* nobody moves its pickup, not even an administrator.  (A change that has
\* read PAID before the award is written after it: with overlaps this fails.
\* bookings.service.ts:550-556, 584.)
EndsInTime == ~overlapped => DoneAfterJourney /\ NoShowAfterGrace

\* One reminder about one pickup time, though the pickup may move to it,
\* away and back, and the window is closed at both ends ("this ensures we
\* only send the reminder once", journey-reminder-scheduler.service.ts:30).
RemindedOnce ==
    ~overlapped /\ ~Exactly => \A t \in Pickups : reminders[t] <= 1

\* A booking that is PAID, with the same pickup, from before the reminder is
\* due is reminded of it ("find bookings with pickup between 23 and 24 hours
\* from now", once an hour; journey-reminder-scheduler.service.ts:23-47).
RemindedInTime ==
    status = "PAID" /\ pickupSince < pickup - ReminderAhead
        /\ now > pickup - ReminderAhead + Hour => reminders[pickup] > 0

\* The customer hears of a journey once, and in time.
Reminded == RemindedOnce /\ RemindedInTime

\* Every rating counts once in the operator's reputation: two ratings at
\* the same time lose one, or count one job twice.
\* (jobs.controller.ts:520-546.)
RatingsCounted ==
    ~overlapped /\ Idle =>
        Len(reputation) = Cardinality({j \in Jobs : rating[j] # None})

----------------------------------------------------------------------------
(* What the documentation says and the code does not do *)

\* "PENDING_PAYMENT -> PAID -> ASSIGNED (after bid won) -> IN_PROGRESS ->
\* COMPLETED" (DATABASE_SCHEMA.md:712): nothing follows a completed,
\* cancelled or refunded booking but a refund.
LifecycleFollowed ==
    [][(status \in {"COMPLETED", "CANCELLED", "REFUNDED"}
            /\ status' # status) => status' = "REFUNDED"]_vars

\* "45 minutes of waiting time is provided free of charge from the scheduled
\* booking time" (data.md:36).
FreeFromSchedule ==
    [][waiting' > waiting => now > pickup + FreeWaiting]_vars

\* "Journey details 24 hours before pickup (driver info)" (docs/FEATURES.md:242).
AssignedReminded ==
    status = "ASSIGNED" /\ pickupSince < pickup - ReminderAhead
        /\ now > pickup - ReminderAhead + Hour => reminders[pickup] > 0

\* "No refunds will be issued for No-Show bookings" (data.md:19).
NoRefundAfterNoShow == [][status = "NO_SHOW" => status' # "REFUNDED"]_vars
=============================================================================
