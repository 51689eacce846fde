------------------------------ MODULE Payments ------------------------------
(***************************************************************************)
(* Payment of one booking, or of the two legs of one return journey: the   *)
(* payment intents held by Stripe, its webhook events, the handlers that   *)
(* record a payment and create the jobs, the confirmation calls of the     *)
(* client, and the three ways money goes back (payments, admin, cancel).   *)
(*                                                                         *)
(* As in Auction, every database statement and every call to Stripe is a   *)
(* step of its own, handlers hold what they read in arg, and Overlap says  *)
(* whether one handler may run between two awaits of another.  Stripe      *)
(* delivers the event of a payment at least once and in any order.         *)
(*                                                                         *)
(* Abstractions: every booking costs Price, and the intent of a group      *)
(* GroupPrice, the discounted price the client sends.  A client confirms   *)
(* only the payments Stripe has reported to it as successful.  A job is    *)
(* only created and cancelled here (Auction has the rest), and everything  *)
(* happens before the pickup time and before the job is assigned.          *)
(* Transactions are counted (payments) or summed (refunds, hookRefunds).   *)
(***************************************************************************)
EXTENDS Naturals, FiniteSets, Functions

CONSTANTS
    Bookings,       \* the booking, or the two legs of the booking group
    Intents,        \* Stripe payment intents
    Price,          \* booking.customerPrice
    GroupPrice,     \* bookingGroup.totalPrice
    RefundAmounts,  \* amounts of partial refunds
    Clients,        \* concurrent HTTP requests in flight
    Hooks,          \* concurrent calls of the Stripe webhook
    Requests,       \* the requests that are issued
    Overlap,        \* may a handler run between two awaits of another?
    MaxRequests,    \* bound on requests
    MaxResends,     \* bound on duplicate deliveries of events
    MaxFailedPayments, \* bound on payment attempts the card issuer declines
    MaxErrors,      \* bound on awaits that throw
    MaxCrashes,     \* bound on crashes of the Node process
    None            \* null

Procs == Clients \union Hooks
Grouped == \E b, c \in Bookings : b # c

ASSUME PaymentsAssumption ==
    /\ IsFiniteSet(Bookings) /\ Bookings # {}
    /\ IsFiniteSet(Clients) /\ IsFiniteSet(Hooks) /\ IsFiniteSet(Intents)
    /\ None \notin Bookings \union Intents
    /\ Price \in Nat \ {0}
    /\ GroupPrice \in Nat \ {0}
    /\ RefundAmounts \subseteq 1 .. Price
    /\ Clients \intersect Hooks = {}
    /\ Overlap \in BOOLEAN

VARIABLES
    intent,       \* status at Stripe of each payment intent
    legs,         \* the bookings each intent pays (metadata.bookingId)
    returned,     \* what Stripe has refunded of each intent
    events,       \* deliveries due of each kind of event of each intent
    status,       \* booking.status
    groupStatus,  \* bookingGroup.status
    due,          \* booking.refundAmount, what a cancellation promised
    job,          \* status of the booking's job, or "NONE"
    payments,     \* COMPLETED CUSTOMER_PAYMENT rows of each booking by intent
    failedRow,    \* is there a FAILED row of the intent?
    refunds,      \* sum of a booking's REFUND rows written by requests
    hookRefunds,  \* sum of a booking's REFUND rows written by the webhook
    pc,           \* next step of each handler
    arg,          \* what the handler has read
    requests, resent, failedPayments, errors, crashes  \* the bounded counters

stripeVars == <<intent, legs, returned, events>>
bookingVars == <<status, groupStatus, due, job>>
ledgerVars == <<payments, failedRow, refunds, hookRefunds>>
procVars == <<pc, arg>>
faultVars == <<errors, crashes>>
countVars == <<requests, resent, failedPayments, faultVars>>
vars == <<stripeVars, bookingVars, ledgerVars, procVars, countVars>>

----------------------------------------------------------------------------
(* Types *)

EventKind == {"succeeded", "failed", "refunded"}
Status == {"PENDING_PAYMENT", "PAID", "CANCELLED", "REFUNDED"}
GroupStatus == {"ACTIVE", "PARTIALLY_CANCELLED", "FULLY_CANCELLED"}

\* The steps of a webhook call, by the kind of its event.
SucceededPCs == {"hook.pay", "hook.paid", "hook.job"}
RefundedPCs == {"refunded.record", "refunded.mark"}
PC == {"idle", "confirm.paid", "refund.stripe", "refund.record",
       "refund.mark", "cancel.job", "cancel.mark", "group.read",
       "group.write"} \union SucceededPCs \union RefundedPCs

By == {"refundPayment", "adminRefund", "cancelBooking"}

\* todo: the bookings a loop has not reached; job: the booking had a job;
\* group: the group status to write; by: the service that refunds.
Arg == [leg : Bookings \union {None}, intent : Intents \union {None},
        amount : Nat, todo : SUBSET Bookings, by : By \union {None},
        job : BOOLEAN, group : GroupStatus]
NoArg == [leg |-> None, intent |-> None, amount |-> 0, todo |-> {},
          by |-> None, job |-> FALSE, group |-> "ACTIVE"]

TypeOK ==
    /\ intent \in [Intents -> {"none", "open", "succeeded"}]
    /\ legs \in [Intents -> SUBSET Bookings]
    /\ returned \in [Intents -> Nat]
    /\ events \in [EventKind -> [Intents -> Nat]]
    /\ status \in [Bookings -> Status]
    /\ groupStatus \in GroupStatus
    /\ due \in [Bookings -> Nat]
    /\ job \in [Bookings -> {"NONE", "OPEN_FOR_BIDDING", "CANCELLED"}]
    /\ payments \in [Bookings -> [Intents -> Nat]]
    /\ failedRow \in [Intents -> BOOLEAN]
    /\ refunds \in [Bookings -> Nat]
    /\ hookRefunds \in [Bookings -> Nat]
    /\ pc \in [Procs -> PC]
    /\ arg \in [Procs -> Arg]
    /\ \A n \in {requests, resent, failedPayments, errors, crashes} : n \in Nat

Init ==
    /\ intent = [i \in Intents |-> "none"]
    /\ legs = [i \in Intents |-> {}]
    /\ returned = [i \in Intents |-> 0]
    /\ events = [k \in EventKind |-> [i \in Intents |-> 0]]
    /\ status = [b \in Bookings |-> "PENDING_PAYMENT"]
    /\ groupStatus = "ACTIVE"
    /\ due = [b \in Bookings |-> 0]
    /\ job = [b \in Bookings |-> "NONE"]
    /\ payments = [b \in Bookings |-> [i \in Intents |-> 0]]
    /\ failedRow = [i \in Intents |-> FALSE]
    /\ refunds = [b \in Bookings |-> 0]
    /\ hookRefunds = [b \in Bookings |-> 0]
    /\ pc = [p \in Procs |-> "idle"]
    /\ arg = [p \in Procs |-> NoArg]
    /\ requests = 0 /\ resent = 0 /\ failedPayments = 0
    /\ errors = 0 /\ crashes = 0

----------------------------------------------------------------------------
(* Handlers: start at a free process, continue at pc, return to "idle" *)

Idle == \A p \in Procs : pc[p] = "idle"

Free(p) == pc[p] = "idle" /\ (Overlap \/ Idle)

Request(p, name) ==
    /\ p \in Clients /\ name \in Requests /\ Free(p)
    /\ requests < MaxRequests /\ requests' = requests + 1
    /\ UNCHANGED <<resent, failedPayments, faultVars>>

Goto(p, step) == pc' = [pc EXCEPT ![p] = step] /\ UNCHANGED arg

GotoWith(p, step, a) ==
    /\ pc' = [pc EXCEPT ![p] = step]
    /\ arg' = [arg EXCEPT ![p] = a]

Return(p) == GotoWith(p, "idle", NoArg)

Send(kind, i) == events' = [events EXCEPT ![kind][i] = @ + 1]

AddPayment(b, i) == payments' = [payments EXCEPT ![b][i] = @ + 1]

SetStatus(b, s) == status' = [status EXCEPT ![b] = s]

----------------------------------------------------------------------------
(* Payment intents, and the payment at Stripe *)

IsGroupIntent(i) == Grouped /\ legs[i] = Bookings

Charge(i) == IF IsGroupIntent(i) THEN GroupPrice ELSE Price

CreateIntent(i, bs) ==
    /\ intent[i] = "none"
    /\ \A b \in bs : status[b] = "PENDING_PAYMENT"
    /\ intent' = [intent EXCEPT ![i] = "open"]
    /\ legs' = [legs EXCEPT ![i] = bs]
    /\ UNCHANGED <<returned, events, bookingVars, ledgerVars, procVars,
                   countVars>>

CreatePaymentIntent(i, b) ==
    "createPaymentIntent" \in Requests /\ CreateIntent(i, {b})

CreateGroupPaymentIntent(i) ==
    /\ "createGroupPaymentIntent" \in Requests
    /\ Grouped
    /\ CreateIntent(i, Bookings)

\* The customer completes the payment.
PaymentSucceeds(i) ==
    /\ intent[i] = "open"
    /\ intent' = [intent EXCEPT ![i] = "succeeded"]
    /\ Send("succeeded", i)
    /\ UNCHANGED <<legs, returned, bookingVars, ledgerVars, procVars,
                   countVars>>

\* An attempt is declined; the intent can still be paid.
PaymentFails(i) ==
    /\ intent[i] = "open" /\ failedPayments < MaxFailedPayments
    /\ failedPayments' = failedPayments + 1
    /\ Send("failed", i)
    /\ UNCHANGED <<intent, legs, returned, bookingVars, ledgerVars, procVars,
                   requests, resent, faultVars>>

----------------------------------------------------------------------------
(* The Stripe webhook *)

\* Stripe calls the webhook, and may call it again with the same event.
Receive(h, kind, i) ==
    /\ h \in Hooks /\ Free(h)
    /\ events[kind][i] > 0
    /\ \/ /\ events' = [events EXCEPT ![kind][i] = @ - 1]
          /\ UNCHANGED resent
       \/ /\ resent < MaxResends /\ resent' = resent + 1
          /\ UNCHANGED events
    /\ UNCHANGED <<intent, legs, returned, bookingVars, requests,
                   failedPayments, faultVars>>

\* Seeded bug: the look for an earlier transaction is dropped.
NeverRecorded(i) == i \notin Intents
\* Any transaction with the intent's id, a FAILED one too.
AlreadyRecorded(i) == failedRow[i] \/ \E b \in Bookings : payments[b][i] > 0

\* Seeded bug: the jobs are created before the payment is recorded.
PaymentSucceededJobsFirst(h, i) ==
    /\ Receive(h, "succeeded", i)
    /\ \/ AlreadyRecorded(i) /\ UNCHANGED procVars
       \/ /\ ~AlreadyRecorded(i)
          /\ GotoWith(h, "hook.job",
                      [NoArg EXCEPT !.intent = i, !.todo = legs[i]])
    /\ UNCHANGED ledgerVars

\* Seeded bug: the payment of a booking that is not pending is ignored.
PaymentSucceededIfPending(h, i) ==
    /\ Receive(h, "succeeded", i)
    /\ IF AlreadyRecorded(i) \/ \E b \in legs[i] : status[b] # "PENDING_PAYMENT"
       THEN UNCHANGED procVars
       ELSE GotoWith(h, "hook.pay", [NoArg EXCEPT !.intent = i, !.todo = legs[i]])
    /\ UNCHANGED ledgerVars

PaymentSucceeded(h, i) ==
    /\ Receive(h, "succeeded", i)
    /\ \/ AlreadyRecorded(i) /\ UNCHANGED procVars
       \/ /\ ~AlreadyRecorded(i)
          /\ GotoWith(h, "hook.pay",
                      [NoArg EXCEPT !.intent = i, !.todo = legs[i]])
    /\ UNCHANGED ledgerVars

\* The loop over the bookings: a transaction row ...
RecordPayment(h, b) ==
    /\ pc[h] = "hook.pay" /\ b \in arg[h].todo
    /\ AddPayment(b, arg[h].intent)
    /\ GotoWith(h, "hook.paid", [arg[h] EXCEPT !.leg = b])
    /\ UNCHANGED <<stripeVars, bookingVars, failedRow, refunds, hookRefunds,
                   countVars>>

\* ... then the status; after the last booking, the jobs.  (confirmPayment
\* ends with the same write.)
MarkPaid(p) ==
    /\ pc[p] \in {"hook.paid", "confirm.paid"}
    /\ SetStatus(arg[p].leg, "PAID")
    /\ LET rest == arg[p].todo \ {arg[p].leg} IN
       \/ pc[p] = "confirm.paid" /\ Return(p)
       \/ /\ pc[p] = "hook.paid" /\ rest # {}
          /\ GotoWith(p, "hook.pay", [arg[p] EXCEPT !.todo = rest, !.leg = None])
       \/ /\ pc[p] = "hook.paid" /\ rest = {}
          /\ GotoWith(p, "hook.job", [arg[p] EXCEPT !.todo = legs[arg[p].intent],
                                                    !.leg = None])
    /\ UNCHANGED <<stripeVars, groupStatus, due, job, ledgerVars, countVars>>

\* Seeded bug: only the first booking of the journey gets a job.
CreateFirstJob(h, b) ==
    /\ pc[h] = "hook.job" /\ b \in arg[h].todo
    /\ job' = [job EXCEPT ![b] = IF @ = "NONE" THEN "OPEN_FOR_BIDDING" ELSE @]
    /\ Return(h)
    /\ UNCHANGED <<stripeVars, status, groupStatus, due, ledgerVars, countVars>>

\* createJobForBooking throws if the booking has a job: the error is logged,
\* Stripe is answered 200, and the bookings not reached get no job.
CreateJob(h, b) ==
    /\ pc[h] = "hook.job" /\ b \in arg[h].todo
    /\ LET rest == arg[h].todo \ {b} IN
       \/ job[b] # "NONE" /\ UNCHANGED job /\ Return(h)
       \/ /\ job[b] = "NONE"
          /\ job' = [job EXCEPT ![b] = "OPEN_FOR_BIDDING"]
          /\ IF rest = {} THEN Return(h)
             ELSE GotoWith(h, "hook.job", [arg[h] EXCEPT !.todo = rest])
    /\ UNCHANGED <<stripeVars, status, groupStatus, due, ledgerVars, countVars>>

\* For a group the row's bookingId is the group's id, which the foreign key
\* refuses.
PaymentFailed(h, i) ==
    /\ Receive(h, "failed", i)
    /\ failedRow' = [failedRow EXCEPT ![i] = @ \/ ~IsGroupIntent(i)]
    /\ UNCHANGED <<payments, refunds, hookRefunds, procVars>>

\* Some transaction of the intent, whichever booking it is for.
ChargeRefunded(h, i) ==
    /\ Receive(h, "refunded", i)
    /\ \/ ~AlreadyRecorded(i) /\ UNCHANGED procVars
       \/ \E b \in Bookings :
            /\ payments[b][i] > 0
            /\ GotoWith(h, "refunded.record", [NoArg EXCEPT
                  !.intent = i, !.leg = b, !.amount = Price])
       \/ \E b \in legs[i] :
            /\ failedRow[i]
            /\ GotoWith(h, "refunded.record", [NoArg EXCEPT
                  !.intent = i, !.leg = b])
    /\ UNCHANGED ledgerVars

RecordChargeRefund(h) ==
    /\ pc[h] = "refunded.record"
    /\ hookRefunds' = [hookRefunds EXCEPT ![arg[h].leg] = @ + arg[h].amount]
    /\ Goto(h, "refunded.mark")
    /\ UNCHANGED <<stripeVars, bookingVars, payments, failedRow, refunds,
                   countVars>>

MarkChargeRefunded(h) ==
    /\ pc[h] = "refunded.mark"
    /\ SetStatus(arg[h].leg, "REFUNDED")
    /\ Return(h)
    /\ UNCHANGED <<stripeVars, groupStatus, due, job, ledgerVars, countVars>>

----------------------------------------------------------------------------
(* The client confirms a payment *)

\* confirmPayment: no look at the status, at Stripe or at other rows.
ConfirmPayment(p, b, i) ==
    /\ Request(p, "confirmPayment")
    /\ intent[i] = "succeeded" /\ legs[i] = {b}
    /\ AddPayment(b, i)
    /\ GotoWith(p, "confirm.paid", [NoArg EXCEPT !.leg = b])
    /\ UNCHANGED <<stripeVars, bookingVars, failedRow, refunds, hookRefunds>>

\* confirmGroupPayment: one database transaction; no jobs.
ConfirmGroupPayment(p, i) ==
    /\ Request(p, "confirmGroupPayment")
    /\ intent[i] = "succeeded" /\ IsGroupIntent(i)
    /\ payments' = [b \in Bookings |-> [payments[b] EXCEPT ![i] = @ + 1]]
    /\ status' = [b \in Bookings |-> "PAID"]
    /\ UNCHANGED <<stripeVars, groupStatus, due, job, failedRow, refunds,
                   hookRefunds, procVars>>

----------------------------------------------------------------------------
(* Refunds *)

\* Some COMPLETED payment of the booking is refunded at Stripe; without one,
\* the handler goes on at step "unpaid".
StartRefund(p, b, a, step, unpaid) ==
    \/ \E i \in Intents :
         /\ payments[b][i] > 0
         /\ GotoWith(p, step, [a EXCEPT !.leg = b, !.intent = i])
    \/ /\ \A i \in Intents : payments[b][i] = 0
       /\ GotoWith(p, unpaid, [a EXCEPT !.leg = b])

\* payments/refund: the full price, whatever the booking's status.
RefundPayment(p, b) ==
    /\ Request(p, "refundPayment")
    /\ StartRefund(p, b, [NoArg EXCEPT !.by = "refundPayment", !.amount = Price],
                   "refund.stripe", "refund.record")
    /\ UNCHANGED <<stripeVars, bookingVars, ledgerVars>>

\* refundBooking of the admin service: an amount, or the full price.
AdminRefund(p, b, n) ==
    /\ Request(p, "refundBooking")
    /\ status[b] # "REFUNDED"
    /\ StartRefund(p, b, [NoArg EXCEPT !.by = "adminRefund", !.amount = n],
                   "refund.stripe", "refund.record")
    /\ UNCHANGED <<stripeVars, bookingVars, ledgerVars>>

AfterRefund(hasJob) == IF hasJob THEN "cancel.job" ELSE "cancel.mark"

\* Seeded bug: a refunded booking can be cancelled too.
CancelRefundedBooking(p, b, n) ==
    /\ Request(p, "cancelBooking")
    /\ status[b] # "CANCELLED"
    /\ LET a == [NoArg EXCEPT !.by = "cancelBooking", !.amount = n,
                              !.job = job[b] # "NONE"]
       IN StartRefund(p, b, a, IF n > 0 THEN "refund.stripe" ELSE AfterRefund(a.job),
                      AfterRefund(a.job))
    /\ UNCHANGED <<stripeVars, bookingVars, ledgerVars>>

\* cancelBooking: the amount depends on the cancellation policy, not on
\* whether the booking was paid.
CancelBooking(p, b, n) ==
    /\ Request(p, "cancelBooking")
    /\ status[b] \notin {"CANCELLED", "REFUNDED"}
    /\ LET a == [NoArg EXCEPT !.by = "cancelBooking", !.amount = n,
                              !.job = job[b] # "NONE"]
       IN StartRefund(p, b, a, IF n > 0 THEN "refund.stripe" ELSE AfterRefund(a.job),
                      AfterRefund(a.job))
    /\ UNCHANGED <<stripeVars, bookingVars, ledgerVars>>

\* cancelBooking catches the error and cancels without the refund; the
\* others answer with the error.
RefundStepThrows(p) ==
    \/ /\ arg[p].by = "cancelBooking"
       /\ Goto(p, AfterRefund(arg[p].job))
    \/ arg[p].by # "cancelBooking" /\ Return(p)

\* Seeded bug: a cancellation does not record its refund.
RefundUnrecorded(p) ==
    /\ pc[p] = "refund.stripe"
    /\ LET i == arg[p].intent
           total == returned[i] + arg[p].amount
       IN IF total > Charge(i)
          THEN RefundStepThrows(p) /\ UNCHANGED <<returned, events>>
          ELSE /\ returned' = [returned EXCEPT ![i] = total]
               /\ Send("refunded", i)
               /\ Goto(p, IF arg[p].by = "cancelBooking"
                          THEN AfterRefund(arg[p].job) ELSE "refund.record")
    /\ UNCHANGED <<intent, legs, bookingVars, ledgerVars, countVars>>

\* Stripe refuses to refund more of an intent than was charged.
RefundAtStripe(p) ==
    /\ pc[p] = "refund.stripe"
    /\ LET i == arg[p].intent
           total == returned[i] + arg[p].amount
       IN \/ /\ total > Charge(i)
             /\ RefundStepThrows(p)
             /\ UNCHANGED <<returned, events>>
          \/ /\ total <= Charge(i)
             /\ returned' = [returned EXCEPT ![i] = total]
             /\ Send("refunded", i)
             /\ Goto(p, "refund.record")
    /\ UNCHANGED <<intent, legs, bookingVars, ledgerVars, countVars>>

RecordRefund(p) ==
    /\ pc[p] = "refund.record"
    /\ refunds' = [refunds EXCEPT ![arg[p].leg] = @ + arg[p].amount]
    /\ Goto(p, IF arg[p].by = "cancelBooking" THEN AfterRefund(arg[p].job)
               ELSE "refund.mark")
    /\ UNCHANGED <<stripeVars, bookingVars, payments, failedRow, hookRefunds,
                   countVars>>

ThenGroupStatus(p) == IF Grouped THEN Goto(p, "group.read") ELSE Return(p)

\* Seeded bug: a status the other handlers do not know.
MarkPartiallyRefunded(p) ==
    /\ pc[p] = "refund.mark"
    /\ SetStatus(arg[p].leg, "PARTIALLY_REFUNDED")
    /\ ThenGroupStatus(p)
    /\ UNCHANGED <<stripeVars, groupStatus, due, job, ledgerVars, countVars>>

MarkRefunded(p) ==
    /\ pc[p] = "refund.mark"
    /\ SetStatus(arg[p].leg, "REFUNDED")
    /\ ThenGroupStatus(p)
    /\ UNCHANGED <<stripeVars, groupStatus, due, job, ledgerVars, countVars>>

CancelJob(p) ==
    /\ pc[p] = "cancel.job"
    /\ job' = [job EXCEPT ![arg[p].leg] = "CANCELLED"]
    /\ Goto(p, "cancel.mark")
    /\ UNCHANGED <<stripeVars, status, groupStatus, due, ledgerVars, countVars>>

MarkCancelled(p) ==
    /\ pc[p] = "cancel.mark"
    /\ SetStatus(arg[p].leg, "CANCELLED")
    /\ due' = [due EXCEPT ![arg[p].leg] = arg[p].amount]
    /\ ThenGroupStatus(p)
    /\ UNCHANGED <<stripeVars, groupStatus, job, ledgerVars, countVars>>

\* updateBookingGroupStatus: the one of the bookings service does not count
\* refunded bookings.
Inactive(by) == IF by = "cancelBooking" THEN {"CANCELLED"}
                ELSE {"CANCELLED", "REFUNDED"}

ReadGroup(p) ==
    /\ pc[p] = "group.read"
    /\ LET inactive == {b \in Bookings : status[b] \in Inactive(arg[p].by)}
           new == IF inactive = Bookings THEN "FULLY_CANCELLED"
                  ELSE IF inactive # {} THEN "PARTIALLY_CANCELLED" ELSE "ACTIVE"
       IN GotoWith(p, "group.write", [arg[p] EXCEPT !.group = new])
    /\ UNCHANGED <<stripeVars, bookingVars, ledgerVars, countVars>>

WriteGroup(p) ==
    /\ pc[p] = "group.write"
    /\ groupStatus' = arg[p].group
    /\ Return(p)
    /\ UNCHANGED <<stripeVars, status, due, job, ledgerVars, countVars>>

----------------------------------------------------------------------------
(* Faults *)

\* An await throws.  The webhook logs the error and answers 200.
AwaitFails(p) ==
    /\ pc[p] # "idle" /\ errors < MaxErrors
    /\ errors' = errors + 1
    /\ IF pc[p] \in {"refund.stripe", "refund.record"}
       THEN RefundStepThrows(p) ELSE Return(p)
    /\ UNCHANGED <<stripeVars, bookingVars, ledgerVars, requests, resent,
                   failedPayments, crashes>>

\* The process dies: Stripe has no answer and sends the event again.
Unanswered(kind, i) ==
    {h \in Hooks :
        /\ arg[h].intent = i
        /\ \/ kind = "succeeded" /\ pc[h] \in SucceededPCs
           \/ kind = "refunded" /\ pc[h] \in RefundedPCs}

Crash ==
    /\ ~Idle /\ crashes < MaxCrashes
    /\ crashes' = crashes + 1
    /\ pc' = [p \in Procs |-> "idle"]
    /\ arg' = [p \in Procs |-> NoArg]
    /\ events' = [kind \in EventKind |-> [i \in Intents |->
                    events[kind][i] + Cardinality(Unanswered(kind, i))]]
    /\ UNCHANGED <<intent, legs, returned, bookingVars, ledgerVars, requests,
                   resent, failedPayments, errors>>

----------------------------------------------------------------------------
(* The specification *)

Stripe(i) ==
    \/ \E b \in Bookings : CreatePaymentIntent(i, b)
    \/ CreateGroupPaymentIntent(i)
    \/ PaymentSucceeds(i)
    \/ PaymentFails(i)

Webhook(h) ==
    \E i \in Intents :
        PaymentSucceeded(h, i) \/ PaymentFailed(h, i) \/ ChargeRefunded(h, i)

StartRequest(p) ==
    \/ \E i \in Intents :
         (\E b \in Bookings : ConfirmPayment(p, b, i)) \/ ConfirmGroupPayment(p, i)
    \/ \E b \in Bookings :
         \/ RefundPayment(p, b)
         \/ \E n \in RefundAmounts \union {Price} : AdminRefund(p, b, n)
         \/ \E n \in RefundAmounts \union {0, Price} : CancelBooking(p, b, n)

Continue(p) ==
    \/ \E b \in Bookings : RecordPayment(p, b) \/ CreateJob(p, b)
    \/ MarkPaid(p)
    \/ RecordChargeRefund(p)
    \/ MarkChargeRefunded(p)
    \/ RefundAtStripe(p)
    \/ RecordRefund(p)
    \/ MarkRefunded(p)
    \/ CancelJob(p)
    \/ MarkCancelled(p)
    \/ ReadGroup(p)
    \/ WriteGroup(p)

Next ==
    \/ \E i \in Intents : Stripe(i)
    \/ \E p \in Procs : Webhook(p) \/ StartRequest(p) \/ Continue(p)
    \/ \E p \in Procs : AwaitFails(p)
    \/ Crash

Spec == Init /\ [][Next]_vars

\* Stripe delivers the event of a payment, a started handler goes on;
\* nobody has to pay or to issue a request.
Fairness ==
    /\ \A p \in Procs : WF_vars(Continue(p))
    /\ \A i \in Intents : SF_vars(\E h \in Hooks : PaymentSucceeded(h, i))

----------------------------------------------------------------------------
(* What holds however handlers overlap *)

NoFault == errors = 0 /\ crashes = 0

\* A webhook call that has not yet recorded the payment i for booking b.
Recording(h, b, i) ==
    /\ pc[h] \in {"hook.pay", "hook.paid"}
    /\ arg[h].intent = i /\ b \in arg[h].todo

\* A successful payment is not lost: for each booking it pays, the payment
\* is on record, or a call of the webhook is about to record it, or Stripe
\* still has the event to deliver.  It holds with duplicate and concurrent
\* deliveries, and beside every request, as long as no attempt failed first
\* (stripe-webhook.controller.ts:78-236).
SuccessNeverLost ==
    NoFault =>
        \A i \in Intents : intent[i] = "succeeded" /\ ~failedRow[i] =>
            \/ events["succeeded"][i] > 0
            \/ \A b \in legs[i] :
                 payments[b][i] > 0 \/ \E h \in Hooks : Recording(h, b, i)

\* Operators are asked to bid only for a booking the customer paid for: no
\* fault, duplicate or race creates a job before the payment row
\* (stripe-webhook.controller.ts:126-194).
JobOnlyIfPaid ==
    \A b \in Bookings : job[b] # "NONE" =>
        \E i \in Intents : intent[i] = "succeeded" /\ payments[b][i] > 0

\* Money that Stripe returned is on record as a refund, or a handler is
\* about to record it (payments.service.ts:271-287, admin.service.ts:1492-1509,
\* bookings.service.ts:952-969).
ReturnedIsRecorded ==
    NoFault =>
        SumFunction(returned)
            <= SumFunction(refunds)
               + SumFunctionOnSet([p \in Procs |-> arg[p].amount],
                                  {p \in Procs : pc[p] = "refund.record"})

\* Nothing is under way and every successful payment has been announced.
Settled == Idle /\ \A i \in Intents : events["succeeded"][i] = 0

\* "Job created automatically when Booking status changes to PAID"
\* (DATABASE_SCHEMA.md:749): when the webhook calls are over, duplicates
\* and the ones that ran into each other included, a paid booking has its job.
PaidHasJob ==
    NoFault /\ Settled => \A b \in Bookings : status[b] = "PAID" => job[b] # "NONE"

\* Every successful payment leads to a job for each booking it pays, whatever
\* cancellation or refund runs beside the webhook.
PaymentLeadsToJobs ==
    \A i \in Intents : intent[i] = "succeeded"
        ~> \A b \in legs[i] : job[b] # "NONE"

----------------------------------------------------------------------------
(* What holds when calls do not overlap *)

\* "No duplicate transactions created" (PAYMENT_FLOW_BUG_FIX.md:339): an
\* intent is recorded at most once per booking, however often the event is
\* delivered and wherever an earlier call failed.
PaidOnce == \A b \in Bookings, i \in Intents : payments[b][i] <= 1

\* The refund written on a cancelled booking, and told to the customer, was
\* made (bookings.service.ts:952-1012).
PromisedRefundMade ==
    NoFault /\ Idle =>
        \A b \in Bookings :
            /\ status[b] = "CANCELLED"
            /\ \E i \in Intents : payments[b][i] > 0
            => refunds[b] >= due[b]

----------------------------------------------------------------------------
(* What the documentation says and the code does not do *)

\* "CUSTOMER_PAYMENT created when Stripe payment succeeds"
\* (DATABASE_SCHEMA.md:822), also after a declined attempt.
SuccessRecorded ==
    NoFault /\ Settled =>
        \A i \in Intents : intent[i] = "succeeded" =>
            \A b \in legs[i] : payments[b][i] > 0

\* "Stripe webhook auto-updates BOTH bookings to PAID"
\* (BOOKING_PAYMENT_FLOW.md:112).
BothOrNeitherPaid ==
    Settled => \A i \in Intents : IsGroupIntent(i) =>
        \A b, c \in Bookings : payments[b][i] > 0 => payments[c][i] > 0

\* "charge.refunded - Update booking status to REFUNDED"
\* (API_SPECIFICATION.md:1667-1669): the booking that was refunded.
RefundedHasRefund ==
    Idle => \A b \in Bookings : status[b] = "REFUNDED" => refunds[b] > 0

\* "No duplicate transactions created" (PAYMENT_FLOW_BUG_FIX.md:339): the
\* REFUND rows of a booking do not add up to more than its price.
RefundRowsWithinPrice ==
    \A b \in Bookings : refunds[b] + hookRefunds[b] <= Price

\* "Status auto-updates based on constituent booking statuses"
\* (DATABASE_SCHEMA.md:682).
GroupFollowsBookings ==
    Idle /\ Grouped /\ (\A b \in Bookings : status[b] \in {"CANCELLED", "REFUNDED"})
        => groupStatus = "FULLY_CANCELLED"
=============================================================================
