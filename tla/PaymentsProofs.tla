--------------------------- MODULE PaymentsProofs ---------------------------
(***************************************************************************)
(* Proofs about Payments: types, no successful payment is lost, no job is  *)
(* created for a booking that is not paid, a paid booking gets its job,    *)
(* and returned money is on record, for any number of bookings, intents,   *)
(* requests and webhook calls in flight, any prices, with or without       *)
(* overlapping handlers, and with any number of duplicates.  When handlers *)
(* do not overlap, also that a payment is recorded once and that the       *)
(* refund a cancellation promises was made, in Payments and in two of its  *)
(* scenarios.                                                              *)
(***************************************************************************)
EXTENDS MCPaymentScenarios, FiniteSetTheorems, TLAPS

----------------------------------------------------------------------------
(* Lemmas about the helpers *)

\* The number of webhook calls that a crash leaves unanswered.
LEMMA UnansweredNat ==
    ASSUME NEW kind, NEW i
    PROVE  /\ Cardinality(Unanswered(kind, i)) \in Nat
           /\ Unanswered(kind, i) = {} => Cardinality(Unanswered(kind, i)) = 0
  <1>1. Unanswered(kind, i) \subseteq Hooks
    BY DEF Unanswered
  <1>2. IsFiniteSet(Unanswered(kind, i))
    BY <1>1, FS_Subset, PaymentsAssumption DEF PaymentsAssumption
  <1>3. QED BY <1>2, FS_CardinalityType, FS_EmptySet

\* What moving a handler to another step does to the handlers.
LEMMA GotoType ==
    ASSUME TypeOK, NEW p \in Procs, NEW step \in PC, Goto(p, step)
    PROVE  /\ pc' \in [Procs -> PC] /\ arg' \in [Procs -> Arg]
           /\ pc'[p] = step /\ arg'[p] = arg[p]
           /\ \A q \in Procs : q # p => pc'[q] = pc[q] /\ arg'[q] = arg[q]
  <1>1. pc \in [Procs -> PC] /\ arg \in [Procs -> Arg]
    BY DEF TypeOK
  <1>2. pc' = [pc EXCEPT ![p] = step] /\ arg' = arg
    BY DEF Goto
  <1>3. QED BY <1>1, <1>2

LEMMA GotoWithType ==
    ASSUME TypeOK, NEW p \in Procs, NEW step \in PC, NEW a \in Arg,
           GotoWith(p, step, a)
    PROVE  /\ pc' \in [Procs -> PC] /\ arg' \in [Procs -> Arg]
           /\ pc'[p] = step /\ arg'[p] = a
           /\ \A q \in Procs : q # p => pc'[q] = pc[q] /\ arg'[q] = arg[q]
  <1>1. pc \in [Procs -> PC] /\ arg \in [Procs -> Arg]
    BY DEF TypeOK
  <1>2. pc' = [pc EXCEPT ![p] = step] /\ arg' = [arg EXCEPT ![p] = a]
    BY DEF GotoWith
  <1>3. QED BY <1>1, <1>2

LEMMA NoArgType == NoArg \in Arg
  BY DEF NoArg, Arg, GroupStatus

LEMMA ReturnType ==
    ASSUME TypeOK, NEW p \in Procs, Return(p)
    PROVE  /\ pc' \in [Procs -> PC] /\ arg' \in [Procs -> Arg]
           /\ pc'[p] = "idle" /\ arg'[p] = NoArg
           /\ \A q \in Procs : q # p => pc'[q] = pc[q] /\ arg'[q] = arg[q]
  <1>1. NoArg \in Arg
    BY NoArgType
  <1>2. "idle" \in PC
    BY DEF PC
  <1>3. GotoWith(p, "idle", NoArg)
    BY DEF Return
  <1>4. QED BY <1>1, <1>2, <1>3, GotoWithType

\* What the handler p does to the handlers when it takes a step: no other
\* handler's state changes.
OnlyMoves(p) ==
    /\ pc' \in [Procs -> PC] /\ arg' \in [Procs -> Arg]
    /\ \A q \in Procs : q # p => pc'[q] = pc[q] /\ arg'[q] = arg[q]

LEMMA StayMoves ==
    ASSUME TypeOK, NEW p, UNCHANGED procVars
    PROVE  OnlyMoves(p)
  BY DEF TypeOK, procVars, OnlyMoves

LEMMA GotoMoves ==
    ASSUME TypeOK, NEW p \in Procs, NEW step \in PC, Goto(p, step)
    PROVE  OnlyMoves(p)
  BY GotoType DEF OnlyMoves

LEMMA GotoWithMoves ==
    ASSUME TypeOK, NEW p \in Procs, NEW step \in PC, NEW a \in Arg,
           GotoWith(p, step, a)
    PROVE  OnlyMoves(p)
  BY GotoWithType DEF OnlyMoves

LEMMA ReturnMoves ==
    ASSUME TypeOK, NEW p \in Procs, Return(p)
    PROVE  OnlyMoves(p)
  BY ReturnType DEF OnlyMoves

\* The steps after a refund, whether it succeeded or threw.
LEMMA AfterRefundType ==
    ASSUME NEW hasJob
    PROVE  AfterRefund(hasJob) \in PC
  BY DEF AfterRefund, PC

LEMMA RefundThrowsMoves ==
    ASSUME TypeOK, NEW p \in Procs, RefundStepThrows(p)
    PROVE  OnlyMoves(p)
  BY AfterRefundType, GotoMoves, ReturnMoves DEF RefundStepThrows

LEMMA ThenGroupMoves ==
    ASSUME TypeOK, NEW p \in Procs, ThenGroupStatus(p)
    PROVE  OnlyMoves(p)
  <1>1. "group.read" \in PC
    BY DEF PC
  <1>2. QED BY <1>1, GotoMoves, ReturnMoves DEF ThenGroupStatus

\* A refund starts by choosing a payment of the booking.
LEMMA StartRefundMoves ==
    ASSUME TypeOK, NEW p \in Procs, NEW b \in Bookings, NEW a \in Arg,
           NEW step \in PC, NEW unpaid \in PC,
           StartRefund(p, b, a, step, unpaid)
    PROVE  OnlyMoves(p)
  <1>1. \A i \in Intents : [a EXCEPT !.leg = b, !.intent = i] \in Arg
    BY DEF Arg
  <1>2. [a EXCEPT !.leg = b] \in Arg
    BY DEF Arg
  <1>3. CASE \E i \in Intents :
                 GotoWith(p, step, [a EXCEPT !.leg = b, !.intent = i])
    BY <1>1, <1>3, GotoWithMoves
  <1>4. CASE GotoWith(p, unpaid, [a EXCEPT !.leg = b])
    BY <1>2, <1>4, GotoWithMoves
  <1>5. QED BY <1>3, <1>4 DEF StartRefund

\* Adding to one entry of a table of numbers, or to none of them.
LEMMA AddType ==
    ASSUME NEW S, NEW f \in [S -> Nat], NEW x, NEW n \in Nat
    PROVE  [f EXCEPT ![x] = @ + n] \in [S -> Nat]
  <1>1. CASE x \in S
    BY <1>1
  <1>2. CASE x \notin S
    BY <1>2
  <1>3. QED BY <1>1, <1>2

LEMMA AddType2 ==
    ASSUME NEW S, NEW T, NEW f \in [S -> [T -> Nat]], NEW x \in S, NEW y
    PROVE  [f EXCEPT ![x][y] = @ + 1] \in [S -> [T -> Nat]]
  <1>1. [f[x] EXCEPT ![y] = @ + 1] \in [T -> Nat]
    BY AddType
  <1>2. [f EXCEPT ![x][y] = @ + 1] = [f EXCEPT ![x] = [f[x] EXCEPT ![y] = @ + 1]]
    OBVIOUS
  <1>3. QED BY <1>1

LEMMA SendType ==
    ASSUME TypeOK, NEW kind \in EventKind, NEW i, Send(kind, i)
    PROVE  events' \in [EventKind -> [Intents -> Nat]]
  BY AddType2 DEF TypeOK, Send

LEMMA SetStatusType ==
    ASSUME TypeOK, NEW b, NEW s \in Status, SetStatus(b, s)
    PROVE  status' \in [Bookings -> Status]
  BY DEF TypeOK, SetStatus

LEMMA AddPaymentType ==
    ASSUME TypeOK, NEW b \in Bookings, NEW i, AddPayment(b, i)
    PROVE  payments' \in [Bookings -> [Intents -> Nat]]
  BY AddType2 DEF TypeOK, AddPayment

----------------------------------------------------------------------------
(* Type correctness *)

\* What a handler's start or a step that only reads leaves alone.
Tables == <<stripeVars, bookingVars, ledgerVars, countVars>>

LEMMA TablesType ==
    ASSUME TypeOK, NEW p, UNCHANGED Tables, OnlyMoves(p)
    PROVE  TypeOK'
  BY DEF TypeOK, OnlyMoves, Tables, stripeVars, bookingVars, ledgerVars,
         countVars, faultVars

\* Stripe's side of a payment.
LEMMA StripeType ==
    ASSUME TypeOK, NEW i \in Intents, Stripe(i)
    PROVE  TypeOK'
  <1> USE DEF bookingVars, ledgerVars, procVars, countVars, faultVars
  <1>1. ASSUME NEW bs \in SUBSET Bookings, CreateIntent(i, bs)
        PROVE  TypeOK'
    BY <1>1 DEF CreateIntent, TypeOK
  <1>2. ASSUME NEW b \in Bookings, CreatePaymentIntent(i, b)
        PROVE  TypeOK'
    BY <1>1, <1>2 DEF CreatePaymentIntent
  <1>3. CASE CreateGroupPaymentIntent(i)
    BY <1>1, <1>3 DEF CreateGroupPaymentIntent
  <1>4. CASE PaymentSucceeds(i)
    <2>1. events' \in [EventKind -> [Intents -> Nat]]
      BY <1>4, SendType DEF PaymentSucceeds, EventKind
    <2>2. QED BY <1>4, <2>1 DEF PaymentSucceeds, TypeOK
  <1>5. CASE PaymentFails(i)
    <2>1. events' \in [EventKind -> [Intents -> Nat]]
      BY <1>5, SendType DEF PaymentFails, EventKind
    <2>2. QED BY <1>5, <2>1 DEF PaymentFails, TypeOK
  <1>6. QED BY <1>2, <1>3, <1>4, <1>5 DEF Stripe

\* A delivery takes an event, or repeats one.
LEMMA ReceiveType ==
    ASSUME TypeOK, NEW h, NEW kind \in EventKind, NEW i \in Intents,
           Receive(h, kind, i)
    PROVE  /\ events' \in [EventKind -> [Intents -> Nat]]
           /\ resent' \in Nat
  <1>1. events \in [EventKind -> [Intents -> Nat]] /\ resent \in Nat
    BY DEF TypeOK
  <1>2. CASE events' = [events EXCEPT ![kind][i] = @ - 1] /\ resent' = resent
    <2>1. events[kind][i] - 1 \in Nat
      BY <1>1 DEF Receive
    <2>2. [events[kind] EXCEPT ![i] = @ - 1] \in [Intents -> Nat]
      BY <1>1, <2>1
    <2>3. QED BY <1>1, <1>2, <2>2
  <1>3. CASE events' = events /\ resent' = resent + 1
    BY <1>1, <1>3
  <1>4. QED BY <1>2, <1>3 DEF Receive

\* The first step of a call of the webhook.
LEMMA WebhookMoves ==
    ASSUME TypeOK, NEW p \in Procs, Webhook(p)
    PROVE  OnlyMoves(p)
  <1>1. "hook.pay" \in PC /\ "refunded.record" \in PC
    BY DEF PC, SucceededPCs, RefundedPCs
  <1>2. ASSUME NEW i \in Intents, PaymentSucceeded(p, i)
        PROVE  OnlyMoves(p)
    <2>1. [NoArg EXCEPT !.intent = i, !.todo = legs[i]] \in Arg
      BY NoArgType DEF Arg, NoArg, TypeOK
    <2>2. QED BY <1>1, <1>2, <2>1, StayMoves, GotoWithMoves DEF PaymentSucceeded
  <1>3. ASSUME NEW i \in Intents, PaymentFailed(p, i)
        PROVE  OnlyMoves(p)
    BY <1>3, StayMoves DEF PaymentFailed, procVars
  <1>4. ASSUME NEW i \in Intents, ChargeRefunded(p, i)
        PROVE  OnlyMoves(p)
    <2>1. \A b \in Bookings :
            /\ [NoArg EXCEPT !.intent = i, !.leg = b, !.amount = Price] \in Arg
            /\ [NoArg EXCEPT !.intent = i, !.leg = b] \in Arg
      BY NoArgType, PaymentsAssumption DEF Arg, NoArg, PaymentsAssumption
    <2>2. legs[i] \subseteq Bookings
      BY DEF TypeOK
    <2>3. QED BY <1>1, <1>4, <2>1, <2>2, StayMoves, GotoWithMoves
              DEF ChargeRefunded
  <1>5. QED BY <1>2, <1>3, <1>4 DEF Webhook

LEMMA WebhookType ==
    ASSUME TypeOK, NEW p \in Procs, Webhook(p)
    PROVE  TypeOK'
  <1> USE DEF bookingVars, ledgerVars, countVars, faultVars
  <1>1. OnlyMoves(p)
    BY WebhookMoves
  <1>2. "succeeded" \in EventKind /\ "failed" \in EventKind
           /\ "refunded" \in EventKind
    BY DEF EventKind
  <1>3. ASSUME NEW i \in Intents, NEW kind \in EventKind, Receive(p, kind, i),
               UNCHANGED <<payments, refunds, hookRefunds>>,
               failedRow' \in [Intents -> BOOLEAN]
        PROVE  TypeOK'
    BY <1>1, <1>3, ReceiveType DEF Receive, TypeOK, OnlyMoves
  <1>4. ASSUME NEW i \in Intents,
               PaymentSucceeded(p, i) \/ ChargeRefunded(p, i)
        PROVE  TypeOK'
    BY <1>2, <1>3, <1>4 DEF PaymentSucceeded, ChargeRefunded, TypeOK
  <1>5. ASSUME NEW i \in Intents, PaymentFailed(p, i)
        PROVE  TypeOK'
    <2>1. failedRow' \in [Intents -> BOOLEAN]
      BY <1>5 DEF PaymentFailed, TypeOK
    <2>2. QED BY <1>2, <1>3, <1>5, <2>1 DEF PaymentFailed
  <1>6. QED BY <1>4, <1>5 DEF Webhook

\* The first step of a request.
LEMMA StartRequestMoves ==
    ASSUME TypeOK, NEW p \in Procs, StartRequest(p)
    PROVE  OnlyMoves(p)
  <1>1. {"confirm.paid", "refund.stripe", "refund.record"} \subseteq PC
    BY DEF PC
  <1>2. Price \in Nat /\ RefundAmounts \subseteq Nat
    BY PaymentsAssumption DEF PaymentsAssumption
  <1>3. \A by \in By, n \in Nat, has \in BOOLEAN :
            [NoArg EXCEPT !.by = by, !.amount = n, !.job = has] \in Arg
    BY NoArgType DEF NoArg, Arg
  <1>4. \A by \in By, n \in Nat : [NoArg EXCEPT !.by = by, !.amount = n] \in Arg
    BY NoArgType DEF NoArg, Arg
  <1>5. "refundPayment" \in By /\ "adminRefund" \in By /\ "cancelBooking" \in By
    BY DEF By
  <1>6. ASSUME NEW i \in Intents, NEW b \in Bookings, ConfirmPayment(p, b, i)
        PROVE  OnlyMoves(p)
    <2>1. [NoArg EXCEPT !.leg = b] \in Arg
      BY NoArgType DEF NoArg, Arg
    <2>2. QED BY <1>1, <1>6, <2>1, GotoWithMoves DEF ConfirmPayment
  <1>7. ASSUME NEW i \in Intents, ConfirmGroupPayment(p, i)
        PROVE  OnlyMoves(p)
    BY <1>7, StayMoves DEF ConfirmGroupPayment
  <1>8. ASSUME NEW b \in Bookings, RefundPayment(p, b)
        PROVE  OnlyMoves(p)
    BY <1>1, <1>2, <1>4, <1>5, <1>8, StartRefundMoves DEF RefundPayment
  <1>9. ASSUME NEW b \in Bookings, NEW n \in RefundAmounts \union {Price},
               AdminRefund(p, b, n)
        PROVE  OnlyMoves(p)
    <2>1. n \in Nat
      BY <1>2
    <2>2. QED BY <1>1, <1>4, <1>5, <1>9, <2>1, StartRefundMoves DEF AdminRefund
  <1>10. ASSUME NEW b \in Bookings, NEW n \in RefundAmounts \union {0, Price},
                CancelBooking(p, b, n)
         PROVE  OnlyMoves(p)
    <2> DEFINE a == [NoArg EXCEPT !.by = "cancelBooking", !.amount = n,
                                  !.job = job[b] # "NONE"]
               step == IF n > 0 THEN "refund.stripe" ELSE AfterRefund(a.job)
               unpaid == AfterRefund(a.job)
    <2>1. n \in Nat
      BY <1>2
    <2>2. a \in Arg
      BY <1>3, <1>5, <2>1
    <2>3. step \in PC /\ unpaid \in PC
      BY <1>1, AfterRefundType
    <2>4. StartRefund(p, b, a, step, unpaid)
      BY <1>10 DEF CancelBooking
    <2> HIDE DEF a, step, unpaid
    <2>5. QED BY <2>2, <2>3, <2>4, StartRefundMoves
  <1>11. QED BY <1>6, <1>7, <1>8, <1>9, <1>10 DEF StartRequest

LEMMA StartRequestType ==
    ASSUME TypeOK, NEW p \in Procs, StartRequest(p)
    PROVE  TypeOK'
  <1> USE DEF stripeVars, bookingVars, ledgerVars, countVars, faultVars
  <1>1. OnlyMoves(p)
    BY StartRequestMoves
  <1>2. ASSUME NEW i \in Intents, NEW b \in Bookings, ConfirmPayment(p, b, i)
        PROVE  TypeOK'
    <2>1. payments' \in [Bookings -> [Intents -> Nat]]
      BY <1>2, AddPaymentType DEF ConfirmPayment
    <2>2. QED BY <1>1, <1>2, <2>1
              DEF ConfirmPayment, Request, OnlyMoves, TypeOK
  <1>3. ASSUME NEW i \in Intents, ConfirmGroupPayment(p, i)
        PROVE  TypeOK'
    <2>1. \A b \in Bookings : [payments[b] EXCEPT ![i] = @ + 1] \in [Intents -> Nat]
      BY DEF TypeOK
    <2>2. payments' \in [Bookings -> [Intents -> Nat]]
      BY <1>3, <2>1 DEF ConfirmGroupPayment
    <2>3. status' \in [Bookings -> Status]
      BY <1>3 DEF ConfirmGroupPayment, Status
    <2>4. QED BY <1>1, <1>3, <2>2, <2>3
              DEF ConfirmGroupPayment, Request, OnlyMoves, TypeOK
  <1>4. ASSUME NEW name, Request(p, name),
               UNCHANGED <<stripeVars, bookingVars, ledgerVars>>
        PROVE  TypeOK'
    BY <1>1, <1>4 DEF Request, OnlyMoves, TypeOK
  <1>5. QED BY <1>2, <1>3, <1>4
            DEF StartRequest, RefundPayment, AdminRefund, CancelBooking

\* A step of a handler after its first.
LEMMA ContinueType ==
    ASSUME TypeOK, NEW p \in Procs, Continue(p),
           pc[p] \in SucceededPCs => arg[p].intent \in Intents
    PROVE  TypeOK' /\ OnlyMoves(p)
  <1> USE DEF stripeVars, bookingVars, ledgerVars, countVars, faultVars
  <1>a. arg[p].amount \in Nat /\ arg[p].todo \subseteq Bookings
           /\ arg[p].group \in GroupStatus /\ arg[p] \in Arg
    BY DEF TypeOK, Arg
  <1>b. \A s \in SUBSET Bookings :
            /\ [arg[p] EXCEPT !.todo = s, !.leg = None] \in Arg
            /\ [arg[p] EXCEPT !.todo = s] \in Arg
    BY <1>a DEF Arg
  <1>1. ASSUME NEW b \in Bookings, RecordPayment(p, b)
        PROVE  TypeOK' /\ OnlyMoves(p)
    <2>1. "hook.paid" \in PC /\ [arg[p] EXCEPT !.leg = b] \in Arg
      BY <1>a DEF PC, SucceededPCs, Arg
    <2>2. OnlyMoves(p)
      BY <1>1, <2>1, GotoWithMoves DEF RecordPayment
    <2>3. payments' \in [Bookings -> [Intents -> Nat]]
      BY <1>1, AddPaymentType DEF RecordPayment
    <2>4. QED BY <1>1, <2>2, <2>3 DEF RecordPayment, OnlyMoves, TypeOK
  <1>2. ASSUME NEW b \in Bookings, CreateJob(p, b)
        PROVE  TypeOK' /\ OnlyMoves(p)
    <2>1. "hook.job" \in PC /\ [arg[p] EXCEPT !.todo = arg[p].todo \ {b}] \in Arg
      BY <1>a, <1>b DEF PC, SucceededPCs
    <2>2. OnlyMoves(p)
      BY <1>2, <2>1, GotoWithMoves, ReturnMoves DEF CreateJob
    <2>3. job' \in [Bookings -> {"NONE", "OPEN_FOR_BIDDING", "CANCELLED"}]
      BY <1>2 DEF CreateJob, TypeOK
    <2>4. QED BY <1>2, <2>2, <2>3 DEF CreateJob, OnlyMoves, TypeOK
  <1>3. CASE MarkPaid(p)
    <2>1. "hook.pay" \in PC /\ "hook.job" \in PC /\ "PAID" \in Status
      BY DEF PC, SucceededPCs, Status
    <2> DEFINE rest == arg[p].todo \ {arg[p].leg}
               next == [arg[p] EXCEPT !.todo = rest, !.leg = None]
               jobs == [arg[p] EXCEPT !.todo = legs[arg[p].intent], !.leg = None]
    <2>2. rest \in SUBSET Bookings
      BY <1>a
    <2>3. next \in Arg
      BY <1>b, <2>2
    <2>4. Return(p) => OnlyMoves(p)
      BY ReturnMoves
    <2>5. ASSUME GotoWith(p, "hook.pay", next) PROVE OnlyMoves(p)
      BY <2>1, <2>3, <2>5, GotoWithMoves
    <2>6. ASSUME pc[p] = "hook.paid", GotoWith(p, "hook.job", jobs)
          PROVE  OnlyMoves(p)
      <3>1. legs[arg[p].intent] \in SUBSET Bookings
        BY <2>6 DEF TypeOK, SucceededPCs
      <3>2. jobs \in Arg
        BY <1>b, <3>1
      <3>3. QED BY <2>1, <2>6, <3>2, GotoWithMoves
    <2>7. OnlyMoves(p)
      BY <1>3, <2>4, <2>5, <2>6 DEF MarkPaid
    <2>8. status' \in [Bookings -> Status]
      BY <1>3, <2>1, SetStatusType DEF MarkPaid
    <2>9. QED BY <1>3, <2>7, <2>8 DEF MarkPaid, OnlyMoves, TypeOK
  <1>4. CASE RecordChargeRefund(p)
    <2>1. "refunded.mark" \in PC
      BY DEF PC, RefundedPCs
    <2>2. OnlyMoves(p)
      BY <1>4, <2>1, GotoMoves DEF RecordChargeRefund
    <2>3. hookRefunds' \in [Bookings -> Nat]
      BY <1>4, <1>a, AddType DEF RecordChargeRefund, TypeOK
    <2>4. QED BY <1>4, <2>2, <2>3 DEF RecordChargeRefund, OnlyMoves, TypeOK
  <1>5. CASE MarkChargeRefunded(p)
    <2>1. OnlyMoves(p)
      BY <1>5, ReturnMoves DEF MarkChargeRefunded
    <2>2. status' \in [Bookings -> Status]
      BY <1>5, SetStatusType DEF MarkChargeRefunded, Status
    <2>3. QED BY <1>5, <2>1, <2>2 DEF MarkChargeRefunded, OnlyMoves, TypeOK
  <1>6. CASE RefundAtStripe(p)
    <2> DEFINE i == arg[p].intent
               total == returned[i] + arg[p].amount
    <2>1. "refund.record" \in PC /\ "refunded" \in EventKind
      BY DEF PC, EventKind
    <2>2. CASE RefundStepThrows(p) /\ UNCHANGED <<returned, events>>
      <3>1. OnlyMoves(p)
        BY <2>2, RefundThrowsMoves
      <3>2. QED BY <1>6, <2>2, <3>1, TablesType DEF RefundAtStripe, Tables
    <2>3. CASE /\ returned' = [returned EXCEPT ![i] = total]
               /\ Send("refunded", i)
               /\ Goto(p, "refund.record")
      <3>1. OnlyMoves(p)
        BY <2>1, <2>3, GotoMoves
      <3>2. events' \in [EventKind -> [Intents -> Nat]]
        BY <2>1, <2>3, SendType
      <3>3. returned' \in [Intents -> Nat]
        <4>1. returned \in [Intents -> Nat]
          BY DEF TypeOK
        <4>2. CASE i \in Intents
          <5>1. total \in Nat
            BY <1>a, <4>1, <4>2
          <5>2. QED BY <2>3, <4>1, <5>1
        <4>3. CASE i \notin Intents
          BY <2>3, <4>1, <4>3
        <4>4. QED BY <4>2, <4>3
      <3>4. QED BY <1>6, <3>1, <3>2, <3>3 DEF RefundAtStripe, OnlyMoves, TypeOK
    <2>4. QED BY <1>6, <2>2, <2>3 DEF RefundAtStripe
  <1>7. CASE RecordRefund(p)
    <2> DEFINE next == IF arg[p].by = "cancelBooking"
                       THEN AfterRefund(arg[p].job) ELSE "refund.mark"
    <2>1. next \in PC
      BY AfterRefundType DEF PC
    <2>2. OnlyMoves(p)
      BY <1>7, <2>1, GotoMoves DEF RecordRefund
    <2>3. refunds' \in [Bookings -> Nat]
      BY <1>7, <1>a, AddType DEF RecordRefund, TypeOK
    <2>4. QED BY <1>7, <2>2, <2>3 DEF RecordRefund, OnlyMoves, TypeOK
  <1>8. CASE MarkRefunded(p)
    <2>1. OnlyMoves(p)
      BY <1>8, ThenGroupMoves DEF MarkRefunded
    <2>2. status' \in [Bookings -> Status]
      BY <1>8, SetStatusType DEF MarkRefunded, Status
    <2>3. QED BY <1>8, <2>1, <2>2 DEF MarkRefunded, OnlyMoves, TypeOK
  <1>9. CASE CancelJob(p)
    <2>1. "cancel.mark" \in PC
      BY DEF PC
    <2>2. OnlyMoves(p)
      BY <1>9, <2>1, GotoMoves DEF CancelJob
    <2>3. job' \in [Bookings -> {"NONE", "OPEN_FOR_BIDDING", "CANCELLED"}]
      BY <1>9 DEF CancelJob, TypeOK
    <2>4. QED BY <1>9, <2>2, <2>3 DEF CancelJob, OnlyMoves, TypeOK
  <1>10. CASE MarkCancelled(p)
    <2>1. OnlyMoves(p)
      BY <1>10, ThenGroupMoves DEF MarkCancelled
    <2>2. status' \in [Bookings -> Status]
      BY <1>10, SetStatusType DEF MarkCancelled, Status
    <2>3. due' \in [Bookings -> Nat]
      BY <1>10, <1>a DEF MarkCancelled, TypeOK
    <2>4. QED BY <1>10, <2>1, <2>2, <2>3 DEF MarkCancelled, OnlyMoves, TypeOK
  <1>11. CASE ReadGroup(p)
    <2>1. "group.write" \in PC
      BY DEF PC
    <2>2. \A g \in GroupStatus : [arg[p] EXCEPT !.group = g] \in Arg
      BY <1>a DEF Arg
    <2>3. PICK g \in GroupStatus :
                GotoWith(p, "group.write", [arg[p] EXCEPT !.group = g])
      BY <1>11 DEF ReadGroup, GroupStatus
    <2>4. OnlyMoves(p)
      BY <2>1, <2>2, <2>3, GotoWithMoves
    <2>5. QED BY <1>11, <2>4, TablesType DEF ReadGroup, Tables
  <1>12. CASE WriteGroup(p)
    <2>1. OnlyMoves(p)
      BY <1>12, ReturnMoves DEF WriteGroup
    <2>2. QED BY <1>12, <1>a, <2>1 DEF WriteGroup, OnlyMoves, TypeOK
  <1>13. QED BY <1>1, <1>2, <1>3, <1>4, <1>5, <1>6, <1>7, <1>8, <1>9, <1>10,
                <1>11, <1>12 DEF Continue

\* An await that throws, and the death of the process.
LEMMA FaultType ==
    ASSUME TypeOK
    PROVE  /\ \A p \in Procs : AwaitFails(p) => TypeOK' /\ OnlyMoves(p)
           /\ Crash => TypeOK'
  <1> USE DEF stripeVars, bookingVars, ledgerVars, countVars, faultVars
  <1>1. ASSUME NEW p \in Procs, AwaitFails(p)
        PROVE  TypeOK' /\ OnlyMoves(p)
    <2>1. OnlyMoves(p)
      BY <1>1, RefundThrowsMoves, ReturnMoves DEF AwaitFails
    <2>2. QED BY <1>1, <2>1 DEF AwaitFails, OnlyMoves, TypeOK
  <1>2. ASSUME Crash
        PROVE  TypeOK'
    <2>1. pc' \in [Procs -> PC] /\ arg' \in [Procs -> Arg]
      BY <1>2, NoArgType DEF Crash, PC
    <2> DEFINE n(kind, i) == Cardinality(Unanswered(kind, i))
    <2>2. \A kind \in EventKind, i \in Intents : n(kind, i) \in Nat
      BY UnansweredNat
    <2>3. events' = [kind \in EventKind |-> [i \in Intents |->
                        events[kind][i] + n(kind, i)]]
      BY <1>2 DEF Crash
    <2> HIDE DEF n
    <2>4. events' \in [EventKind -> [Intents -> Nat]]
      BY <2>2, <2>3 DEF TypeOK
    <2>5. QED BY <1>2, <2>1, <2>4 DEF Crash, TypeOK
  <1>3. QED BY <1>1, <1>2

----------------------------------------------------------------------------
(* The inductive invariant *)

\* A call that records a success works for an intent that succeeded; each
\* of its bookings is still to do or has its row, and the jobs come last.
HookWork(p) ==
    pc[p] \in SucceededPCs =>
        LET i == arg[p].intent IN
        /\ p \in Hooks /\ i \in Intents /\ intent[i] = "succeeded"
        /\ pc[p] = "hook.paid" =>
             arg[p].leg \in Bookings /\ payments[arg[p].leg][i] > 0
        /\ pc[p] = "hook.job" => \A b \in arg[p].todo : payments[b][i] > 0
        /\ pc[p] # "hook.job" =>
             \A b \in legs[i] : b \in arg[p].todo \/ payments[b][i] > 0

\* A refund or a cancellation is of a booking, and a cancellation cancels
\* the job only of a booking that has one.
CancelPCs == {"refund.stripe", "refund.record", "cancel.job"}
CancelWork(p) ==
    pc[p] \in CancelPCs =>
        /\ arg[p].leg \in Bookings
        /\ arg[p].job => job[arg[p].leg] # "NONE"
        /\ pc[p] = "cancel.job" => arg[p].job

\* Successes are announced, and rows written, only for successes.
Announced ==
    /\ \A i \in Intents : events["succeeded"][i] > 0 => intent[i] = "succeeded"
    /\ \A b \in Bookings, i \in Intents :
           payments[b][i] > 0 => intent[i] = "succeeded"

\* Without faults, an intent with one row has, or will have, all of them.
RowsTogether ==
    NoFault =>
        \A i \in Intents : (\E b \in Bookings : payments[b][i] > 0) =>
            \A b \in legs[i] :
                payments[b][i] > 0 \/ \E h \in Hooks : Recording(h, b, i)

Rows == Announced /\ RowsTogether /\ SuccessNeverLost

IInv ==
    /\ TypeOK
    /\ \A p \in Procs : HookWork(p) /\ CancelWork(p)
    /\ Rows
    /\ JobOnlyIfPaid

----------------------------------------------------------------------------
(* What no step undoes *)

Kept ==
    /\ \A i \in Intents :
         /\ intent[i] = "succeeded" => intent'[i] = "succeeded"
         /\ intent[i] # "none" => intent'[i] # "none" /\ legs'[i] = legs[i]
         /\ failedRow[i] => failedRow'[i]
    /\ \A b \in Bookings, i \in Intents : payments[b][i] > 0 => payments'[b][i] > 0
    /\ \A b \in Bookings : job[b] # "NONE" => job'[b] # "NONE"
    /\ NoFault' => NoFault

\* A step that leaves these tables alone keeps what is in them.
LEMMA StillKept ==
    ASSUME UNCHANGED <<intent, legs, payments, failedRow, job, errors, crashes>>
    PROVE  Kept
  BY DEF Kept, NoFault

LEMMA AddPaymentKeeps ==
    ASSUME TypeOK, NEW b \in Bookings, NEW i, AddPayment(b, i)
    PROVE  \A c \in Bookings, j \in Intents :
               payments[c][j] > 0 => payments'[c][j] > 0
  <1> SUFFICES ASSUME NEW c \in Bookings, NEW j \in Intents, payments[c][j] > 0
               PROVE  payments'[c][j] > 0
    OBVIOUS
  <1>1. payments \in [Bookings -> [Intents -> Nat]]
    BY DEF TypeOK
  <1>2. payments' = [payments EXCEPT ![b] = [payments[b] EXCEPT ![i] = @ + 1]]
    BY DEF AddPayment
  <1>3. CASE c # b
    BY <1>1, <1>2, <1>3
  <1>4. CASE c = b /\ j # i
    BY <1>1, <1>2, <1>4
  <1>5. CASE c = b /\ j = i
    BY <1>1, <1>2, <1>5
  <1>6. QED BY <1>3, <1>4, <1>5

LEMMA KeptByNext ==
    ASSUME TypeOK, Next
    PROVE  Kept
  <1> USE DEF stripeVars, bookingVars, ledgerVars, countVars, faultVars
  <1>1. ASSUME NEW i \in Intents, NEW bs, CreateIntent(i, bs)
        PROVE  Kept
    BY <1>1 DEF CreateIntent, TypeOK, Kept, NoFault
  <1>2. ASSUME NEW i \in Intents, PaymentSucceeds(i)
        PROVE  Kept
    BY <1>2 DEF PaymentSucceeds, TypeOK, Kept, NoFault
  <1>3. ASSUME NEW i \in Intents, PaymentFails(i)
        PROVE  Kept
    BY <1>3, StillKept DEF PaymentFails
  <1>4. ASSUME NEW i \in Intents, Stripe(i)
        PROVE  Kept
    BY <1>1, <1>2, <1>3, <1>4
       DEF Stripe, CreatePaymentIntent, CreateGroupPaymentIntent
  <1>5. ASSUME NEW p \in Procs, Webhook(p)
        PROVE  Kept
    <2>1. ASSUME NEW i \in Intents, PaymentFailed(p, i)
          PROVE  Kept
      BY <2>1 DEF PaymentFailed, Receive, TypeOK, Kept, NoFault
    <2>2. ASSUME NEW i \in Intents, PaymentSucceeded(p, i) \/ ChargeRefunded(p, i)
          PROVE  Kept
      BY <2>2, StillKept DEF PaymentSucceeded, ChargeRefunded, Receive
    <2>3. QED BY <1>5, <2>1, <2>2 DEF Webhook
  <1>6. ASSUME NEW p \in Procs, StartRequest(p)
        PROVE  Kept
    <2>1. ASSUME NEW b \in Bookings, NEW i \in Intents, ConfirmPayment(p, b, i)
          PROVE  Kept
      BY <2>1, AddPaymentKeeps DEF ConfirmPayment, Request, Kept, NoFault
    <2>2. ASSUME NEW i \in Intents, ConfirmGroupPayment(p, i)
          PROVE  Kept
      <3>1. \A b \in Bookings : payments'[b] = [payments[b] EXCEPT ![i] = @ + 1]
        BY <2>2 DEF ConfirmGroupPayment
      <3>2. \A b \in Bookings, j \in Intents :
                payments[b][j] > 0 => payments'[b][j] > 0
        <4> SUFFICES ASSUME NEW b \in Bookings, NEW j \in Intents,
                            payments[b][j] > 0
                     PROVE  payments'[b][j] > 0
          OBVIOUS
        <4>1. payments[b] \in [Intents -> Nat]
          BY DEF TypeOK
        <4>2. payments'[b] = [payments[b] EXCEPT ![i] = @ + 1]
          BY <3>1
        <4>3. QED BY <4>1, <4>2
      <3>3. QED BY <2>2, <3>2 DEF ConfirmGroupPayment, Request, Kept, NoFault
    <2>3. ASSUME NEW name, Request(p, name),
                 UNCHANGED <<stripeVars, bookingVars, ledgerVars>>
          PROVE  Kept
      BY <2>3, StillKept DEF Request
    <2>4. QED BY <1>6, <2>1, <2>2, <2>3
              DEF StartRequest, RefundPayment, AdminRefund, CancelBooking
  <1>7. ASSUME NEW p \in Procs, Continue(p)
        PROVE  Kept
    <2>1. ASSUME NEW b \in Bookings, RecordPayment(p, b)
          PROVE  Kept
      BY <2>1, AddPaymentKeeps DEF RecordPayment, Kept, NoFault
    <2>2. ASSUME NEW b \in Bookings, CreateJob(p, b)
          PROVE  Kept
      BY <2>2 DEF CreateJob, TypeOK, Kept, NoFault
    <2>3. CASE CancelJob(p)
      BY <2>3 DEF CancelJob, TypeOK, Kept, NoFault
    <2>4. CASE \/ MarkPaid(p) \/ RecordChargeRefund(p) \/ MarkChargeRefunded(p)
               \/ RefundAtStripe(p) \/ RecordRefund(p) \/ MarkRefunded(p)
               \/ MarkCancelled(p) \/ ReadGroup(p) \/ WriteGroup(p)
      BY <2>4, StillKept
         DEF MarkPaid, RecordChargeRefund, MarkChargeRefunded, RefundAtStripe,
             RecordRefund, MarkRefunded, MarkCancelled, ReadGroup, WriteGroup
    <2>5. QED BY <1>7, <2>1, <2>2, <2>3, <2>4 DEF Continue
  <1>8. ASSUME NEW p \in Procs, AwaitFails(p)
        PROVE  Kept
    BY <1>8 DEF AwaitFails, TypeOK, Kept, NoFault
  <1>9. CASE Crash
    BY <1>9 DEF Crash, TypeOK, Kept, NoFault
  <1>10. QED BY <1>4, <1>5, <1>6, <1>7, <1>8, <1>9 DEF Next

\* What is kept keeps the work of a handler that did not move.
LEMMA WorkKept ==
    ASSUME TypeOK, Kept, NEW p \in Procs, pc'[p] = pc[p], arg'[p] = arg[p],
           HookWork(p), CancelWork(p)
    PROVE  HookWork(p)' /\ CancelWork(p)'
  <1>1. HookWork(p)'
    <2> SUFFICES ASSUME pc'[p] \in SucceededPCs
                 PROVE  HookWork(p)'
      BY DEF HookWork
    <2> DEFINE i == arg[p].intent
    <2>1. /\ p \in Hooks /\ i \in Intents /\ intent[i] = "succeeded"
          /\ pc[p] = "hook.paid" =>
               arg[p].leg \in Bookings /\ payments[arg[p].leg][i] > 0
          /\ pc[p] = "hook.job" => \A b \in arg[p].todo : payments[b][i] > 0
          /\ pc[p] # "hook.job" =>
               \A b \in legs[i] : b \in arg[p].todo \/ payments[b][i] > 0
      BY DEF HookWork
    <2>2. arg[p].todo \subseteq Bookings /\ legs[i] \subseteq Bookings
      BY <2>1 DEF TypeOK, Arg
    <2>3. /\ intent'[i] = "succeeded" /\ legs'[i] = legs[i]
          /\ \A b \in Bookings : payments[b][i] > 0 => payments'[b][i] > 0
      BY <2>1 DEF Kept
    <2> HIDE DEF i
    <2>4. /\ p \in Hooks /\ i \in Intents /\ intent'[i] = "succeeded"
          /\ pc'[p] = "hook.paid" =>
               arg'[p].leg \in Bookings /\ payments'[arg'[p].leg][i] > 0
          /\ pc'[p] = "hook.job" => \A b \in arg'[p].todo : payments'[b][i] > 0
          /\ pc'[p] # "hook.job" =>
               \A b \in legs'[i] : b \in arg'[p].todo \/ payments'[b][i] > 0
      BY <2>1, <2>2, <2>3
    <2>5. i = arg'[p].intent
      BY DEF i
    <2>6. QED BY <2>4, <2>5 DEF HookWork
  <1>2. CancelWork(p)'
    BY DEF CancelWork, Kept
  <1>3. QED BY <1>1, <1>2

----------------------------------------------------------------------------
(* The work of a handler that moves *)

Elsewhere(p) == pc'[p] \notin SucceededPCs \union CancelPCs

LEMMA ElsewhereWork ==
    ASSUME NEW p, Elsewhere(p)
    PROVE  HookWork(p)' /\ CancelWork(p)'
  BY DEF Elsewhere, HookWork, CancelWork

LEMMA ReturnWork ==
    ASSUME TypeOK, NEW p \in Procs, Return(p)
    PROVE  HookWork(p)' /\ CancelWork(p)'
  <1>1. Elsewhere(p)
    BY ReturnType DEF Elsewhere, SucceededPCs, CancelPCs
  <1>2. QED BY <1>1, ElsewhereWork

LEMMA ThenGroupWork ==
    ASSUME TypeOK, NEW p \in Procs, ThenGroupStatus(p)
    PROVE  HookWork(p)' /\ CancelWork(p)'
  <1>1. CASE Return(p)
    BY <1>1, ReturnWork
  <1>2. CASE Goto(p, "group.read")
    <2>1. "group.read" \in PC
      BY DEF PC
    <2>2. Elsewhere(p)
      BY <1>2, <2>1, GotoType DEF Elsewhere, SucceededPCs, CancelPCs
    <2>3. QED BY <2>2, ElsewhereWork
  <1>3. QED BY <1>1, <1>2 DEF ThenGroupStatus

\* The step after a refund, with the arguments the refund had.
LEMMA AfterRefundWork ==
    ASSUME TypeOK, Kept, NEW p \in Procs, CancelWork(p),
           pc[p] \in {"refund.stripe", "refund.record"},
           \/ Goto(p, AfterRefund(arg[p].job))
           \/ Goto(p, "refund.record")
           \/ Goto(p, "refund.mark")
    PROVE  HookWork(p)' /\ CancelWork(p)'
  <1>1. AfterRefund(arg[p].job) \in PC /\ "refund.record" \in PC
           /\ "refund.mark" \in PC
    BY AfterRefundType DEF PC
  <1>2. /\ arg'[p] = arg[p]
        /\ pc'[p] \in {AfterRefund(arg[p].job), "refund.record", "refund.mark"}
    BY <1>1, GotoType
  <1>3. pc'[p] \notin SucceededPCs
    BY <1>2 DEF AfterRefund, SucceededPCs
  <1>4. pc'[p] = "cancel.job" => arg[p].job
    BY <1>2 DEF AfterRefund
  <1>5. arg[p].leg \in Bookings /\ (arg[p].job => job[arg[p].leg] # "NONE")
    BY DEF CancelWork, CancelPCs
  <1>6. QED BY <1>2, <1>3, <1>4, <1>5 DEF HookWork, CancelWork, Kept

LEMMA RefundThrowsWork ==
    ASSUME TypeOK, Kept, NEW p \in Procs, CancelWork(p),
           pc[p] \in {"refund.stripe", "refund.record"}, RefundStepThrows(p)
    PROVE  HookWork(p)' /\ CancelWork(p)'
  BY AfterRefundWork, ReturnWork DEF RefundStepThrows

\* The first step of a refund of booking b.
LEMMA StartRefundWork ==
    ASSUME TypeOK, NEW p \in Procs, NEW b \in Bookings, NEW a \in Arg,
           NEW step \in PC \ SucceededPCs, NEW unpaid \in PC \ SucceededPCs,
           StartRefund(p, b, a, step, unpaid),
           a.job => job'[b] # "NONE",
           "cancel.job" \in {step, unpaid} => a.job
    PROVE  HookWork(p)' /\ CancelWork(p)'
  <1>1. \A i \in Intents : [a EXCEPT !.leg = b, !.intent = i] \in Arg
    BY DEF Arg
  <1>2. [a EXCEPT !.leg = b] \in Arg
    BY DEF Arg
  <1>3. pc'[p] \in {step, unpaid} /\ arg'[p].leg = b /\ arg'[p].job = a.job
    <2>1. CASE \E i \in Intents :
                   GotoWith(p, step, [a EXCEPT !.leg = b, !.intent = i])
      <3>1. PICK i \in Intents :
                   GotoWith(p, step, [a EXCEPT !.leg = b, !.intent = i])
        BY <2>1
      <3>2. pc'[p] = step /\ arg'[p] = [a EXCEPT !.leg = b, !.intent = i]
        BY <1>1, <3>1, GotoWithType
      <3>3. QED BY <3>2 DEF Arg
    <2>2. CASE GotoWith(p, unpaid, [a EXCEPT !.leg = b])
      <3>1. pc'[p] = unpaid /\ arg'[p] = [a EXCEPT !.leg = b]
        BY <1>2, <2>2, GotoWithType
      <3>2. QED BY <3>1 DEF Arg
    <2>3. QED BY <2>1, <2>2 DEF StartRefund
  <1>4. QED BY <1>3 DEF HookWork, CancelWork

LEMMA StartRequestWork ==
    ASSUME TypeOK, Kept, NEW p \in Procs, StartRequest(p),
           HookWork(p), CancelWork(p)
    PROVE  HookWork(p)' /\ CancelWork(p)'
  <1>1. {"confirm.paid", "refund.stripe", "refund.record", "cancel.job",
         "cancel.mark"} \subseteq PC \ SucceededPCs
    BY DEF PC, SucceededPCs
  <1>2. Price \in Nat /\ RefundAmounts \subseteq Nat
    BY PaymentsAssumption DEF PaymentsAssumption
  <1>3. \A by \in By, n \in Nat, has \in BOOLEAN :
            LET a == [NoArg EXCEPT !.by = by, !.amount = n, !.job = has]
            IN  a \in Arg /\ a.job = has
    BY NoArgType DEF NoArg, Arg
  <1>4. \A by \in By, n \in Nat :
            LET a == [NoArg EXCEPT !.by = by, !.amount = n]
            IN  a \in Arg /\ a.job = FALSE
    BY NoArgType DEF NoArg, Arg
  <1>5. "refundPayment" \in By /\ "adminRefund" \in By /\ "cancelBooking" \in By
    BY DEF By
  <1>6. ASSUME NEW i \in Intents, NEW b \in Bookings, ConfirmPayment(p, b, i)
        PROVE  HookWork(p)' /\ CancelWork(p)'
    <2>1. [NoArg EXCEPT !.leg = b] \in Arg
      BY NoArgType DEF NoArg, Arg
    <2>2. pc'[p] = "confirm.paid"
      BY <1>1, <1>6, <2>1, GotoWithType DEF ConfirmPayment
    <2>3. QED BY <2>2, ElsewhereWork DEF Elsewhere, SucceededPCs, CancelPCs
  <1>7. ASSUME NEW i \in Intents, ConfirmGroupPayment(p, i)
        PROVE  HookWork(p)' /\ CancelWork(p)'
    BY <1>7, WorkKept DEF ConfirmGroupPayment, procVars
  <1>8. ASSUME NEW b \in Bookings, NEW n \in Nat, NEW by \in By,
               StartRefund(p, b, [NoArg EXCEPT !.by = by, !.amount = n],
                           "refund.stripe", "refund.record")
        PROVE  HookWork(p)' /\ CancelWork(p)'
    <2> DEFINE a == [NoArg EXCEPT !.by = by, !.amount = n]
    <2>1. a \in Arg /\ a.job = FALSE
      BY <1>4
    <2>2. StartRefund(p, b, a, "refund.stripe", "refund.record")
      BY <1>8
    <2> HIDE DEF a
    <2>3. QED BY <1>1, <2>1, <2>2, StartRefundWork
  <1>9. ASSUME NEW b \in Bookings, RefundPayment(p, b)
        PROVE  HookWork(p)' /\ CancelWork(p)'
    BY <1>2, <1>5, <1>8, <1>9 DEF RefundPayment
  <1>10. ASSUME NEW b \in Bookings, NEW n \in RefundAmounts \union {Price},
                AdminRefund(p, b, n)
         PROVE  HookWork(p)' /\ CancelWork(p)'
    <2>1. n \in Nat
      BY <1>2
    <2>2. QED BY <1>5, <1>8, <1>10, <2>1 DEF AdminRefund
  <1>11. ASSUME NEW b \in Bookings, NEW n \in RefundAmounts \union {0, Price},
                CancelBooking(p, b, n)
         PROVE  HookWork(p)' /\ CancelWork(p)'
    <2> DEFINE has == job[b] # "NONE"
               a == [NoArg EXCEPT !.by = "cancelBooking", !.amount = n,
                                  !.job = has]
               unpaid == AfterRefund(a.job)
               step == IF n > 0 THEN "refund.stripe" ELSE unpaid
    <2>1. n \in Nat
      BY <1>2
    <2>2. a \in Arg /\ a.job = has
      BY <1>3, <1>5, <2>1
    <2>3. StartRefund(p, b, a, step, unpaid)
      BY <1>11 DEF CancelBooking
    <2>4. has => job'[b] # "NONE"
      BY DEF Kept
    <2> HIDE DEF a, has
    <2>5. /\ step \in PC \ SucceededPCs /\ unpaid \in PC \ SucceededPCs
          /\ "cancel.job" \in {step, unpaid} => a.job
      BY <1>1 DEF AfterRefund
    <2> HIDE DEF step, unpaid
    <2>6. QED BY <2>2, <2>3, <2>4, <2>5, StartRefundWork
  <1>12. QED BY <1>6, <1>7, <1>9, <1>10, <1>11 DEF StartRequest

LEMMA WebhookWork ==
    ASSUME TypeOK, Kept, Announced, NEW p \in Procs, Webhook(p),
           HookWork(p), CancelWork(p)
    PROVE  HookWork(p)' /\ CancelWork(p)'
  <1>1. "hook.pay" \in PC /\ "refunded.record" \in PC
    BY DEF PC, SucceededPCs, RefundedPCs
  <1>2. CASE UNCHANGED procVars
    BY <1>2, WorkKept DEF procVars
  <1>3. ASSUME NEW i \in Intents, PaymentSucceeded(p, i), ~UNCHANGED procVars
        PROVE  HookWork(p)' /\ CancelWork(p)'
    <2> DEFINE a == [NoArg EXCEPT !.intent = i, !.todo = legs[i]]
    <2>1. a \in Arg /\ a.intent = i /\ a.todo = legs[i]
      BY NoArgType DEF Arg, NoArg, TypeOK
    <2>2. GotoWith(p, "hook.pay", a)
      BY <1>3 DEF PaymentSucceeded
    <2> HIDE DEF a
    <2>3. pc'[p] = "hook.pay" /\ arg'[p] = a
      BY <1>1, <2>1, <2>2, GotoWithType
    <2>4. p \in Hooks /\ intent'[i] = "succeeded" /\ legs'[i] = legs[i]
      BY <1>3 DEF PaymentSucceeded, Receive, Announced
    <2>5. HookWork(p)'
      BY <2>1, <2>3, <2>4 DEF HookWork
    <2>6. CancelWork(p)'
      BY <2>3 DEF CancelWork, CancelPCs
    <2>7. QED BY <2>5, <2>6
  <1>4. ASSUME NEW i \in Intents, ChargeRefunded(p, i), ~UNCHANGED procVars
        PROVE  HookWork(p)' /\ CancelWork(p)'
    <2>1. \A b \in Bookings :
            /\ [NoArg EXCEPT !.intent = i, !.leg = b, !.amount = Price] \in Arg
            /\ [NoArg EXCEPT !.intent = i, !.leg = b] \in Arg
      BY NoArgType, PaymentsAssumption DEF Arg, NoArg, PaymentsAssumption
    <2>2. legs[i] \subseteq Bookings
      BY DEF TypeOK
    <2>3. PICK a \in Arg : GotoWith(p, "refunded.record", a)
      BY <1>4, <2>1, <2>2 DEF ChargeRefunded
    <2>4. pc'[p] = "refunded.record"
      BY <1>1, <2>3, GotoWithType
    <2>5. QED BY <2>4, ElsewhereWork DEF Elsewhere, SucceededPCs, CancelPCs
  <1>5. QED BY <1>2, <1>3, <1>4 DEF Webhook, PaymentFailed

LEMMA ContinueWork ==
    ASSUME TypeOK, Kept, NEW p \in Procs, Continue(p),
           HookWork(p), CancelWork(p)
    PROVE  HookWork(p)' /\ CancelWork(p)'
  <1> DEFINE i == arg[p].intent
             todo == arg[p].todo
  <1>a. arg[p] \in Arg /\ todo \subseteq Bookings
    BY DEF TypeOK, Arg
  <1>b. {"hook.pay", "hook.paid", "hook.job", "refunded.mark", "cancel.mark",
         "group.write"} \subseteq PC
    BY DEF PC, SucceededPCs, RefundedPCs
  <1>c. pc[p] \in SucceededPCs =>
            /\ p \in Hooks /\ i \in Intents /\ intent[i] = "succeeded"
            /\ intent'[i] = "succeeded" /\ legs'[i] = legs[i]
            /\ legs[i] \subseteq Bookings
    BY DEF HookWork, Kept, TypeOK
  <1>d. pc[p] \in SucceededPCs =>
            \A b \in Bookings : payments[b][i] > 0 => payments'[b][i] > 0
    BY <1>c DEF Kept
  <1>e. pc[p] \in SucceededPCs /\ pc[p] # "hook.job" =>
            \A b \in legs[i] : b \in todo \/ payments[b][i] > 0
    BY DEF HookWork
  <1>1. ASSUME NEW b \in Bookings, RecordPayment(p, b)
        PROVE  HookWork(p)' /\ CancelWork(p)'
    <2>1. [arg[p] EXCEPT !.leg = b] \in Arg
      BY <1>a DEF Arg
    <2>2. pc[p] = "hook.pay" /\ pc[p] \in SucceededPCs
      BY <1>1 DEF RecordPayment, SucceededPCs
    <2>3. pc'[p] = "hook.paid" /\ arg'[p] = [arg[p] EXCEPT !.leg = b]
      BY <1>1, <1>b, <2>1, GotoWithType DEF RecordPayment
    <2>4. arg'[p].leg = b /\ arg'[p].intent = i /\ arg'[p].todo = todo
      BY <1>a, <2>3 DEF Arg
    <2>5. payments'[b][i] > 0
      <3>1. payments \in [Bookings -> [Intents -> Nat]] /\ i \in Intents
        BY <1>c, <2>2 DEF TypeOK
      <3>2. payments' = [payments EXCEPT ![b] = [payments[b] EXCEPT ![i] = @ + 1]]
        BY <1>1 DEF RecordPayment, AddPayment
      <3>3. QED BY <3>1, <3>2
    <2>6. \A c \in legs[i] : c \in todo \/ payments'[c][i] > 0
      BY <1>c, <1>d, <1>e, <2>2
    <2> HIDE DEF i, todo
    <2>7. HookWork(p)'
      BY <1>c, <2>2, <2>3, <2>4, <2>5, <2>6 DEF HookWork
    <2>8. CancelWork(p)'
      BY <2>3 DEF CancelWork, CancelPCs
    <2>9. QED BY <2>7, <2>8
  <1>2. ASSUME NEW b \in Bookings, CreateJob(p, b)
        PROVE  HookWork(p)' /\ CancelWork(p)'
    <2> DEFINE rest == todo \ {b}
    <2>1. [arg[p] EXCEPT !.todo = rest] \in Arg
      BY <1>a DEF Arg
    <2>2. CASE Return(p)
      BY <2>2, ReturnWork
    <2>3. CASE GotoWith(p, "hook.job", [arg[p] EXCEPT !.todo = rest])
      <3>1. pc[p] = "hook.job" /\ pc[p] \in SucceededPCs
        BY <1>2 DEF CreateJob, SucceededPCs
      <3>2. pc'[p] = "hook.job" /\ arg'[p] = [arg[p] EXCEPT !.todo = rest]
        BY <1>b, <2>1, <2>3, GotoWithType
      <3>3. arg'[p].intent = i /\ arg'[p].todo = rest
        BY <1>a, <3>2 DEF Arg
      <3>4. \A c \in todo : payments[c][i] > 0
        BY <3>1 DEF HookWork
      <3>5. \A c \in rest : payments'[c][i] > 0
        BY <1>a, <1>d, <3>1, <3>4
      <3> HIDE DEF i, rest
      <3>6. HookWork(p)'
        BY <1>c, <3>1, <3>2, <3>3, <3>5 DEF HookWork
      <3>7. CancelWork(p)'
        BY <3>2 DEF CancelWork, CancelPCs
      <3>8. QED BY <3>6, <3>7
    <2>4. QED BY <1>2, <2>2, <2>3 DEF CreateJob
  <1>3. CASE MarkPaid(p)
    <2> DEFINE rest == todo \ {arg[p].leg}
    <2>1. CASE Return(p)
      BY <2>1, ReturnWork
    <2>2. ASSUME pc[p] = "hook.paid"
          PROVE  /\ payments[arg[p].leg][i] > 0 /\ i \in Intents
                 /\ \A c \in legs[i] : c \in rest \/ payments'[c][i] > 0
      <3>1. pc[p] \in SucceededPCs
        BY <2>2 DEF SucceededPCs
      <3>2. /\ payments[arg[p].leg][i] > 0
            /\ \A c \in legs[i] : c \in todo \/ payments[c][i] > 0
        BY <2>2, <3>1 DEF HookWork
      <3>3. QED BY <1>c, <1>d, <3>1, <3>2
    <2>3. CASE /\ pc[p] = "hook.paid"
               /\ GotoWith(p, "hook.pay",
                           [arg[p] EXCEPT !.todo = rest, !.leg = None])
      <3>1. [arg[p] EXCEPT !.todo = rest, !.leg = None] \in Arg
        BY <1>a DEF Arg
      <3>2. /\ pc'[p] = "hook.pay"
            /\ arg'[p] = [arg[p] EXCEPT !.todo = rest, !.leg = None]
        BY <1>b, <2>3, <3>1, GotoWithType
      <3>3. arg'[p].intent = i /\ arg'[p].todo = rest
        BY <1>a, <3>2 DEF Arg
      <3>4. pc[p] \in SucceededPCs
        BY <2>3 DEF SucceededPCs
      <3> HIDE DEF i, rest
      <3>5. HookWork(p)'
        BY <1>c, <2>2, <2>3, <3>2, <3>3, <3>4 DEF HookWork
      <3>6. CancelWork(p)'
        BY <3>2 DEF CancelWork, CancelPCs
      <3>7. QED BY <3>5, <3>6
    <2>4. CASE /\ pc[p] = "hook.paid" /\ rest = {}
               /\ GotoWith(p, "hook.job",
                           [arg[p] EXCEPT !.todo = legs[i], !.leg = None])
      <3>1. pc[p] \in SucceededPCs
        BY <2>4 DEF SucceededPCs
      <3>2. [arg[p] EXCEPT !.todo = legs[i], !.leg = None] \in Arg
        BY <1>a, <1>c, <3>1 DEF Arg
      <3>3. /\ pc'[p] = "hook.job"
            /\ arg'[p] = [arg[p] EXCEPT !.todo = legs[i], !.leg = None]
        BY <1>b, <2>4, <3>2, GotoWithType
      <3>4. arg'[p].intent = i /\ arg'[p].todo = legs[i]
        BY <1>a, <3>3 DEF Arg
      <3>5. \A c \in legs[i] : payments'[c][i] > 0
        BY <2>2, <2>4
      <3> HIDE DEF i, rest
      <3>6. HookWork(p)'
        BY <1>c, <3>1, <3>3, <3>4, <3>5 DEF HookWork
      <3>7. CancelWork(p)'
        BY <3>3 DEF CancelWork, CancelPCs
      <3>8. QED BY <3>6, <3>7
    <2>5. QED BY <1>3, <2>1, <2>3, <2>4 DEF MarkPaid
  <1>4. CASE RecordChargeRefund(p)
    <2>1. pc'[p] = "refunded.mark"
      BY <1>4, <1>b, GotoType DEF RecordChargeRefund
    <2>2. QED BY <2>1, ElsewhereWork DEF Elsewhere, SucceededPCs, CancelPCs
  <1>5. CASE MarkChargeRefunded(p)
    BY <1>5, ReturnWork DEF MarkChargeRefunded
  <1>6. CASE RefundAtStripe(p)
    BY <1>6, AfterRefundWork, RefundThrowsWork DEF RefundAtStripe
  <1>7. CASE RecordRefund(p)
    BY <1>7, AfterRefundWork DEF RecordRefund
  <1>8. CASE MarkRefunded(p)
    BY <1>8, ThenGroupWork DEF MarkRefunded
  <1>9. CASE CancelJob(p)
    <2>1. pc'[p] = "cancel.mark"
      BY <1>9, <1>b, GotoType DEF CancelJob
    <2>2. QED BY <2>1, ElsewhereWork DEF Elsewhere, SucceededPCs, CancelPCs
  <1>10. CASE MarkCancelled(p)
    BY <1>10, ThenGroupWork DEF MarkCancelled
  <1>11. CASE ReadGroup(p)
    <2>1. PICK g \in GroupStatus :
                GotoWith(p, "group.write", [arg[p] EXCEPT !.group = g])
      BY <1>11 DEF ReadGroup, GroupStatus
    <2>2. [arg[p] EXCEPT !.group = g] \in Arg
      BY <1>a DEF Arg
    <2>3. pc'[p] = "group.write"
      BY <1>b, <2>1, <2>2, GotoWithType
    <2>4. QED BY <2>3, ElsewhereWork DEF Elsewhere, SucceededPCs, CancelPCs
  <1>12. CASE WriteGroup(p)
    BY <1>12, ReturnWork DEF WriteGroup
  <1>13. QED BY <1>1, <1>2, <1>3, <1>4, <1>5, <1>6, <1>7, <1>8, <1>9, <1>10,
                <1>11, <1>12 DEF Continue

\* Whatever moves, every handler's work stays as the invariant says.
LEMMA NextWork ==
    ASSUME IInv, Next, Kept
    PROVE  \A p \in Procs : HookWork(p)' /\ CancelWork(p)'
  <1> USE DEF IInv
  <1>1. ASSUME NEW q \in Procs, UNCHANGED procVars
        PROVE  HookWork(q)' /\ CancelWork(q)'
    BY <1>1, WorkKept DEF procVars
  <1>2. ASSUME NEW p \in Procs, NEW q \in Procs, OnlyMoves(p),
               HookWork(p)' /\ CancelWork(p)'
        PROVE  HookWork(q)' /\ CancelWork(q)'
    BY <1>2, WorkKept DEF OnlyMoves
  <1>3. ASSUME NEW i \in Intents, Stripe(i)
        PROVE  UNCHANGED procVars
    BY <1>3 DEF Stripe, CreatePaymentIntent, CreateGroupPaymentIntent,
                CreateIntent, PaymentSucceeds, PaymentFails
  <1>4. ASSUME NEW p \in Procs, Webhook(p)
        PROVE  OnlyMoves(p) /\ HookWork(p)' /\ CancelWork(p)'
    BY <1>4, WebhookMoves, WebhookWork DEF Rows
  <1>5. ASSUME NEW p \in Procs, StartRequest(p)
        PROVE  OnlyMoves(p) /\ HookWork(p)' /\ CancelWork(p)'
    BY <1>5, StartRequestMoves, StartRequestWork
  <1>6. ASSUME NEW p \in Procs, Continue(p)
        PROVE  OnlyMoves(p) /\ HookWork(p)' /\ CancelWork(p)'
    <2>1. pc[p] \in SucceededPCs => arg[p].intent \in Intents
      BY DEF HookWork
    <2>2. QED BY <1>6, <2>1, ContinueType, ContinueWork
  <1>7. ASSUME NEW p \in Procs, AwaitFails(p)
        PROVE  OnlyMoves(p) /\ HookWork(p)' /\ CancelWork(p)'
    BY <1>7, FaultType, RefundThrowsWork, ReturnWork DEF AwaitFails
  <1>8. ASSUME NEW q \in Procs, Crash
        PROVE  HookWork(q)' /\ CancelWork(q)'
    <2>1. pc'[q] = "idle"
      BY <1>8 DEF Crash
    <2>2. QED BY <2>1, ElsewhereWork DEF Elsewhere, SucceededPCs, CancelPCs
  <1>9. QED BY <1>1, <1>2, <1>3, <1>4, <1>5, <1>6, <1>7, <1>8 DEF Next

----------------------------------------------------------------------------
(* The rows of an intent *)

\* No recording is given up before its row is there.
RecordingKept ==
    \A h \in Hooks, b \in Bookings, i \in Intents :
        Recording(h, b, i) => Recording(h, b, i)' \/ payments'[b][i] > 0

LEMMA RowsKept ==
    ASSUME IInv, Kept, UNCHANGED <<intent, legs, payments>>,
           events'["succeeded"] = events["succeeded"], RecordingKept
    PROVE  Rows'
  <1> USE DEF IInv, Rows
  <1>1. \A i \in Intents : legs[i] \subseteq Bookings
    BY DEF TypeOK
  <1>2. Announced'
    BY DEF Announced
  <1>3. ASSUME NEW i \in Intents, NEW b \in Bookings,
               payments[b][i] > 0 \/ \E h \in Hooks : Recording(h, b, i)
        PROVE  payments'[b][i] > 0 \/ \E h \in Hooks : Recording(h, b, i)'
    BY <1>3 DEF RecordingKept
  <1>4. RowsTogether'
    BY <1>1, <1>3 DEF RowsTogether, Kept
  <1>5. SuccessNeverLost'
    BY <1>1, <1>3 DEF SuccessNeverLost, Kept
  <1>6. QED BY <1>2, <1>4, <1>5

\* A handler that is not recording, or stays, gives no recording up.
LEMMA OthersRecord ==
    ASSUME TypeOK, NEW p \in Procs, OnlyMoves(p),
           pc[p] \notin {"hook.pay", "hook.paid"}
    PROVE  RecordingKept
  <1>1. ASSUME NEW h \in Hooks, NEW b \in Bookings, NEW i \in Intents,
               Recording(h, b, i)
        PROVE  Recording(h, b, i)'
    <2>1. h # p /\ h \in Procs
      BY <1>1 DEF Recording, Procs
    <2>2. pc'[h] = pc[h] /\ arg'[h] = arg[h]
      BY <2>1 DEF OnlyMoves
    <2>3. QED BY <1>1, <2>2 DEF Recording
  <1>2. QED BY <1>1 DEF RecordingKept

LEMMA StayRecord ==
    ASSUME UNCHANGED procVars
    PROVE  RecordingKept
  BY DEF RecordingKept, Recording, procVars

LEMMA StripeRows ==
    ASSUME IInv, Kept, NEW i \in Intents, Stripe(i)
    PROVE  Rows'
  <1> USE DEF IInv, Rows
  <1>a. events \in [EventKind -> [Intents -> Nat]]
           /\ "succeeded" \in EventKind /\ "failed" \in EventKind
    BY DEF TypeOK, EventKind
  <1>b. \A j \in Intents : legs[j] \subseteq Bookings
    BY DEF TypeOK
  <1>1. ASSUME NEW bs, CreateIntent(i, bs)
        PROVE  Rows'
    <2>1. /\ UNCHANGED <<events, payments, failedRow, procVars, errors, crashes>>
          /\ intent[i] = "none" /\ intent'[i] = "open"
          /\ \A j \in Intents \ {i} : intent'[j] = intent[j] /\ legs'[j] = legs[j]
      BY <1>1 DEF CreateIntent, ledgerVars, countVars, faultVars, TypeOK
    <2>2. /\ \A b \in Bookings : ~(payments[b][i] > 0)
          /\ ~(events["succeeded"][i] > 0)
      BY <2>1 DEF Announced
    <2>3. Announced'
      BY <2>1, <2>2 DEF Announced
    <2>4. \A h \in Hooks, b \in Bookings, j \in Intents :
              Recording(h, b, j)' <=> Recording(h, b, j)
      BY <2>1 DEF Recording, procVars
    <2>5. RowsTogether'
      BY <1>b, <2>1, <2>2, <2>4 DEF RowsTogether, NoFault
    <2>6. SuccessNeverLost'
      BY <1>b, <2>1, <2>4 DEF SuccessNeverLost, NoFault
    <2>7. QED BY <2>3, <2>5, <2>6
  <1>2. CASE PaymentSucceeds(i)
    <2>1. /\ UNCHANGED <<legs, payments, failedRow, procVars, errors, crashes>>
          /\ intent'[i] = "succeeded" /\ events'["succeeded"][i] > 0
          /\ \A j \in Intents \ {i} :
                /\ intent'[j] = intent[j]
                /\ events'["succeeded"][j] = events["succeeded"][j]
      BY <1>2, <1>a DEF PaymentSucceeds, Send, ledgerVars, countVars, faultVars,
                        TypeOK
    <2>2. Announced'
      BY <2>1 DEF Announced
    <2>3. \A h \in Hooks, b \in Bookings, j \in Intents :
              Recording(h, b, j)' <=> Recording(h, b, j)
      BY <2>1 DEF Recording, procVars
    <2>4. RowsTogether'
      BY <1>b, <2>1, <2>3 DEF RowsTogether, NoFault
    <2>5. SuccessNeverLost'
      BY <1>b, <2>1, <2>3 DEF SuccessNeverLost, NoFault
    <2>6. QED BY <2>2, <2>4, <2>5
  <1>3. CASE PaymentFails(i)
    <2>1. events'["succeeded"] = events["succeeded"]
      BY <1>3, <1>a DEF PaymentFails, Send
    <2>2. QED BY <1>3, <2>1, StayRecord, RowsKept DEF PaymentFails, ledgerVars
  <1>4. QED BY <1>1, <1>2, <1>3
            DEF Stripe, CreatePaymentIntent, CreateGroupPaymentIntent

LEMMA WebhookRows ==
    ASSUME IInv, Kept, NEW p \in Procs, Webhook(p)
    PROVE  Rows'
  <1> USE DEF IInv, Rows
  <1>a. events \in [EventKind -> [Intents -> Nat]] /\ "succeeded" \in EventKind
           /\ "failed" \in EventKind /\ "refunded" \in EventKind
    BY DEF TypeOK, EventKind
  <1>b. \A j \in Intents : legs[j] \subseteq Bookings
    BY DEF TypeOK
  <1>c. OnlyMoves(p)
    BY WebhookMoves
  <1>d. ASSUME NEW kind, NEW i \in Intents, Receive(p, kind, i)
        PROVE  RecordingKept
    <2>1. pc[p] \notin {"hook.pay", "hook.paid"}
      BY <1>d DEF Receive, Free
    <2>2. QED BY <1>c, <2>1, OthersRecord
  <1>1. ASSUME NEW i \in Intents, NEW kind \in {"failed", "refunded"},
               Receive(p, kind, i), UNCHANGED payments
        PROVE  Rows'
    <2>1. events'["succeeded"] = events["succeeded"]
      BY <1>1, <1>a DEF Receive
    <2>2. QED BY <1>1, <1>d, <2>1, RowsKept DEF Receive
  <1>2. ASSUME NEW i \in Intents, PaymentSucceeded(p, i)
        PROVE  Rows'
    <2>1. /\ UNCHANGED <<intent, legs, payments, failedRow, errors, crashes>>
          /\ \A j \in Intents : events'["succeeded"][j] > 0
                                    => events["succeeded"][j] > 0
          /\ \A j \in Intents \ {i} :
                events'["succeeded"][j] = events["succeeded"][j]
      <3>1. UNCHANGED <<intent, legs, payments, failedRow, errors, crashes>>
        BY <1>2 DEF PaymentSucceeded, Receive, ledgerVars, faultVars
      <3>2. \/ events' = [events EXCEPT !["succeeded"][i] = @ - 1]
               /\ events["succeeded"][i] > 0
            \/ events' = events
        BY <1>2 DEF PaymentSucceeded, Receive
      <3>3. QED BY <1>a, <3>1, <3>2
    <2>2. RecordingKept
      BY <1>2, <1>d DEF PaymentSucceeded
    <2>3. Announced'
      BY <2>1 DEF Announced
    <2>4. ASSUME NEW j \in Intents, NEW b \in Bookings,
                 payments[b][j] > 0 \/ \E h \in Hooks : Recording(h, b, j)
          PROVE  payments'[b][j] > 0 \/ \E h \in Hooks : Recording(h, b, j)'
      BY <2>1, <2>2, <2>4 DEF RecordingKept
    <2>5. RowsTogether'
      BY <1>b, <2>1, <2>4 DEF RowsTogether, NoFault
    <2>6. ASSUME ~AlreadyRecorded(i), NEW b \in legs[i]
          PROVE  Recording(p, b, i)' /\ p \in Hooks
      <3> DEFINE a == [NoArg EXCEPT !.intent = i, !.todo = legs[i]]
      <3>1. a \in Arg /\ a.intent = i /\ a.todo = legs[i]
        BY NoArgType DEF Arg, NoArg, TypeOK
      <3>2. GotoWith(p, "hook.pay", a)
        BY <1>2, <2>6 DEF PaymentSucceeded
      <3> HIDE DEF a
      <3>3. pc'[p] = "hook.pay" /\ arg'[p] = a
        BY <3>1, <3>2, GotoWithType DEF PC, SucceededPCs
      <3>4. QED BY <1>2, <2>6, <3>1, <3>3
                DEF Recording, PaymentSucceeded, Receive
    <2>7. ASSUME NoFault, AlreadyRecorded(i), ~failedRow[i], NEW b \in legs[i]
          PROVE  payments'[b][i] > 0 \/ \E h \in Hooks : Recording(h, b, i)'
      BY <1>b, <2>4, <2>7 DEF RowsTogether, AlreadyRecorded
    <2>8. SuccessNeverLost'
      BY <1>b, <2>1, <2>4, <2>6, <2>7 DEF SuccessNeverLost, NoFault
    <2>9. QED BY <2>3, <2>5, <2>8
  <1>3. QED BY <1>1, <1>2 DEF Webhook, PaymentFailed, ChargeRefunded, ledgerVars

\* Adding a row to one intent whose other rows are there or under way.
LEMMA AddedRows ==
    ASSUME IInv, Kept, NEW i, UNCHANGED <<intent, legs, events, failedRow>>,
           RecordingKept,
           \A b \in Bookings, j \in Intents \ {i} :
               payments'[b][j] = payments[b][j],
           i \in Intents => intent[i] = "succeeded",
           NoFault /\ i \in Intents =>
               \A b \in legs[i] :
                   payments'[b][i] > 0 \/ \E h \in Hooks : Recording(h, b, i)'
    PROVE  Rows'
  <1> USE DEF IInv, Rows
  <1>1. \A j \in Intents : legs[j] \subseteq Bookings
    BY DEF TypeOK
  <1>2. ASSUME NEW j \in Intents, NEW b \in Bookings,
               payments[b][j] > 0 \/ \E h \in Hooks : Recording(h, b, j)
        PROVE  payments'[b][j] > 0 \/ \E h \in Hooks : Recording(h, b, j)'
    BY <1>2 DEF RecordingKept, Kept
  <1>3. Announced'
    BY DEF Announced
  <1>4. RowsTogether'
    <2> SUFFICES ASSUME NoFault, NEW j \in Intents, NEW b \in legs[j],
                        \E c \in Bookings : payments'[c][j] > 0
                 PROVE  payments'[b][j] > 0 \/ \E h \in Hooks : Recording(h, b, j)'
      BY DEF RowsTogether, Kept
    <2>1. CASE j = i
      BY <2>1
    <2>2. CASE j # i
      <3>1. payments[b][j] > 0 \/ \E h \in Hooks : Recording(h, b, j)
        BY <1>1, <2>2 DEF RowsTogether
      <3>2. QED BY <1>1, <1>2, <3>1
    <2>3. QED BY <2>1, <2>2
  <1>5. SuccessNeverLost'
    BY <1>1, <1>2 DEF SuccessNeverLost, Kept
  <1>6. QED BY <1>3, <1>4, <1>5

LEMMA StartRequestRows ==
    ASSUME IInv, Kept, NEW p \in Procs, StartRequest(p)
    PROVE  Rows'
  <1> USE DEF IInv
  <1>1. RecordingKept
    <2>1. \/ OnlyMoves(p) /\ pc[p] \notin {"hook.pay", "hook.paid"}
          \/ UNCHANGED procVars
      BY StartRequestMoves
         DEF StartRequest, ConfirmPayment, ConfirmGroupPayment, RefundPayment,
             AdminRefund, CancelBooking, Request, Free
    <2>2. QED BY <2>1, OthersRecord, StayRecord
  <1>2. ASSUME NEW b \in Bookings, NEW i \in Intents, ConfirmPayment(p, b, i)
        PROVE  Rows'
    <2>1. payments \in [Bookings -> [Intents -> Nat]]
      BY DEF TypeOK
    <2>2. payments' = [payments EXCEPT ![b] = [payments[b] EXCEPT ![i] = @ + 1]]
      BY <1>2 DEF ConfirmPayment, AddPayment
    <2>3. /\ payments'[b][i] > 0
          /\ \A c \in Bookings, j \in Intents \ {i} :
                payments'[c][j] = payments[c][j]
      BY <2>1, <2>2
    <2>4. /\ UNCHANGED <<intent, legs, events, failedRow>>
          /\ intent[i] = "succeeded" /\ legs[i] = {b}
      BY <1>2 DEF ConfirmPayment, stripeVars
    <2>5. QED BY <1>1, <2>3, <2>4, AddedRows
  <1>3. ASSUME NEW i \in Intents, ConfirmGroupPayment(p, i)
        PROVE  Rows'
    <2>1. \A c \in Bookings : payments[c] \in [Intents -> Nat]
      BY DEF TypeOK
    <2>2. \A c \in Bookings : payments'[c] = [payments[c] EXCEPT ![i] = @ + 1]
      BY <1>3 DEF ConfirmGroupPayment
    <2>3. \A c \in Bookings :
            /\ payments'[c][i] > 0
            /\ \A j \in Intents \ {i} : payments'[c][j] = payments[c][j]
      <3> SUFFICES ASSUME NEW c \in Bookings
                   PROVE  /\ payments'[c][i] > 0
                          /\ \A j \in Intents \ {i} :
                                payments'[c][j] = payments[c][j]
        OBVIOUS
      <3>1. payments[c] \in [Intents -> Nat]
        BY <2>1
      <3>2. payments'[c] = [payments[c] EXCEPT ![i] = @ + 1]
        BY <2>2
      <3>3. QED BY <3>1, <3>2
    <2>4. /\ UNCHANGED <<intent, legs, events, failedRow>>
          /\ intent[i] = "succeeded" /\ legs[i] = Bookings
      BY <1>3 DEF ConfirmGroupPayment, IsGroupIntent, stripeVars
    <2>5. QED BY <1>1, <2>3, <2>4, AddedRows
  <1>4. ASSUME UNCHANGED <<stripeVars, bookingVars, ledgerVars>>
        PROVE  Rows'
    BY <1>1, <1>4, RowsKept DEF stripeVars, ledgerVars
  <1>5. QED BY <1>2, <1>3, <1>4
            DEF StartRequest, RefundPayment, AdminRefund, CancelBooking

LEMMA ContinueRows ==
    ASSUME IInv, Kept, NEW p \in Procs, Continue(p)
    PROVE  Rows'
  <1> USE DEF IInv
  <1> DEFINE i == arg[p].intent
             todo == arg[p].todo
  <1>a. OnlyMoves(p)
    <2>1. pc[p] \in SucceededPCs => arg[p].intent \in Intents
      BY DEF HookWork
    <2>2. QED BY <2>1, ContinueType
  <1>b. arg[p] \in Arg /\ todo \subseteq Bookings
    BY DEF TypeOK, Arg
  <1>c. pc[p] \notin {"hook.pay", "hook.paid"} => RecordingKept
    BY <1>a, OthersRecord
  \* Recording by p is the only one its step can end.
  <1>d. ASSUME \A b \in Bookings, j \in Intents :
                  Recording(p, b, j) => Recording(p, b, j)' \/ payments'[b][j] > 0
        PROVE  RecordingKept
    <2>1. ASSUME NEW h \in Hooks, NEW b \in Bookings, NEW j \in Intents,
                 Recording(h, b, j), h # p
          PROVE  Recording(h, b, j)'
      <3>1. pc'[h] = pc[h] /\ arg'[h] = arg[h]
        BY <1>a, <2>1 DEF OnlyMoves, Procs
      <3>2. QED BY <2>1, <3>1 DEF Recording
    <2>2. QED BY <1>d, <2>1 DEF RecordingKept
  <1>1. ASSUME NEW b \in Bookings, RecordPayment(p, b)
        PROVE  Rows'
    <2>a. PICK k : k = i
      OBVIOUS
    <2>1. pc[p] = "hook.pay" /\ pc[p] \in SucceededPCs
      BY <1>1 DEF RecordPayment, SucceededPCs
    <2>2. /\ p \in Hooks /\ k \in Intents /\ intent[k] = "succeeded"
          /\ \A c \in legs[k] : c \in todo \/ payments[c][k] > 0
      BY <2>a, <2>1 DEF HookWork
    <2>3. [arg[p] EXCEPT !.leg = b] \in Arg /\ "hook.paid" \in PC
      BY <1>b DEF Arg, PC, SucceededPCs
    <2>4. pc'[p] = "hook.paid" /\ arg'[p] = [arg[p] EXCEPT !.leg = b]
      BY <1>1, <2>3, GotoWithType DEF RecordPayment
    <2>5. arg'[p].intent = k /\ arg[p].intent = k /\ arg'[p].todo = todo
      BY <1>b, <2>a, <2>4 DEF Arg
    <2>6. \A c \in Bookings, j \in Intents :
              Recording(p, c, j) => Recording(p, c, j)'
      BY <2>4, <2>5 DEF Recording
    <2>7. RecordingKept
      BY <1>d, <2>6
    <2>8. payments \in [Bookings -> [Intents -> Nat]]
      BY DEF TypeOK
    <2>9. payments' = [payments EXCEPT ![b] = [payments[b] EXCEPT ![k] = @ + 1]]
      BY <1>1, <2>a DEF RecordPayment, AddPayment
    <2>10. \A c \in Bookings, j \in Intents \ {k} :
               payments'[c][j] = payments[c][j]
      BY <2>2, <2>8, <2>9
    <2>11. \A c \in legs[k] : payments'[c][k] > 0 \/ Recording(p, c, k)'
      <3>1. \A c \in legs[k] : c \in todo => Recording(p, c, k)'
        BY <2>4, <2>5 DEF Recording
      <3>2. legs[k] \subseteq Bookings
        BY <2>2 DEF TypeOK
      <3>3. QED BY <2>2, <3>1, <3>2 DEF Kept
    <2>12. UNCHANGED <<intent, legs, events, failedRow>>
      BY <1>1 DEF RecordPayment, stripeVars
    <2> HIDE DEF i, todo
    <2>13. QED BY <2>2, <2>7, <2>10, <2>11, <2>12, AddedRows
  <1>2. CASE MarkPaid(p)
    <2>1. UNCHANGED <<intent, legs, events, payments>>
      BY <1>2 DEF MarkPaid, stripeVars, ledgerVars
    <2>2. RecordingKept
      <3>1. CASE pc[p] # "hook.paid"
        BY <1>2, <1>c, <3>1 DEF MarkPaid
      <3>2. CASE pc[p] = "hook.paid"
        <4>1. pc[p] \in SucceededPCs
          BY <3>2 DEF SucceededPCs
        <4>2. payments[arg[p].leg][i] > 0
          BY <3>2, <4>1 DEF HookWork
        <4> DEFINE rest == todo \ {arg[p].leg}
        <4>3. CASE rest = {}
          <5>1. \A b \in Bookings, j \in Intents :
                    Recording(p, b, j) => payments[b][j] > 0
            BY <4>2, <4>3 DEF Recording
          <5>2. QED BY <1>d, <2>1, <5>1
        <4>4. CASE rest # {}
          <5>1. [arg[p] EXCEPT !.todo = rest, !.leg = None] \in Arg
                   /\ "hook.pay" \in PC
            BY <1>b DEF Arg, PC, SucceededPCs
          <5>2. GotoWith(p, "hook.pay",
                         [arg[p] EXCEPT !.todo = rest, !.leg = None])
            BY <1>2, <3>2, <4>4 DEF MarkPaid
          <5>3. /\ pc'[p] = "hook.pay"
                /\ arg'[p] = [arg[p] EXCEPT !.todo = rest, !.leg = None]
            BY <5>1, <5>2, GotoWithType
          <5>4. arg'[p].intent = i /\ arg'[p].todo = rest
            BY <1>b, <5>3 DEF Arg
          <5>5. \A b \in Bookings, j \in Intents : Recording(p, b, j) =>
                    Recording(p, b, j)' \/ payments[b][j] > 0
            BY <4>2, <5>3, <5>4 DEF Recording
          <5>6. QED BY <1>d, <2>1, <5>5
        <4>5. QED BY <4>3, <4>4
      <3>3. QED BY <3>1, <3>2
    <2>3. QED BY <2>1, <2>2, RowsKept
  <1>3. ASSUME UNCHANGED <<intent, legs, payments>>,
               events'["succeeded"] = events["succeeded"],
               pc[p] \notin {"hook.pay", "hook.paid"}
        PROVE  Rows'
    BY <1>3, <1>c, RowsKept
  <1>4. CASE RefundAtStripe(p)
    <2>1. events'["succeeded"] = events["succeeded"]
      <3>1. events \in [EventKind -> [Intents -> Nat]]
        BY DEF TypeOK
      <3>2. QED BY <1>4, <3>1 DEF RefundAtStripe, Send, EventKind
    <2>2. QED BY <1>3, <1>4, <2>1 DEF RefundAtStripe, ledgerVars
  <1>5. ASSUME NEW b \in Bookings, CreateJob(p, b)
        PROVE  Rows'
    BY <1>3, <1>5 DEF CreateJob, stripeVars, ledgerVars
  <1>6. CASE \/ RecordChargeRefund(p) \/ MarkChargeRefunded(p)
             \/ RecordRefund(p) \/ MarkRefunded(p) \/ CancelJob(p)
             \/ MarkCancelled(p) \/ ReadGroup(p) \/ WriteGroup(p)
    BY <1>3, <1>6
       DEF RecordChargeRefund, MarkChargeRefunded, RecordRefund, MarkRefunded,
           CancelJob, MarkCancelled, ReadGroup, WriteGroup, stripeVars,
           ledgerVars
  <1>7. QED BY <1>1, <1>2, <1>4, <1>5, <1>6 DEF Continue

\* After a fault only the announcements matter.
LEMMA FaultRows ==
    ASSUME IInv, Kept
    PROVE  /\ \A p \in Procs : AwaitFails(p) => Rows'
           /\ Crash => Rows'
  <1> USE DEF IInv, Rows
  <1>1. ASSUME ~NoFault', Announced'
        PROVE  Rows'
    BY <1>1 DEF RowsTogether, SuccessNeverLost
  <1>2. ASSUME NEW p \in Procs, AwaitFails(p)
        PROVE  Rows'
    <2>1. ~NoFault'
      BY <1>2 DEF AwaitFails, NoFault, TypeOK
    <2>2. Announced'
      BY <1>2 DEF AwaitFails, Announced, stripeVars, ledgerVars
    <2>3. QED BY <1>1, <2>1, <2>2
  <1>3. ASSUME Crash
        PROVE  Rows'
    <2>1. ~NoFault'
      BY <1>3 DEF Crash, NoFault, TypeOK
    <2>2. ASSUME NEW i \in Intents, events'["succeeded"][i] > 0
          PROVE  intent[i] = "succeeded"
      <3> DEFINE n == Cardinality(Unanswered("succeeded", i))
      <3>1. /\ events'["succeeded"][i] = events["succeeded"][i] + n
            /\ events["succeeded"][i] \in Nat
        BY <1>3 DEF Crash, EventKind, TypeOK
      <3>2. CASE events["succeeded"][i] > 0
        BY <3>2 DEF Announced
      <3>3. CASE Unanswered("succeeded", i) # {}
        <4>1. PICK h \in Hooks : arg[h].intent = i /\ pc[h] \in SucceededPCs
          BY <3>3 DEF Unanswered
        <4>2. QED BY <4>1 DEF HookWork, Procs
      <3>4. n = 0 \/ Unanswered("succeeded", i) # {}
        BY UnansweredNat
      <3> HIDE DEF n
      <3>5. QED BY <2>2, <3>1, <3>2, <3>3, <3>4
    <2>3. Announced'
      BY <1>3, <2>2 DEF Crash, Announced, ledgerVars
    <2>4. QED BY <1>1, <2>1, <2>3
  <1>4. QED BY <1>2, <1>3

LEMMA NextRows ==
    ASSUME IInv, Next, Kept
    PROVE  Rows'
  BY StripeRows, WebhookRows, StartRequestRows, ContinueRows, FaultRows DEF Next

----------------------------------------------------------------------------
(* The theorems *)

LEMMA NextJobs ==
    ASSUME IInv, Next, Kept
    PROVE  JobOnlyIfPaid'
  <1> USE DEF IInv
  <1>1. ASSUME NEW b \in Bookings, job[b] # "NONE"
        PROVE  \E i \in Intents : intent'[i] = "succeeded" /\ payments'[b][i] > 0
    BY <1>1 DEF JobOnlyIfPaid, Kept
  <1>2. ASSUME NEW p \in Procs, NEW c \in Bookings, CreateJob(p, c)
        PROVE  JobOnlyIfPaid'
    <2>1. pc[p] = "hook.job" /\ pc[p] \in SucceededPCs /\ c \in arg[p].todo
      BY <1>2 DEF CreateJob, SucceededPCs
    <2>2. PICK i \in Intents : intent[i] = "succeeded" /\ payments[c][i] > 0
      BY <2>1 DEF HookWork
    <2>3. intent'[i] = "succeeded" /\ payments'[c][i] > 0
      BY <2>2 DEF Kept
    <2>4. \A b \in Bookings \ {c} : job'[b] = job[b]
      BY <1>2 DEF CreateJob, TypeOK
    <2>5. QED BY <1>1, <2>3, <2>4 DEF JobOnlyIfPaid
  <1>3. ASSUME NEW p \in Procs, CancelJob(p)
        PROVE  JobOnlyIfPaid'
    <2>1. pc[p] = "cancel.job" /\ pc[p] \in CancelPCs
      BY <1>3 DEF CancelJob, CancelPCs
    <2>2. job[arg[p].leg] # "NONE"
      BY <2>1 DEF CancelWork
    <2>3. \A b \in Bookings : job'[b] # "NONE" => job[b] # "NONE"
      BY <1>3, <2>2 DEF CancelJob, TypeOK
    <2>4. QED BY <1>1, <2>3 DEF JobOnlyIfPaid
  <1>4. ASSUME UNCHANGED job
        PROVE  JobOnlyIfPaid'
    BY <1>1, <1>4 DEF JobOnlyIfPaid
  <1>5. ASSUME NEW i \in Intents, Stripe(i)
        PROVE  UNCHANGED job
    BY <1>5 DEF Stripe, CreatePaymentIntent, CreateGroupPaymentIntent,
                CreateIntent, PaymentSucceeds, PaymentFails, bookingVars
  <1>6. ASSUME NEW p \in Procs,
               Webhook(p) \/ StartRequest(p) \/ AwaitFails(p)
        PROVE  UNCHANGED job
    BY <1>6 DEF Webhook, PaymentSucceeded, PaymentFailed, ChargeRefunded,
                Receive, StartRequest, ConfirmPayment, ConfirmGroupPayment,
                RefundPayment, AdminRefund, CancelBooking, AwaitFails,
                bookingVars
  <1>7. ASSUME NEW p \in Procs, Continue(p)
        PROVE  JobOnlyIfPaid'
    BY <1>2, <1>3, <1>4, <1>7
       DEF Continue, RecordPayment, MarkPaid, RecordChargeRefund,
           MarkChargeRefunded, RefundAtStripe, RecordRefund, MarkRefunded,
           MarkCancelled, ReadGroup, WriteGroup, bookingVars
  <1>8. CASE Crash
    BY <1>4, <1>8 DEF Crash, bookingVars
  <1>9. QED BY <1>4, <1>5, <1>6, <1>7, <1>8 DEF Next

LEMMA NextTypes ==
    ASSUME IInv, Next
    PROVE  TypeOK'
  <1>1. \A p \in Procs : pc[p] \in SucceededPCs => arg[p].intent \in Intents
    BY DEF IInv, HookWork
  <1>2. QED BY <1>1, StripeType, WebhookType, StartRequestType, ContinueType,
               FaultType DEF IInv, Next

LEMMA InitIInv == Init => IInv
  <1> SUFFICES ASSUME Init PROVE IInv
    OBVIOUS
  <1>1. TypeOK
    <2>1. NoArg \in Arg /\ "idle" \in PC
      BY NoArgType DEF PC
    <2>2. QED BY <2>1 DEF Init, TypeOK, Status, GroupStatus
  <1>2. \A p \in Procs : HookWork(p) /\ CancelWork(p)
    BY DEF Init, HookWork, CancelWork, SucceededPCs, CancelPCs
  <1>3. Announced
    BY DEF Init, Announced, EventKind
  <1>4. RowsTogether /\ SuccessNeverLost
    BY DEF Init, RowsTogether, SuccessNeverLost
  <1>5. JobOnlyIfPaid
    BY DEF Init, JobOnlyIfPaid
  <1>6. QED BY <1>1, <1>2, <1>3, <1>4, <1>5 DEF IInv, Rows

LEMMA StutterIInv ==
    ASSUME IInv, UNCHANGED vars
    PROVE  IInv'
  <1> USE DEF IInv, vars, stripeVars, bookingVars, ledgerVars, procVars,
              countVars, faultVars
  <1>1. TypeOK'
    BY DEF TypeOK
  <1>2. Kept
    BY StillKept
  <1>3. \A p \in Procs : HookWork(p)' /\ CancelWork(p)'
    BY <1>2, WorkKept
  <1>4. Rows'
    BY <1>2, StayRecord, RowsKept
  <1>5. JobOnlyIfPaid'
    BY DEF JobOnlyIfPaid
  <1>6. QED BY <1>1, <1>3, <1>4, <1>5

LEMMA NextIInv == IInv /\ [Next]_vars => IInv'
  <1> SUFFICES ASSUME IInv, [Next]_vars PROVE IInv'
    OBVIOUS
  <1>1. CASE Next
    <2>1. Kept
      BY <1>1, KeptByNext DEF IInv
    <2>2. QED BY <1>1, <2>1, NextTypes, NextWork, NextRows, NextJobs DEF IInv
  <1>2. CASE UNCHANGED vars
    BY <1>2, StutterIInv
  <1>3. QED BY <1>1, <1>2

LEMMA Inductive == Spec => []IInv
  BY InitIInv, NextIInv, PTL DEF Spec

\* Every table, event and handler keeps its type, under every interleaving
\* and fault.
THEOREM TypeCorrect == Spec => []TypeOK
  <1>1. IInv => TypeOK
    BY DEF IInv
  <1>2. QED BY <1>1, Inductive, PTL

\* Without errors and crashes, a successful payment that no declined attempt
\* preceded is on record, or about to be, or still announced by Stripe:
\* whatever duplicates, concurrent deliveries, confirmations, refunds and
\* cancellations run beside it (stripe-webhook.controller.ts:78-236).
THEOREM SuccessKept == Spec => []SuccessNeverLost
  <1>1. IInv => SuccessNeverLost
    BY DEF IInv, Rows
  <1>2. QED BY <1>1, Inductive, PTL

\* A job exists only for a booking with a recorded successful payment, also
\* after errors and crashes (stripe-webhook.controller.ts:126-194).
THEOREM JobsArePaid == Spec => []JobOnlyIfPaid
  <1>1. IInv => JobOnlyIfPaid
    BY DEF IInv
  <1>2. QED BY <1>1, Inductive, PTL
----------------------------------------------------------------------------
(* Paid bookings get their jobs *)

\* Nobody calls the two requests that confirm a payment (both write PAID,
\* and neither leads to a job).
WebhookOnly == {"confirmPayment", "confirmGroupPayment"} \intersect Requests = {}

\* How bookings are paid: every leg by intents of its own ...
Singles == ~Grouped \/ "createGroupPaymentIntent" \notin Requests

\* ... or the two legs of a return journey together.
Together ==
    /\ "createPaymentIntent" \notin Requests
    /\ \A a, b, c \in Bookings : a = b \/ b = c \/ a = c

\* Every intent pays one leg, or every intent pays them all.
LegsFit ==
    \A i \in Intents : intent[i] # "none" =>
        /\ Singles => \E b \in Bookings : legs[i] = {b}
        /\ ~Singles => legs[i] = Bookings

\* A webhook call works for the legs of its intent; those that its last
\* loop has passed have a job.
LegWork(p) ==
    pc[p] \in SucceededPCs =>
        LET i == arg[p].intent IN
        /\ arg[p].todo \subseteq legs[i]
        /\ pc[p] = "hook.paid" => arg[p].leg \in legs[i]
        /\ pc[p] = "hook.job" =>
             \A b \in legs[i] \ arg[p].todo : job[b] # "NONE"

\* When one leg of a return journey has a job and the other has none, a
\* webhook call has just that one left.
LastLeg ==
    NoFault /\ ~Singles =>
        \A b, c \in Bookings : b # c /\ job[c] # "NONE" /\ job[b] = "NONE" =>
            \E h \in Hooks : pc[h] = "hook.job" /\ arg[h].todo = {b}

\* The webhook call h will come to the job of booking b.
Covers(h, b) ==
    /\ pc[h] \in SucceededPCs
    /\ b \in legs[arg[h].intent]
    /\ pc[h] = "hook.job" => b \in arg[h].todo

\* Without faults, a booking that is paid and has no job yet is in the hands
\* of a call.
InHand ==
    NoFault => \A b \in Bookings : status[b] = "PAID" /\ job[b] = "NONE" =>
        \E h \in Hooks : Covers(h, b)

\* The invariant, beside IInv.
Legs ==
    /\ LegsFit
    /\ \A p \in Procs : LegWork(p) /\ pc[p] # "confirm.paid"
    /\ LastLeg
    /\ InHand

\* A step that neither pays a booking nor creates a job nor moves a call
\* that does (unless it is a fault).
Quiet ==
    /\ Kept
    /\ \A b \in Bookings : status'[b] = "PAID" => status[b] = "PAID"
    /\ \A b \in Bookings : job'[b] # "NONE" => job[b] # "NONE"
    /\ \A q \in Procs :
         /\ pc'[q] # "confirm.paid"
         /\ pc'[q] \in SucceededPCs => pc'[q] = pc[q] /\ arg'[q] = arg[q]
         /\ NoFault' /\ pc[q] \in SucceededPCs =>
              pc'[q] = pc[q] /\ arg'[q] = arg[q]

\* Quiet steps keep it.
LEMMA QuietLegs ==
    ASSUME IInv, Legs, Quiet, LegsFit'
    PROVE  Legs'
  <1> USE DEF IInv, Legs
  <1>1. \A i \in Intents : intent[i] = "succeeded" => legs'[i] = legs[i]
    BY DEF Quiet, Kept
  <1>2. \A p \in Procs : pc[p] \in SucceededPCs =>
            arg[p].intent \in Intents /\ legs'[arg[p].intent] = legs[arg[p].intent]
    BY <1>1 DEF HookWork
  <1>3. \A b \in Bookings : job'[b] = "NONE" <=> job[b] = "NONE"
    BY DEF Quiet, Kept
  <1>4. ASSUME NEW p \in Procs PROVE LegWork(p)'
    <2> SUFFICES ASSUME pc'[p] \in SucceededPCs PROVE LegWork(p)'
      BY DEF LegWork
    <2>1. pc'[p] = pc[p] /\ arg'[p] = arg[p]
      BY DEF Quiet
    <2>2. legs'[arg[p].intent] = legs[arg[p].intent] /\ legs[arg[p].intent] \subseteq Bookings
      BY <1>2, <2>1 DEF TypeOK
    <2>3. QED BY <1>3, <2>1, <2>2 DEF LegWork
  <1>5. LastLeg'
    <2> SUFFICES ASSUME NoFault', ~Singles, NEW b \in Bookings, NEW c \in Bookings,
                        b # c, job'[c] # "NONE", job'[b] = "NONE"
                 PROVE  \E h \in Hooks : pc'[h] = "hook.job" /\ arg'[h].todo = {b}
      BY DEF LastLeg
    <2>1. PICK h \in Hooks : pc[h] = "hook.job" /\ arg[h].todo = {b}
      BY <1>3 DEF LastLeg, Quiet, Kept
    <2>2. pc'[h] = pc[h] /\ arg'[h] = arg[h]
      BY <2>1 DEF Quiet, Procs, SucceededPCs
    <2>3. QED BY <2>1, <2>2
  <1>6. InHand'
    <2> SUFFICES ASSUME NoFault', NEW b \in Bookings,
                        status'[b] = "PAID", job'[b] = "NONE"
                 PROVE  \E h \in Hooks : Covers(h, b)'
      BY DEF InHand
    <2>1. PICK h \in Hooks : Covers(h, b)
      BY <1>3 DEF InHand, Quiet, Kept
    <2>2. pc'[h] = pc[h] /\ arg'[h] = arg[h] /\ h \in Procs
      BY <2>1 DEF Quiet, Procs, Covers
    <2>3. legs'[arg[h].intent] = legs[arg[h].intent]
      BY <1>2, <2>1, <2>2 DEF Covers
    <2>4. Covers(h, b)'
      BY <2>1, <2>2, <2>3 DEF Covers
    <2>5. QED BY <2>4
  <1>7. QED BY <1>4, <1>5, <1>6 DEF Quiet

\* A handler that is not at the steps of a payment moves, and not to them.
LEMMA OneQuiet ==
    ASSUME Legs, Kept, NEW p \in Procs, OnlyMoves(p),
           pc[p] \notin SucceededPCs,
           pc'[p] \notin SucceededPCs \union {"confirm.paid"},
           \A b \in Bookings : status'[b] = "PAID" => status[b] = "PAID",
           \A b \in Bookings : job'[b] # "NONE" => job[b] # "NONE"
    PROVE  Quiet
  BY DEF Quiet, Legs, OnlyMoves

\* As OneQuiet, for a step that also leaves bookings alone.
LEMMA NobodyQuiet ==
    ASSUME Legs, Kept, UNCHANGED <<status, job, pc, arg>>
    PROVE  Quiet
  BY DEF Quiet, Legs

----------------------------------------------------------------------------
(* Where the handlers go *)

\* The first step of a refund.
LEMMA StartRefundGoes ==
    ASSUME TypeOK, NEW p \in Procs, NEW b \in Bookings, NEW a \in Arg,
           NEW step \in PC, NEW unpaid \in PC,
           StartRefund(p, b, a, step, unpaid)
    PROVE  pc'[p] \in {step, unpaid}
  <1>1. pc \in [Procs -> PC]
    BY DEF TypeOK
  <1>2. QED BY <1>1 DEF StartRefund, GotoWith

\* Only an intent that is created gets legs.
LEMMA NextFits ==
    ASSUME IInv, Next, Kept, LegsFit, Singles \/ Together
    PROVE  LegsFit'
  <1> USE DEF IInv
  <1>1. ASSUME UNCHANGED <<intent, legs>> PROVE LegsFit'
    BY <1>1 DEF LegsFit
  <1>2. ASSUME NEW i \in Intents, NEW bs, CreateIntent(i, bs),
               Singles => \E b \in Bookings : bs = {b},
               ~Singles => bs = Bookings
        PROVE  LegsFit'
    BY <1>2 DEF LegsFit, CreateIntent, TypeOK
  <1>3. ASSUME NEW i \in Intents, Stripe(i) PROVE LegsFit'
    <2>1. ASSUME NEW b \in Bookings, CreatePaymentIntent(i, b) PROVE LegsFit'
      BY <1>2, <2>1 DEF CreatePaymentIntent, Together
    <2>2. CASE CreateGroupPaymentIntent(i)
      BY <1>2, <2>2 DEF CreateGroupPaymentIntent, Singles
    <2>3. CASE PaymentSucceeds(i)
      BY <2>3 DEF PaymentSucceeds, LegsFit, TypeOK
    <2>4. CASE PaymentFails(i)
      BY <1>1, <2>4 DEF PaymentFails
    <2>5. QED BY <1>3, <2>1, <2>2, <2>3, <2>4 DEF Stripe
  <1>4. ASSUME NEW p \in Procs, Webhook(p) PROVE UNCHANGED <<intent, legs>>
    BY <1>4 DEF Webhook, PaymentSucceeded, PaymentFailed, ChargeRefunded, Receive
  <1>5. ASSUME NEW p \in Procs, StartRequest(p) PROVE UNCHANGED <<intent, legs>>
    BY <1>5 DEF StartRequest, ConfirmPayment, ConfirmGroupPayment,
                RefundPayment, AdminRefund, CancelBooking, stripeVars
  <1>6. ASSUME NEW p \in Procs, Continue(p) PROVE UNCHANGED <<intent, legs>>
    BY <1>6 DEF Continue, RecordPayment, CreateJob, MarkPaid, RecordChargeRefund,
                MarkChargeRefunded, RefundAtStripe, RecordRefund, MarkRefunded,
                CancelJob, MarkCancelled, ReadGroup, WriteGroup, stripeVars
  <1>7. ASSUME NEW p \in Procs, AwaitFails(p) PROVE UNCHANGED <<intent, legs>>
    BY <1>7 DEF AwaitFails, stripeVars
  <1>8. Crash => UNCHANGED <<intent, legs>>
    BY DEF Crash
  <1>9. QED BY <1>1, <1>3, <1>4, <1>5, <1>6, <1>7, <1>8 DEF Next

\* The first step of a request.
LEMMA StartRequestQuiet ==
    ASSUME IInv, Legs, Kept, WebhookOnly, NEW p \in Procs, StartRequest(p)
    PROVE  Quiet
  <1> USE DEF IInv
  <1>1. {"refund.stripe", "refund.record", "cancel.job", "cancel.mark"} \subseteq PC
    BY DEF PC
  <1>2. Price \in Nat /\ RefundAmounts \subseteq Nat
    BY PaymentsAssumption DEF PaymentsAssumption
  <1>3. \A by \in By, n \in Nat, has \in BOOLEAN :
            [NoArg EXCEPT !.by = by, !.amount = n, !.job = has] \in Arg
    BY NoArgType DEF NoArg, Arg
  <1>4. \A by \in By, n \in Nat : [NoArg EXCEPT !.by = by, !.amount = n] \in Arg
    BY NoArgType DEF NoArg, Arg
  <1>5. "refundPayment" \in By /\ "adminRefund" \in By /\ "cancelBooking" \in By
    BY DEF By
  <1>6. OnlyMoves(p)
    BY StartRequestMoves
  <1>7. ASSUME NEW name, Request(p, name), UNCHANGED bookingVars,
               pc'[p] \in {"refund.stripe", "refund.record", "cancel.job",
                           "cancel.mark"}
        PROVE  Quiet
    BY <1>6, <1>7, OneQuiet DEF Request, Free, bookingVars, SucceededPCs
  <1>8. ASSUME NEW b \in Bookings, RefundPayment(p, b) PROVE Quiet
    <2>1. pc'[p] \in {"refund.stripe", "refund.record"}
      BY <1>1, <1>2, <1>4, <1>5, <1>8, StartRefundGoes DEF RefundPayment
    <2>2. QED BY <1>7, <1>8, <2>1 DEF RefundPayment
  <1>9. ASSUME NEW b \in Bookings, NEW n \in RefundAmounts \union {Price},
               AdminRefund(p, b, n)
        PROVE  Quiet
    <2>1. n \in Nat
      BY <1>2
    <2>2. pc'[p] \in {"refund.stripe", "refund.record"}
      BY <1>1, <1>4, <1>5, <1>9, <2>1, StartRefundGoes DEF AdminRefund
    <2>3. QED BY <1>7, <1>9, <2>2 DEF AdminRefund
  <1>10. ASSUME NEW b \in Bookings, NEW n \in RefundAmounts \union {0, Price},
                CancelBooking(p, b, n)
         PROVE  Quiet
    <2> DEFINE a == [NoArg EXCEPT !.by = "cancelBooking", !.amount = n,
                                  !.job = job[b] # "NONE"]
               step == IF n > 0 THEN "refund.stripe" ELSE AfterRefund(a.job)
               unpaid == AfterRefund(a.job)
    <2>1. n \in Nat
      BY <1>2
    <2>2. a \in Arg
      BY <1>3, <1>5, <2>1
    <2>3. StartRefund(p, b, a, step, unpaid)
      BY <1>10 DEF CancelBooking
    <2>4. unpaid \in {"cancel.job", "cancel.mark"}
      BY DEF AfterRefund
    <2>5. step \in {"refund.stripe", "cancel.job", "cancel.mark"}
      BY <2>4
    <2> HIDE DEF a, step, unpaid
    <2>6. pc'[p] \in {step, unpaid}
      BY <1>1, <2>2, <2>3, <2>4, <2>5, StartRefundGoes
    <2>7. QED BY <1>7, <1>10, <2>4, <2>5, <2>6 DEF CancelBooking
  <1>11. \A i \in Intents :
            /\ \A b \in Bookings : ~ConfirmPayment(p, b, i)
            /\ ~ConfirmGroupPayment(p, i)
    BY DEF WebhookOnly, ConfirmPayment, ConfirmGroupPayment, Request
  <1>12. QED BY <1>8, <1>9, <1>10, <1>11 DEF StartRequest

\* The events that are not successes.
LEMMA OtherEventsQuiet ==
    ASSUME IInv, Legs, Kept, NEW p \in Procs, NEW i \in Intents,
           \/ PaymentFailed(p, i)
           \/ ChargeRefunded(p, i)
           \/ PaymentSucceeded(p, i) /\ UNCHANGED procVars
    PROVE  Quiet
  <1> USE DEF IInv
  <1>1. CASE UNCHANGED procVars
    BY <1>1, NobodyQuiet
       DEF PaymentFailed, ChargeRefunded, PaymentSucceeded, Receive,
           bookingVars, procVars
  <1>2. CASE ChargeRefunded(p, i) /\ ~UNCHANGED procVars
    <2>1. OnlyMoves(p)
      BY <1>2, WebhookMoves DEF Webhook
    <2>2. pc'[p] = "refunded.record"
      BY <1>2 DEF ChargeRefunded, GotoWith, TypeOK
    <2>3. pc[p] = "idle" /\ UNCHANGED bookingVars
      BY <1>2 DEF ChargeRefunded, Receive, Free
    <2>4. QED BY <2>1, <2>2, <2>3, OneQuiet DEF bookingVars, SucceededPCs
  <1>3. QED BY <1>1, <1>2 DEF PaymentFailed

\* The steps of a refund, a cancellation and a group's status.
LEMMA ContinueQuiet ==
    ASSUME IInv, Legs, Kept, NEW p \in Procs, OnlyMoves(p),
           \/ RecordChargeRefund(p) \/ MarkChargeRefunded(p)
           \/ RefundAtStripe(p) \/ RecordRefund(p) \/ MarkRefunded(p)
           \/ CancelJob(p) \/ MarkCancelled(p) \/ ReadGroup(p) \/ WriteGroup(p)
    PROVE  Quiet
  <1> USE DEF IInv
  <1> DEFINE after == {"idle", "refund.record", "refund.mark", "refunded.mark",
                       "cancel.job", "cancel.mark", "group.read", "group.write"}
  <1>1. pc \in [Procs -> PC]
    BY DEF TypeOK
  <1>2. pc[p] \notin SucceededPCs
    BY DEF RecordChargeRefund, MarkChargeRefunded, RefundAtStripe, RecordRefund,
           MarkRefunded, CancelJob, MarkCancelled, ReadGroup, WriteGroup,
           SucceededPCs
  <1>3. pc'[p] \in after
    <2>1. Return(p) => pc'[p] \in after
      BY <1>1 DEF Return, GotoWith
    <2>2. \A step \in after : Goto(p, step) => pc'[p] \in after
      BY <1>1 DEF Goto
    <2>3. ThenGroupStatus(p) => pc'[p] \in after
      BY <2>1, <2>2 DEF ThenGroupStatus
    <2>4. \A has : AfterRefund(has) \in after
      BY DEF AfterRefund
    <2>5. RefundStepThrows(p) => pc'[p] \in after
      BY <2>1, <2>2, <2>4 DEF RefundStepThrows
    <2>6. ReadGroup(p) => pc'[p] \in after
      BY <1>1 DEF ReadGroup, GotoWith
    <2>7. RefundAtStripe(p) => pc'[p] \in after
      BY <2>2, <2>5 DEF RefundAtStripe
    <2>8. RecordRefund(p) => pc'[p] \in after
      BY <2>2, <2>4 DEF RecordRefund
    <2>9. RecordChargeRefund(p) \/ CancelJob(p) => pc'[p] \in after
      BY <2>2 DEF RecordChargeRefund, CancelJob
    <2>10. MarkChargeRefunded(p) \/ WriteGroup(p) => pc'[p] \in after
      BY <2>1 DEF MarkChargeRefunded, WriteGroup
    <2>11. MarkRefunded(p) \/ MarkCancelled(p) => pc'[p] \in after
      BY <2>3 DEF MarkRefunded, MarkCancelled
    <2> HIDE DEF after
    <2>12. QED BY <2>6, <2>7, <2>8, <2>9, <2>10, <2>11
  <1>4. pc'[p] \notin SucceededPCs \union {"confirm.paid"}
    BY <1>3 DEF SucceededPCs
  <1>5. \A b \in Bookings : status'[b] = "PAID" => status[b] = "PAID"
    BY DEF RecordChargeRefund, MarkChargeRefunded, RefundAtStripe, RecordRefund,
           MarkRefunded, CancelJob, MarkCancelled, ReadGroup, WriteGroup,
           SetStatus, bookingVars, TypeOK
  <1>6. \A b \in Bookings : job'[b] # "NONE" => job[b] # "NONE"
    <2>1. CASE CancelJob(p)
      <3>1. job[arg[p].leg] # "NONE"
        BY <2>1 DEF CancelJob, CancelWork, CancelPCs
      <3>2. QED BY <2>1, <3>1 DEF CancelJob, TypeOK
    <2>2. CASE ~CancelJob(p)
      BY <2>2 DEF RecordChargeRefund, MarkChargeRefunded, RefundAtStripe,
                  RecordRefund, MarkRefunded, MarkCancelled, ReadGroup,
                  WriteGroup, bookingVars
    <2>3. QED BY <2>1, <2>2
  <1>7. QED BY <1>2, <1>4, <1>5, <1>6, OneQuiet

\* After a fault only the calls that still run matter.
LEMMA FaultQuiet ==
    ASSUME IInv, Legs, Kept
    PROVE  /\ \A p \in Procs : AwaitFails(p) => Quiet
           /\ Crash => Quiet
  <1> USE DEF IInv
  <1>1. ASSUME NEW p \in Procs, AwaitFails(p) PROVE Quiet
    <2>1. ~NoFault'
      BY <1>1 DEF AwaitFails, NoFault, TypeOK
    <2>2. OnlyMoves(p)
      BY <1>1, FaultType
    <2>3. pc'[p] \in {"idle", "cancel.job", "cancel.mark"}
      BY <1>1 DEF AwaitFails, RefundStepThrows, Return, Goto, GotoWith,
                  AfterRefund, TypeOK
    <2>4. UNCHANGED <<status, job>>
      BY <1>1 DEF AwaitFails, bookingVars
    <2>5. pc'[p] \notin SucceededPCs \union {"confirm.paid"}
      BY <2>3 DEF SucceededPCs
    <2>6. QED BY <2>1, <2>2, <2>4, <2>5 DEF Quiet, Legs, OnlyMoves
  <1>2. ASSUME Crash PROVE Quiet
    <2>1. ~NoFault'
      BY <1>2 DEF Crash, NoFault, TypeOK
    <2>2. \A q \in Procs : pc'[q] = "idle"
      BY <1>2 DEF Crash
    <2>3. QED BY <1>2, <2>1, <2>2 DEF Quiet, Crash, bookingVars, SucceededPCs
  <1>3. QED BY <1>1, <1>2

----------------------------------------------------------------------------
(* The steps of a payment *)

\* A step of the webhook call p that leaves the jobs alone.
LEMMA PayingLegs ==
    ASSUME IInv, Legs, Kept, LegsFit', NEW p \in Hooks, OnlyMoves(p),
           UNCHANGED <<legs, job>>,
           pc[p] # "hook.job", pc'[p] \in SucceededPCs, LegWork(p)',
           \A b \in Bookings :
               Covers(p, b) \/ (status'[b] = "PAID" /\ status[b] # "PAID")
                   => Covers(p, b)'
    PROVE  Legs'
  <1> USE DEF IInv, Legs
  <1>1. \A q \in Procs : q # p => pc'[q] = pc[q] /\ arg'[q] = arg[q]
    BY DEF OnlyMoves
  <1>2. ASSUME NEW q \in Procs PROVE LegWork(q)' /\ pc'[q] # "confirm.paid"
    <2>1. CASE q = p
      BY <2>1 DEF SucceededPCs
    <2>2. CASE q # p
      BY <1>1, <2>2 DEF LegWork
    <2>3. QED BY <2>1, <2>2
  <1>3. LastLeg'
    <2>1. \A h \in Hooks : pc[h] = "hook.job" => pc'[h] = pc[h] /\ arg'[h] = arg[h]
      BY <1>1 DEF Procs
    <2>2. QED BY <2>1 DEF LastLeg, Kept
  <1>4. InHand'
    <2> SUFFICES ASSUME NoFault', NEW b \in Bookings,
                        status'[b] = "PAID", job[b] = "NONE"
                 PROVE  \E h \in Hooks : Covers(h, b)'
      BY DEF InHand
    <2>1. CASE status[b] # "PAID"
      BY <2>1
    <2>2. CASE status[b] = "PAID"
      <3>1. PICK h \in Hooks : Covers(h, b)
        BY <2>2 DEF InHand, Kept
      <3>2. CASE h = p
        BY <3>1, <3>2
      <3>3. CASE h # p
        <4>1. pc'[h] = pc[h] /\ arg'[h] = arg[h]
          BY <1>1, <3>3 DEF Procs
        <4>2. Covers(h, b)'
          BY <3>1, <4>1 DEF Covers
        <4>3. QED BY <4>2
      <3>4. QED BY <3>2, <3>3
    <2>3. QED BY <2>1, <2>2
  <1>5. QED BY <1>2, <1>3, <1>4

\* A call starts on the legs of its intent ...
LEMMA PaymentSucceededLegs ==
    ASSUME IInv, Legs, Kept, LegsFit', NEW p \in Procs, NEW i \in Intents,
           PaymentSucceeded(p, i), ~UNCHANGED procVars
    PROVE  Legs'
  <1> USE DEF IInv
  <1> DEFINE a == [NoArg EXCEPT !.intent = i, !.todo = legs[i]]
  <1>1. a \in Arg /\ a.intent = i /\ a.todo = legs[i] /\ "hook.pay" \in PC
    BY NoArgType DEF Arg, NoArg, TypeOK, PC, SucceededPCs
  <1>2. GotoWith(p, "hook.pay", a)
    BY DEF PaymentSucceeded
  <1> HIDE DEF a
  <1>3. pc'[p] = "hook.pay" /\ arg'[p] = a /\ OnlyMoves(p)
    BY <1>1, <1>2, GotoWithType, GotoWithMoves
  <1>4. /\ p \in Hooks /\ pc[p] = "idle"
        /\ UNCHANGED <<legs, status, job>>
    BY DEF PaymentSucceeded, Receive, Free, bookingVars
  <1>5. LegWork(p)'
    BY <1>1, <1>3, <1>4 DEF LegWork
  <1>6. \A b \in Bookings : ~Covers(p, b)
    BY <1>4 DEF Covers, SucceededPCs
  <1>7. pc'[p] \in SucceededPCs /\ pc[p] # "hook.job"
    BY <1>3, <1>4 DEF SucceededPCs
  <1>8. QED BY <1>3, <1>4, <1>5, <1>6, <1>7, PayingLegs

\* ... keeps them to the end of its first loop ...
LEMMA RecordPaymentLegs ==
    ASSUME IInv, Legs, Kept, LegsFit', NEW p \in Procs, NEW c \in Bookings,
           RecordPayment(p, c)
    PROVE  Legs'
  <1> USE DEF IInv
  <1>1. /\ pc[p] = "hook.pay" /\ c \in arg[p].todo /\ pc[p] \in SucceededPCs
        /\ UNCHANGED <<legs, status, job>>
    BY DEF RecordPayment, SucceededPCs, stripeVars, bookingVars
  <1>2. arg[p] \in Arg /\ [arg[p] EXCEPT !.leg = c] \in Arg /\ "hook.paid" \in PC
    BY DEF TypeOK, Arg, PC, SucceededPCs
  <1>3. /\ pc'[p] = "hook.paid" /\ arg'[p] = [arg[p] EXCEPT !.leg = c]
        /\ OnlyMoves(p)
    BY <1>2, GotoWithType, GotoWithMoves DEF RecordPayment
  <1>4. /\ arg'[p].leg = c /\ arg'[p].intent = arg[p].intent
        /\ arg'[p].todo = arg[p].todo
    BY <1>2, <1>3 DEF Arg
  <1>5. p \in Hooks /\ arg[p].todo \subseteq legs[arg[p].intent]
    BY <1>1 DEF HookWork, Legs, LegWork
  <1>6. LegWork(p)'
    BY <1>1, <1>3, <1>4, <1>5 DEF LegWork
  <1>7. pc'[p] \in SucceededPCs
    BY <1>3 DEF SucceededPCs
  <1>8. \A b \in Bookings : Covers(p, b) => Covers(p, b)'
    BY <1>1, <1>3, <1>4, <1>7 DEF Covers
  <1>9. QED BY <1>1, <1>3, <1>5, <1>6, <1>7, <1>8, PayingLegs

\* ... and a leg it marks as paid is one of those it will create a job for.
LEMMA MarkPaidLegs ==
    ASSUME IInv, Legs, Kept, LegsFit', NEW p \in Procs, MarkPaid(p)
    PROVE  Legs'
  <1> USE DEF IInv
  <1> DEFINE i == arg[p].intent
             rest == arg[p].todo \ {arg[p].leg}
  <1>1. /\ pc[p] = "hook.paid" /\ pc[p] \in SucceededPCs
        /\ UNCHANGED <<legs, job>>
    BY DEF MarkPaid, Legs, SucceededPCs, stripeVars
  <1>2. /\ p \in Hooks /\ i \in Intents /\ arg[p].todo \subseteq legs[i]
        /\ arg[p].leg \in legs[i]
    BY <1>1 DEF HookWork, Legs, LegWork
  <1>3. arg[p] \in Arg /\ legs[i] \subseteq Bookings
    BY <1>2 DEF TypeOK
  <1>4. {"hook.pay", "hook.job"} \subseteq PC
    BY DEF PC, SucceededPCs
  <1>5. \A b \in Bookings : status'[b] = "PAID" /\ status[b] # "PAID" =>
            b = arg[p].leg
    BY DEF MarkPaid, SetStatus, TypeOK
  <1>6. /\ arg'[p].intent = i /\ OnlyMoves(p)
        /\ \/ pc'[p] = "hook.pay" /\ arg'[p].todo = rest
           \/ pc'[p] = "hook.job" /\ arg'[p].todo = legs[i]
    <2> DEFINE next == [arg[p] EXCEPT !.todo = rest, !.leg = None]
               jobs == [arg[p] EXCEPT !.todo = legs[i], !.leg = None]
    <2>1. next \in Arg /\ next.intent = i /\ next.todo = rest
      BY <1>3 DEF Arg
    <2>2. jobs \in Arg /\ jobs.intent = i /\ jobs.todo = legs[i]
      BY <1>3 DEF Arg
    <2>3. GotoWith(p, "hook.pay", next) \/ GotoWith(p, "hook.job", jobs)
      BY <1>1 DEF MarkPaid
    <2> HIDE DEF next, jobs, i, rest
    <2>4. CASE GotoWith(p, "hook.pay", next)
      BY <1>4, <2>1, <2>4, GotoWithType, GotoWithMoves
    <2>5. CASE GotoWith(p, "hook.job", jobs)
      BY <1>4, <2>2, <2>5, GotoWithType, GotoWithMoves
    <2>6. QED BY <2>3, <2>4, <2>5
  <1> HIDE DEF i, rest
  <1>7. rest \subseteq legs[i]
    BY <1>2 DEF rest
  <1>8. LegWork(p)'
    BY <1>1, <1>6, <1>7 DEF LegWork
  <1>9. pc'[p] \in SucceededPCs
    BY <1>6 DEF SucceededPCs
  <1>10. \A b \in legs[i] : Covers(p, b)'
    BY <1>1, <1>6, <1>9 DEF Covers
  <1>11. \A b \in Bookings : Covers(p, b) => b \in legs[i]
    BY DEF Covers, i
  <1>12. \A b \in Bookings :
             Covers(p, b) \/ (status'[b] = "PAID" /\ status[b] # "PAID")
                 => Covers(p, b)'
    BY <1>2, <1>5, <1>10, <1>11
  <1>13. QED BY <1>1, <1>2, <1>6, <1>8, <1>9, <1>12, PayingLegs

\* The call p comes to leg c: it creates the job, or stops because there is
\* one; then the other leg, if it has none, is the last of another call.
LEMMA CreateJobLegs ==
    ASSUME IInv, Legs, Kept, LegsFit', Singles \/ Together,
           NEW p \in Procs, NEW c \in Bookings, CreateJob(p, c)
    PROVE  Legs'
  <1> USE DEF IInv
  <1> DEFINE i == arg[p].intent
             rest == arg[p].todo \ {c}
  <1>1. /\ pc[p] = "hook.job" /\ c \in arg[p].todo /\ pc[p] \in SucceededPCs
        /\ UNCHANGED <<legs, status>>
    BY DEF CreateJob, SucceededPCs, stripeVars
  <1>2. /\ p \in Hooks /\ i \in Intents /\ intent[i] = "succeeded"
        /\ arg[p].todo \subseteq legs[i] /\ legs[i] \subseteq Bookings
        /\ \A b \in legs[i] \ arg[p].todo : job[b] # "NONE"
    BY <1>1 DEF HookWork, Legs, LegWork, TypeOK
  <1>3. job \in [Bookings -> {"NONE", "OPEN_FOR_BIDDING", "CANCELLED"}]
    BY DEF TypeOK
  <1>4. /\ job'[c] # "NONE"
        /\ \A b \in Bookings \ {c} : job'[b] = job[b]
    BY <1>3 DEF CreateJob
  <1>5. /\ OnlyMoves(p)
        /\ \/ pc'[p] = "idle" /\ (job[c] # "NONE" \/ rest = {})
           \/ /\ job[c] = "NONE" /\ pc'[p] = "hook.job"
              /\ arg'[p].todo = rest /\ arg'[p].intent = i
    <2> DEFINE a == [arg[p] EXCEPT !.todo = rest]
    <2>1. a \in Arg /\ a.todo = rest /\ a.intent = i /\ "hook.job" \in PC
      BY DEF Arg, TypeOK, PC, SucceededPCs
    <2>2. \/ Return(p) /\ (job[c] # "NONE" \/ rest = {})
          \/ job[c] = "NONE" /\ GotoWith(p, "hook.job", a)
      BY DEF CreateJob
    <2> HIDE DEF a, i, rest
    <2>3. CASE Return(p) /\ (job[c] # "NONE" \/ rest = {})
      BY <2>3, ReturnType, ReturnMoves
    <2>4. CASE job[c] = "NONE" /\ GotoWith(p, "hook.job", a)
      BY <2>1, <2>4, GotoWithType, GotoWithMoves
    <2>5. QED BY <2>2, <2>3, <2>4
  <1>6. rest \subseteq legs[i] /\ c \notin rest
    BY <1>2
  <1>7. \A b \in legs[i] \ rest : job'[b] # "NONE"
    BY <1>2, <1>4
  <1>i. i = arg[p].intent /\ rest = arg[p].todo \ {c}
    OBVIOUS
  <1> HIDE DEF i, rest
  <1>8. \A q \in Procs : q # p => pc'[q] = pc[q] /\ arg'[q] = arg[q]
    BY <1>5 DEF OnlyMoves
  <1>9. ASSUME NEW q \in Procs PROVE LegWork(q)' /\ pc'[q] # "confirm.paid"
    <2>1. CASE q = p
      BY <1>1, <1>5, <1>6, <1>7, <2>1 DEF LegWork, SucceededPCs
    <2>2. CASE q # p
      <3>1. pc'[q] # "confirm.paid" /\ pc'[q] = pc[q] /\ arg'[q] = arg[q]
        BY <1>8, <2>2 DEF Legs
      <3>2. pc[q] \in SucceededPCs => legs[arg[q].intent] \subseteq Bookings
        BY DEF HookWork, TypeOK
      <3>3. \A b \in Bookings : job[b] # "NONE" => job'[b] # "NONE"
        BY DEF Kept
      <3>4. LegWork(q)'
        BY <1>1, <3>1, <3>2, <3>3 DEF Legs, LegWork
      <3>5. QED BY <3>1, <3>4
    <2>3. QED BY <2>1, <2>2
  <1>10. ASSUME NEW h \in Hooks, h # p, NEW b \in Bookings, Covers(h, b)
         PROVE  Covers(h, b)'
    BY <1>1, <1>8, <1>10 DEF Covers, Procs
  <1>11. LastLeg'
    <2> SUFFICES ASSUME NoFault', ~Singles, NEW b \in Bookings, NEW d \in Bookings,
                        b # d, job'[d] # "NONE", job'[b] = "NONE"
                 PROVE  \E h \in Hooks : pc'[h] = "hook.job" /\ arg'[h].todo = {b}
      BY DEF LastLeg
    <2>1. b # c /\ d = c /\ job[b] = "NONE"
      BY <1>4 DEF Together
    <2>2. NoFault
      BY DEF Kept
    <2>3. legs[i] = Bookings
      BY <1>2 DEF Legs, LegsFit
    <2>4. CASE job[c] # "NONE"
      <3>1. PICK h \in Hooks : pc[h] = "hook.job" /\ arg[h].todo = {b}
        BY <2>1, <2>2, <2>4 DEF Legs, LastLeg
      <3>2. h # p
        BY <1>1, <2>1, <3>1
      <3>3. QED BY <1>8, <3>1, <3>2 DEF Procs
    <2>5. CASE job[c] = "NONE"
      <3>1. b \in rest
        BY <1>7, <2>3
      <3>2. \A x \in rest : x = b
        BY <1>2, <1>6, <2>1, <2>3 DEF Together
      <3>3. rest = {b}
        BY <3>1, <3>2
      <3>4. QED BY <1>2, <1>5, <2>5, <3>3
    <2>6. QED BY <2>4, <2>5
  <1>12. InHand'
    <2> SUFFICES ASSUME NoFault', NEW b \in Bookings,
                        status[b] = "PAID", job'[b] = "NONE"
                 PROVE  \E h \in Hooks : Covers(h, b)'
      BY <1>1 DEF InHand
    <2>1. b # c /\ job[b] = "NONE" /\ NoFault
      BY <1>4 DEF Kept
    <2>2. PICK h \in Hooks : Covers(h, b)
      BY <2>1 DEF Legs, InHand
    <2>3. CASE h # p
      BY <1>10, <2>2, <2>3
    <2>4. CASE h = p
      <3>1. b \in legs[i] /\ b \in rest
        BY <1>1, <1>i, <2>1, <2>2, <2>4 DEF Covers
      <3>2. CASE job[c] = "NONE"
        <4>1. pc'[p] = "hook.job" /\ arg'[p].todo = rest /\ arg'[p].intent = i
          BY <1>5, <3>1, <3>2
        <4>2. Covers(p, b)'
          BY <1>1, <3>1, <4>1 DEF Covers, SucceededPCs
        <4>3. QED BY <1>2, <4>2
      <3>3. CASE job[c] # "NONE"
        <4>1. ~Singles
          <5>1. c \in legs[i] /\ b \in legs[i] /\ intent[i] # "none"
            BY <1>1, <1>2, <1>i, <3>1
          <5>2. QED BY <1>2, <2>1, <5>1 DEF Legs, LegsFit
        <4>2. PICK g \in Hooks : pc[g] = "hook.job" /\ arg[g].todo = {b}
          BY <2>1, <3>3, <4>1 DEF Legs, LastLeg
        <4>3. g # p
          BY <1>1, <2>1, <4>2
        <4>4. legs[arg[g].intent] = Bookings
          <5>1. pc[g] \in SucceededPCs /\ g \in Procs
            BY <4>2 DEF SucceededPCs, Procs
          <5>2. arg[g].intent \in Intents /\ intent[arg[g].intent] = "succeeded"
            BY <5>1 DEF HookWork
          <5>3. QED BY <4>1, <5>2 DEF Legs, LegsFit
        <4>5. Covers(g, b)
          BY <4>2, <4>4 DEF Covers, SucceededPCs
        <4>6. QED BY <1>10, <4>3, <4>5
      <3>4. QED BY <3>2, <3>3
    <2>5. QED BY <2>3, <2>4
  <1>13. QED BY <1>9, <1>11, <1>12 DEF Legs

LEMMA NextLegs ==
    ASSUME IInv, Legs, Next, WebhookOnly, Singles \/ Together
    PROVE  Legs'
  <1>1. Kept
    BY KeptByNext DEF IInv
  <1>2. LegsFit'
    BY <1>1, NextFits DEF Legs
  <1>3. Quiet => Legs'
    BY <1>2, QuietLegs
  <1>4. ASSUME NEW i \in Intents, Stripe(i) PROVE Legs'
    <2>1. UNCHANGED <<status, job, pc, arg>>
      BY <1>4 DEF Stripe, CreatePaymentIntent, CreateGroupPaymentIntent,
                  CreateIntent, PaymentSucceeds, PaymentFails, bookingVars,
                  procVars
    <2>2. QED BY <1>1, <1>3, <2>1, NobodyQuiet
  <1>5. ASSUME NEW p \in Procs, Webhook(p) PROVE Legs'
    BY <1>1, <1>2, <1>3, <1>5, PaymentSucceededLegs, OtherEventsQuiet DEF Webhook
  <1>6. ASSUME NEW p \in Procs, StartRequest(p) PROVE Legs'
    BY <1>1, <1>3, <1>6, StartRequestQuiet
  <1>7. ASSUME NEW p \in Procs, Continue(p) PROVE Legs'
    <2>1. OnlyMoves(p)
      <3>1. pc[p] \in SucceededPCs => arg[p].intent \in Intents
        BY DEF IInv, HookWork
      <3>2. QED BY <1>7, <3>1, ContinueType DEF IInv
    <2>2. QED BY <1>1, <1>2, <1>3, <1>7, <2>1, RecordPaymentLegs, CreateJobLegs,
                 MarkPaidLegs, ContinueQuiet DEF Continue
  <1>8. ASSUME NEW p \in Procs, AwaitFails(p) PROVE Legs'
    BY <1>1, <1>3, <1>8, FaultQuiet
  <1>9. CASE Crash
    BY <1>1, <1>3, <1>9, FaultQuiet
  <1>10. QED BY <1>4, <1>5, <1>6, <1>7, <1>8, <1>9 DEF Next

\* Whatever duplicates, concurrent deliveries, refunds and cancellations run
\* beside the webhook, a booking that is PAID when all is settled has its job
\* if nothing failed and payments are confirmed by the webhook alone: for any
\* number of bookings paid one by one, and for the two legs of a return
\* journey paid together (stripe-webhook.controller.ts:78-194).  With the
\* confirmation calls, or with a leg paid alone and again with the other, it
\* does not hold.
THEOREM PaidGetsJob ==
    ASSUME WebhookOnly, Singles \/ Together
    PROVE  Spec => []PaidHasJob
  <1>1. Init => Legs
    BY DEF Init, Legs, LegsFit, LegWork, LastLeg, InHand, SucceededPCs
  <1>2. IInv /\ Legs /\ [Next]_vars => Legs'
    <2> SUFFICES ASSUME IInv, Legs, [Next]_vars PROVE Legs'
      OBVIOUS
    <2>1. CASE UNCHANGED vars
      BY <2>1 DEF vars, stripeVars, bookingVars, procVars, countVars, faultVars,
                  Legs, LegsFit, LegWork, LastLeg, InHand, Covers, NoFault
    <2>2. QED BY <2>1, NextLegs
  <1>3. Legs => PaidHasJob
    <2> SUFFICES ASSUME Legs, NoFault, Idle, NEW b \in Bookings,
                        status[b] = "PAID", job[b] = "NONE"
                 PROVE  FALSE
      BY DEF PaidHasJob, Settled
    <2>1. PICK h \in Hooks : Covers(h, b)
      BY DEF Legs, InHand
    <2>2. QED BY <2>1 DEF Idle, Covers, Procs, SucceededPCs
  <1>4. QED BY <1>1, <1>2, <1>3, Inductive, PTL DEF Spec

----------------------------------------------------------------------------
(* Sums over finite sets *)

\* Induction on the subsets of a finite set.
LEMMA SubsetInduction ==
    ASSUME NEW S, IsFiniteSet(S), NEW Good \in SUBSET SUBSET S,
           \A T \in SUBSET S :
               (\A U \in SUBSET T : U # T => U \in Good) => T \in Good
    PROVE  Good = SUBSET S
  <1> DEFINE R == StrictSubsetOrdering(S)
             Bad == (SUBSET S) \ Good
  <1>1. FiniteSubsetsOf(S) = SUBSET S
    BY FS_FiniteSubsetsOfFinite
  <1>2. IsWellFoundedOn(R, SUBSET S)
    BY <1>1, FS_StrictSubsetOrderingWellFounded
  <1>3. ASSUME Bad # {} PROVE FALSE
    <2>1. PICK T \in Bad : \A U \in Bad : ~(<<U, T>> \in R)
      <3> HIDE DEF R
      <3>1. Bad \subseteq SUBSET S
        OBVIOUS
      <3> HIDE DEF Bad
      <3>2. QED BY <1>2, <1>3, <3>1, WFMin
    <2>2. \A U \in SUBSET T : U # T => U \in Good
      BY <2>1 DEF StrictSubsetOrdering
    <2>3. QED BY <2>1, <2>2
  <1>4. QED BY <1>3

\* The function that SumFunctionOnSet recurs on.
IsSum(g, f, S) ==
    g = [s \in SUBSET S |-> IF s = {} THEN 0
                            ELSE LET x == CHOOSE x \in s : TRUE
                                 IN  f[x] + g[s \ {x}]]

\* The library's sum is the value of that function at the whole set.
LEMMA SumIs ==
    ASSUME NEW f, NEW S
    PROVE  SumFunctionOnSet(f, S) = (CHOOSE g : IsSum(g, f, S))[S]
  BY DEF SumFunctionOnSet, FoldFunctionOnSet, MapThenFoldSet, IsSum

\* It is unique, on the subsets too.
LEMMA SumUnique ==
    ASSUME NEW f, NEW S, IsFiniteSet(S), NEW T \in SUBSET S, NEW g, NEW h,
           IsSum(g, f, S), IsSum(h, f, T)
    PROVE  \A s \in SUBSET T : g[s] = h[s]
  <1> DEFINE Good == {s \in SUBSET T : g[s] = h[s]}
  <1>1. IsFiniteSet(T)
    BY FS_Subset
  <1>2. ASSUME NEW s \in SUBSET T, \A u \in SUBSET s : u # s => u \in Good
        PROVE  s \in Good
    <2> DEFINE x == CHOOSE x \in s : TRUE
    <2>1. /\ g[s] = IF s = {} THEN 0 ELSE f[x] + g[s \ {x}]
          /\ h[s] = IF s = {} THEN 0 ELSE f[x] + h[s \ {x}]
      BY DEF IsSum
    <2>2. ASSUME s # {} PROVE g[s \ {x}] = h[s \ {x}]
      <3>1. x \in s
        BY <2>2
      <3>2. s \ {x} \in SUBSET s /\ s \ {x} # s
        BY <3>1
      <3>3. QED BY <1>2, <3>2
    <2>3. QED BY <2>1, <2>2
  <1>3. Good \in SUBSET SUBSET T
    OBVIOUS
  <1>4. Good = SUBSET T
    <2> HIDE DEF Good
    <2>1. QED BY <1>1, <1>2, <1>3, SubsetInduction
  <1>5. QED BY <1>4

\* One is put together from those of the smaller sets.
LEMMA SumExists ==
    ASSUME NEW f, NEW S, IsFiniteSet(S)
    PROVE  IsSum(CHOOSE g : IsSum(g, f, S), f, S)
  <1> DEFINE Good == {T \in SUBSET S : \E g : IsSum(g, f, T)}
             It(T) == CHOOSE g : IsSum(g, f, T)
  <1>1. ASSUME NEW T \in SUBSET S, \A U \in SUBSET T : U # T => U \in Good
        PROVE  T \in Good
    <2> DEFINE X(s) == CHOOSE x \in s : TRUE
               V(s) == IF s = {} THEN 0 ELSE f[X(s)] + It(s \ {X(s)})[s \ {X(s)}]
               h == [s \in SUBSET T |-> V(s)]
    <2>1. ASSUME NEW U \in SUBSET T, U # T PROVE IsSum(It(U), f, U)
      BY <1>1, <2>1
    <2>2. ASSUME NEW s \in SUBSET T, s # {}
          PROVE  X(s) \in s /\ s \ {X(s)} \in SUBSET T /\ s \ {X(s)} # T
      BY <2>2
    <2>3. ASSUME NEW U \in SUBSET T, U # T PROVE It(U)[U] = V(U)
      <3>1. IsSum(It(U), f, U)
        BY <2>1, <2>3
      <3>2. It(U)[U] = IF U = {} THEN 0 ELSE f[X(U)] + It(U)[U \ {X(U)}]
        <4> DEFINE g == It(U)
        <4>1. IsSum(g, f, U)
          BY <3>1
        <4> HIDE DEF g
        <4>2. g[U] = IF U = {} THEN 0 ELSE f[X(U)] + g[U \ {X(U)}]
          BY <4>1 DEF IsSum
        <4>3. QED BY <4>2 DEF g
      <3>3. CASE U = {}
        BY <3>2, <3>3
      <3>4. CASE U # {}
        <4> DEFINE W == U \ {X(U)}
        <4>1. W \in SUBSET T /\ W # T /\ W \in SUBSET U
          BY <2>2, <3>4
        <4>2. IsSum(It(W), f, W)
          BY <2>1, <4>1
        <4>3. IsFiniteSet(U)
          BY FS_Subset
        <4>4. It(U)[W] = It(W)[W]
          <5> HIDE DEF W, It
          <5>1. QED BY <3>1, <4>1, <4>2, <4>3, SumUnique
        <4>5. QED BY <3>2, <3>4, <4>4
      <3>5. QED BY <3>3, <3>4
    <2> HIDE DEF It
    <2>4. ASSUME NEW s \in SUBSET T
          PROVE  V(s) = IF s = {} THEN 0 ELSE f[X(s)] + h[s \ {X(s)}]
      <3>1. CASE s = {}
        BY <3>1
      <3>2. CASE s # {}
        <4> DEFINE W == s \ {X(s)}
        <4>1. W \in SUBSET T /\ W # T
          BY <2>2, <3>2
        <4>2. It(W)[W] = V(W) /\ h[W] = V(W)
          BY <2>3, <4>1
        <4>3. QED BY <3>2, <4>2
      <3>3. QED BY <3>1, <3>2
    <2>5. IsSum(h, f, T)
      BY <2>4 DEF IsSum
    <2>6. QED BY <2>5
  <1>2. Good \in SUBSET SUBSET S
    OBVIOUS
  <1>3. Good = SUBSET S
    <2> HIDE DEF Good
    <2>1. QED BY <1>1, <1>2, SubsetInduction
  <1>4. S \in Good
    BY <1>3
  <1>5. QED BY <1>4

\* So the sum over a finite set adds an element that the function chooses to
\* the sum over the others ...
LEMMA SumUnfolds ==
    ASSUME NEW f, NEW S, IsFiniteSet(S)
    PROVE  SumFunctionOnSet(f, S) =
             IF S = {} THEN 0
             ELSE LET x == CHOOSE x \in S : TRUE
                  IN  f[x] + SumFunctionOnSet(f, S \ {x})
  <1> DEFINE X == CHOOSE x \in S : TRUE
             It(T) == CHOOSE g : IsSum(g, f, T)
  <1>1. IsSum(It(S), f, S)
    BY SumExists
  <1>2. SumFunctionOnSet(f, S) = It(S)[S]
    BY SumIs
  <1>3. It(S)[S] = IF S = {} THEN 0 ELSE f[X] + It(S)[S \ {X}]
    <2> DEFINE g == It(S)
    <2>1. IsSum(g, f, S)
      BY <1>1
    <2> HIDE DEF g
    <2>2. g[S] = IF S = {} THEN 0 ELSE f[X] + g[S \ {X}]
      BY <2>1 DEF IsSum
    <2>3. QED BY <2>2 DEF g
  <1>4. CASE S = {}
    BY <1>2, <1>3, <1>4
  <1>5. CASE S # {}
    <2> DEFINE W == S \ {X}
    <2>1. W \in SUBSET S /\ W \in SUBSET W
      OBVIOUS
    <2>2. IsFiniteSet(W)
      BY <2>1, FS_Subset
    <2>3. IsSum(It(W), f, W)
      <3> HIDE DEF W
      <3>1. QED BY <2>2, SumExists
    <2>4. It(S)[W] = It(W)[W]
      <3> HIDE DEF W, It
      <3>1. QED BY <1>1, <2>1, <2>3, SumUnique
    <2>5. SumFunctionOnSet(f, W) = It(W)[W]
      BY SumIs
    <2>6. QED BY <1>2, <1>3, <1>5, <2>4, <2>5
  <1>6. QED BY <1>4, <1>5

\* ... is a number if its summands are ...
LEMMA SumType ==
    ASSUME NEW S, IsFiniteSet(S), NEW f, \A x \in S : f[x] \in Nat
    PROVE  SumFunctionOnSet(f, S) \in Nat
  <1> DEFINE Good == {T \in SUBSET S : SumFunctionOnSet(f, T) \in Nat}
  <1>1. ASSUME NEW T \in SUBSET S, \A U \in SUBSET T : U # T => U \in Good
        PROVE  T \in Good
    <2> DEFINE x == CHOOSE x \in T : TRUE
    <2>1. SumFunctionOnSet(f, T) = IF T = {} THEN 0 ELSE
            f[x] + SumFunctionOnSet(f, T \ {x})
      <3>1. IsFiniteSet(T)
        BY FS_Subset
      <3>2. QED BY <3>1, SumUnfolds
    <2>2. ASSUME T # {} PROVE x \in T /\ SumFunctionOnSet(f, T \ {x}) \in Nat
      <3>1. x \in T
        BY <2>2
      <3>2. T \ {x} \in SUBSET T /\ T \ {x} # T
        BY <3>1
      <3>3. QED BY <1>1, <3>1, <3>2
    <2>3. f[x] \in Nat \/ T = {}
      BY <2>2
    <2> HIDE DEF x
    <2>4. QED BY <2>1, <2>2, <2>3
  <1>2. Good \in SUBSET SUBSET S
    OBVIOUS
  <1>3. Good = SUBSET S
    <2> HIDE DEF Good
    <2>1. QED BY <1>1, <1>2, SubsetInduction
  <1>4. S \in Good
    BY <1>3
  <1>5. QED BY <1>4

\* ... depends on the function's values only ...
LEMMA SumSame ==
    ASSUME NEW S, IsFiniteSet(S), NEW f, NEW g, \A x \in S : f[x] = g[x]
    PROVE  SumFunctionOnSet(f, S) = SumFunctionOnSet(g, S)
  <1> DEFINE Good == {T \in SUBSET S :
                        SumFunctionOnSet(f, T) = SumFunctionOnSet(g, T)}
  <1>1. ASSUME NEW T \in SUBSET S, \A U \in SUBSET T : U # T => U \in Good
        PROVE  T \in Good
    <2> DEFINE x == CHOOSE x \in T : TRUE
    <2>1. /\ SumFunctionOnSet(f, T) = IF T = {} THEN 0 ELSE
                f[x] + SumFunctionOnSet(f, T \ {x})
          /\ SumFunctionOnSet(g, T) = IF T = {} THEN 0 ELSE
                g[x] + SumFunctionOnSet(g, T \ {x})
      <3>1. IsFiniteSet(T)
        BY FS_Subset
      <3>2. QED BY <3>1, SumUnfolds
    <2>2. ASSUME T # {}
          PROVE  /\ f[x] = g[x]
                 /\ SumFunctionOnSet(f, T \ {x}) = SumFunctionOnSet(g, T \ {x})
      <3>1. x \in T
        BY <2>2
      <3>2. T \ {x} \in SUBSET T /\ T \ {x} # T
        BY <3>1
      <3>3. QED BY <1>1, <3>1, <3>2
    <2> HIDE DEF x
    <2>3. QED BY <2>1, <2>2
  <1>2. Good \in SUBSET SUBSET S
    OBVIOUS
  <1>3. Good = SUBSET S
    <2> HIDE DEF Good
    <2>1. QED BY <1>1, <1>2, SubsetInduction
  <1>4. S \in Good
    BY <1>3
  <1>5. QED BY <1>4

\* ... and not on the order in which it is added up.
LEMMA SumSplit ==
    ASSUME NEW S, IsFiniteSet(S), NEW f, \A x \in S : f[x] \in Nat, NEW y \in S
    PROVE  SumFunctionOnSet(f, S) = f[y] + SumFunctionOnSet(f, S \ {y})
  <1> DEFINE Good == {T \in SUBSET S : \A z \in T :
                SumFunctionOnSet(f, T) = f[z] + SumFunctionOnSet(f, T \ {z})}
  <1>0. ASSUME NEW T \in SUBSET S PROVE IsFiniteSet(T) /\ SumFunctionOnSet(f, T) \in Nat
    <2>1. IsFiniteSet(T)
      BY FS_Subset
    <2>2. QED BY <2>1, SumType
  <1>1. ASSUME NEW T \in SUBSET S, \A U \in SUBSET T : U # T => U \in Good
        PROVE  T \in Good
    <2> SUFFICES ASSUME NEW z \in T
                 PROVE  SumFunctionOnSet(f, T) = f[z] + SumFunctionOnSet(f, T \ {z})
      OBVIOUS
    <2> DEFINE x == CHOOSE x \in T : TRUE
    <2>1. /\ x \in T /\ T # {}
          /\ SumFunctionOnSet(f, T) = f[x] + SumFunctionOnSet(f, T \ {x})
      BY <1>0, SumUnfolds
    <2>2. CASE x = z
      BY <2>1, <2>2
    <2>3. CASE x # z
      <3> DEFINE W == (T \ {x}) \ {z}
      <3>1. T \ {x} \in SUBSET T /\ T \ {x} # T /\ z \in T \ {x}
        BY <2>1, <2>3
      <3>2. SumFunctionOnSet(f, T \ {x}) = f[z] + SumFunctionOnSet(f, W)
        BY <1>1, <3>1
      <3>3. T \ {z} \in SUBSET S /\ T \ {z} \in SUBSET T /\ T \ {z} # T
              /\ x \in T \ {z} /\ (T \ {z}) \ {x} = W /\ W \in SUBSET S
        BY <2>1, <2>3
      <3>4. SumFunctionOnSet(f, T \ {z}) = f[x] + SumFunctionOnSet(f, W)
        BY <1>1, <3>3
      <3>5. f[x] \in Nat /\ f[z] \in Nat /\ SumFunctionOnSet(f, W) \in Nat
        BY <1>0, <2>1, <3>3
      <3> HIDE DEF x, W
      <3>6. QED BY <2>1, <3>2, <3>4, <3>5
    <2>4. QED BY <2>2, <2>3
  <1>2. Good \in SUBSET SUBSET S
    OBVIOUS
  <1>3. Good = SUBSET S
    <2> HIDE DEF Good
    <2>1. QED BY <1>1, <1>2, SubsetInduction
  <1>4. S \in Good
    BY <1>3
  <1>5. QED BY <1>4

\* A sum of zeros is zero.
LEMMA SumOfZeros ==
    ASSUME NEW S, IsFiniteSet(S), NEW f, \A x \in S : f[x] = 0
    PROVE  SumFunctionOnSet(f, S) = 0
  <1> DEFINE Good == {T \in SUBSET S : SumFunctionOnSet(f, T) = 0}
  <1>1. ASSUME NEW T \in SUBSET S, \A U \in SUBSET T : U # T => U \in Good
        PROVE  T \in Good
    <2> DEFINE x == CHOOSE x \in T : TRUE
    <2>1. SumFunctionOnSet(f, T) = IF T = {} THEN 0 ELSE
            f[x] + SumFunctionOnSet(f, T \ {x})
      <3>1. IsFiniteSet(T)
        BY FS_Subset
      <3>2. QED BY <3>1, SumUnfolds
    <2>2. ASSUME T # {} PROVE f[x] = 0 /\ SumFunctionOnSet(f, T \ {x}) = 0
      <3>1. x \in T
        BY <2>2
      <3>2. T \ {x} \in SUBSET T /\ T \ {x} # T
        BY <3>1
      <3>3. QED BY <1>1, <3>1, <3>2
    <2> HIDE DEF x
    <2>3. QED BY <2>1, <2>2
  <1>2. Good \in SUBSET SUBSET S
    OBVIOUS
  <1>3. Good = SUBSET S
    <2> HIDE DEF Good
    <2>1. QED BY <1>1, <1>2, SubsetInduction
  <1>4. S \in Good
    BY <1>3
  <1>5. QED BY <1>4

\* Adding to one entry adds to the sum.
LEMMA SumAdd ==
    ASSUME NEW S, IsFiniteSet(S), NEW f \in [S -> Nat], NEW y \in S, NEW n \in Nat
    PROVE  SumFunction([f EXCEPT ![y] = @ + n]) = SumFunction(f) + n
  <1> DEFINE g == [f EXCEPT ![y] = @ + n]
  <1>1. /\ g \in [S -> Nat] /\ g[y] = f[y] + n
        /\ \A x \in S \ {y} : g[x] = f[x]
    OBVIOUS
  <1>2. SumFunction(g) = SumFunctionOnSet(g, S)
           /\ SumFunction(f) = SumFunctionOnSet(f, S)
    BY <1>1 DEF SumFunction
  <1> HIDE DEF g
  <1>3. /\ SumFunctionOnSet(g, S) = g[y] + SumFunctionOnSet(g, S \ {y})
        /\ SumFunctionOnSet(f, S) = f[y] + SumFunctionOnSet(f, S \ {y})
    BY <1>1, SumSplit
  <1>4. IsFiniteSet(S \ {y})
    BY FS_RemoveElement
  <1>5. SumFunctionOnSet(g, S \ {y}) = SumFunctionOnSet(f, S \ {y})
    BY <1>1, <1>4, SumSame
  <1>6. SumFunctionOnSet(f, S \ {y}) \in Nat /\ f[y] \in Nat
    BY <1>4, SumType
  <1>7. SumFunction(g) = SumFunction(f) + n
    BY <1>1, <1>2, <1>3, <1>5, <1>6
  <1>8. QED BY <1>7 DEF g

\* A total of numbers is a number.
LEMMA TotalType ==
    ASSUME NEW S, IsFiniteSet(S), NEW f \in [S -> Nat]
    PROVE  SumFunction(f) \in Nat
  BY SumType DEF SumFunction

----------------------------------------------------------------------------
(* Money that was returned is on record *)

\* What the handlers that are about to record a refund hold, if they are at
\* the steps c and have read a.
AmountsOf(a) == [p \in Procs |-> a[p].amount]
ToRecord(c) == {p \in Procs : c[p] = "refund.record"}
InFlight(c, a) == SumFunctionOnSet(AmountsOf(a), ToRecord(c))

\* What the handler p holds of it.
Held(c, a, p) == IF c[p] = "refund.record" THEN a[p].amount ELSE 0

\* These are numbers, and the handlers are finitely many.
LEMMA InFlightType ==
    ASSUME NEW c, NEW a \in [Procs -> Arg]
    PROVE  /\ IsFiniteSet(ToRecord(c)) /\ InFlight(c, a) \in Nat
           /\ \A p \in Procs : Held(c, a, p) \in Nat /\ AmountsOf(a)[p] \in Nat
  <1>1. \A p \in Procs : a[p].amount \in Nat
    BY DEF Arg
  <1>2. IsFiniteSet(Procs)
    BY FS_Union, PaymentsAssumption DEF PaymentsAssumption, Procs
  <1>3. IsFiniteSet(ToRecord(c))
    BY <1>2, FS_Subset DEF ToRecord
  <1>4. \A p \in ToRecord(c) : AmountsOf(a)[p] \in Nat
    BY <1>1 DEF AmountsOf, ToRecord
  <1>5. InFlight(c, a) \in Nat
    BY <1>3, <1>4, SumType DEF InFlight
  <1>6. \A p \in Procs : Held(c, a, p) \in Nat /\ AmountsOf(a)[p] \in Nat
    BY <1>1 DEF Held, AmountsOf
  <1>7. QED BY <1>3, <1>5, <1>6

\* The total is what p holds and what the others hold.
LEMMA OthersHold ==
    ASSUME NEW c, NEW a \in [Procs -> Arg], NEW p \in Procs
    PROVE  InFlight(c, a) =
             Held(c, a, p) + SumFunctionOnSet(AmountsOf(a), ToRecord(c) \ {p})
  <1>1. IsFiniteSet(ToRecord(c)) /\ InFlight(c, a) \in Nat
           /\ \A q \in Procs : AmountsOf(a)[q] \in Nat
    BY InFlightType
  <1>2. CASE p \in ToRecord(c)
    <2>1. Held(c, a, p) = AmountsOf(a)[p] /\ ToRecord(c) \subseteq Procs
      BY <1>2 DEF Held, AmountsOf, ToRecord
    <2>2. QED BY <1>1, <1>2, <2>1, SumSplit DEF InFlight
  <1>3. CASE p \notin ToRecord(c)
    <2>1. ToRecord(c) \ {p} = ToRecord(c) /\ Held(c, a, p) = 0
      BY <1>3 DEF Held, ToRecord
    <2>2. InFlight(c, a) = SumFunctionOnSet(AmountsOf(a), ToRecord(c) \ {p})
      BY <2>1 DEF InFlight
    <2>3. QED BY <1>1, <2>1, <2>2
  <1>4. QED BY <1>2, <1>3

\* When p moves, the total changes by what p takes or gives.
LEMMA FlightMoves ==
    ASSUME TypeOK, NEW p \in Procs, OnlyMoves(p)
    PROVE  InFlight(pc', arg') + Held(pc, arg, p)
             = InFlight(pc, arg) + Held(pc', arg', p)
  <1> DEFINE S == ToRecord(pc) \ {p}
             A == AmountsOf(arg)
             B == AmountsOf(arg')
  <1>0. arg \in [Procs -> Arg] /\ arg' \in [Procs -> Arg]
    BY DEF TypeOK, OnlyMoves
  <1>1. ToRecord(pc') \ {p} = S
    BY DEF OnlyMoves, ToRecord
  <1>2. \A q \in S : A[q] = B[q] /\ A[q] \in Nat
    BY <1>0, InFlightType DEF OnlyMoves, ToRecord, AmountsOf
  <1>3. IsFiniteSet(S)
    BY <1>0, InFlightType, FS_RemoveElement
  <1>4. InFlight(pc, arg) = Held(pc, arg, p) + SumFunctionOnSet(A, S)
    BY <1>0, OthersHold
  <1>5. InFlight(pc', arg') = Held(pc', arg', p) + SumFunctionOnSet(B, S)
    BY <1>0, <1>1, OthersHold
  <1> HIDE DEF S, A, B
  <1>6. SumFunctionOnSet(A, S) = SumFunctionOnSet(B, S)
           /\ SumFunctionOnSet(A, S) \in Nat
    BY <1>2, <1>3, SumSame, SumType
  <1>7. Held(pc, arg, p) \in Nat /\ Held(pc', arg', p) \in Nat
    BY <1>0, InFlightType
  <1>8. QED BY <1>4, <1>5, <1>6, <1>7

\* The three totals that Balance compares are numbers.
LEMMA TotalsType ==
    ASSUME TypeOK
    PROVE  /\ InFlight(pc, arg) \in Nat
           /\ SumFunction(returned) \in Nat /\ SumFunction(refunds) \in Nat
           /\ \A p \in Procs : Held(pc, arg, p) \in Nat
  BY InFlightType, TotalType, PaymentsAssumption DEF PaymentsAssumption, TypeOK

\* The property, faults aside.
Balance == SumFunction(returned) <= SumFunction(refunds) + InFlight(pc, arg)

\* A handler takes nothing back, and gives only what it holds.
LEMMA MoveBalanced ==
    ASSUME TypeOK, NEW p \in Procs, OnlyMoves(p), Balance,
           UNCHANGED <<returned, refunds>>, Held(pc, arg, p) = 0
    PROVE  Balance'
  <1>1. arg' \in [Procs -> Arg]
    BY DEF OnlyMoves
  <1>2. InFlight(pc', arg') \in Nat /\ Held(pc', arg', p) \in Nat
    BY <1>1, InFlightType
  <1>3. InFlight(pc', arg') = InFlight(pc, arg) + Held(pc', arg', p)
    BY <1>2, FlightMoves, TotalsType
  <1>4. QED BY <1>2, <1>3, TotalsType DEF Balance

\* A step that touches neither money nor handlers keeps the balance.
LEMMA StayBalanced ==
    ASSUME Balance, UNCHANGED <<returned, refunds, pc, arg>>
    PROVE  Balance'
  BY DEF Balance

\* Stripe returns money; the handler holds it ...
LEMMA RefundAtStripeBalanced ==
    ASSUME IInv, NEW p \in Procs, RefundAtStripe(p), OnlyMoves(p), Balance
    PROVE  Balance'
  <1> USE DEF IInv
  <1> DEFINE i == arg[p].intent
             n == arg[p].amount
  <1>1. /\ pc[p] = "refund.stripe" /\ Held(pc, arg, p) = 0 /\ n \in Nat
        /\ UNCHANGED refunds
    BY DEF RefundAtStripe, Held, TypeOK, Arg, ledgerVars
  <1>2. CASE UNCHANGED returned
    BY <1>1, <1>2, MoveBalanced
  <1>3. CASE /\ returned' = [returned EXCEPT ![i] = returned[i] + n]
             /\ Goto(p, "refund.record")
    <2>1. "refund.record" \in PC
      BY DEF PC
    <2>2. pc'[p] = "refund.record" /\ arg'[p] = arg[p]
      BY <1>3, <2>1, GotoType
    <2>3. Held(pc', arg', p) = n
      BY <2>2 DEF Held
    <2>4. InFlight(pc', arg') + 0 = InFlight(pc, arg) + n
      BY <1>1, <2>3, FlightMoves
    <2>5. returned \in [Intents -> Nat]
      BY DEF TypeOK
    <2>6. CASE i \in Intents
      <3>1. returned' = [returned EXCEPT ![i] = @ + n]
        BY <1>3
      <3>2. IsFiniteSet(Intents)
        BY PaymentsAssumption DEF PaymentsAssumption
      <3> HIDE DEF i, n
      <3>3. SumFunction(returned') = SumFunction(returned) + n
        BY <1>1, <2>5, <2>6, <3>1, <3>2, SumAdd
      <3>4. InFlight(pc', arg') = InFlight(pc, arg) + n
        <4>1. InFlight(pc', arg') \in Nat
          BY InFlightType DEF OnlyMoves
        <4>2. QED BY <2>4, <4>1
      <3>5. QED BY <1>1, <3>3, <3>4, TotalsType DEF Balance
    <2>7. CASE i \notin Intents
      <3>1. UNCHANGED returned
        BY <1>3, <2>5, <2>7
      <3>2. QED BY <1>1, <3>1, MoveBalanced
    <2>8. QED BY <2>6, <2>7
  <1>4. QED BY <1>2, <1>3 DEF RefundAtStripe

\* ... until it has recorded it.
LEMMA RecordRefundBalanced ==
    ASSUME IInv, NEW p \in Procs, RecordRefund(p), OnlyMoves(p), Balance
    PROVE  Balance'
  <1> USE DEF IInv
  <1> DEFINE b == arg[p].leg
             n == arg[p].amount
             next == IF arg[p].by = "cancelBooking"
                     THEN AfterRefund(arg[p].job) ELSE "refund.mark"
  <1>1. /\ pc[p] = "refund.record" /\ Held(pc, arg, p) = n /\ n \in Nat
        /\ UNCHANGED returned
        /\ refunds' = [refunds EXCEPT ![b] = @ + n]
    BY DEF RecordRefund, Held, TypeOK, Arg, stripeVars
  <1>2. b \in Bookings
    BY <1>1 DEF CancelWork, CancelPCs
  <1>3. next \in PC /\ next # "refund.record"
    BY AfterRefundType DEF AfterRefund, PC
  <1>4. pc'[p] = next
    BY <1>3, GotoType DEF RecordRefund
  <1>5. Held(pc', arg', p) = 0
    BY <1>3, <1>4 DEF Held
  <1>6. InFlight(pc', arg') + n = InFlight(pc, arg) + 0
    BY <1>1, <1>5, FlightMoves
  <1>7. InFlight(pc', arg') \in Nat
    BY InFlightType DEF OnlyMoves
  <1>8. refunds \in [Bookings -> Nat] /\ IsFiniteSet(Bookings)
    BY PaymentsAssumption DEF PaymentsAssumption, TypeOK
  <1> HIDE DEF b, n
  <1>9. SumFunction(refunds') = SumFunction(refunds) + n
    BY <1>1, <1>2, <1>8, SumAdd
  <1>10. QED BY <1>1, <1>6, <1>7, <1>9, TotalsType DEF Balance

\* The other steps neither return nor record.
LEMMA NextBalanced ==
    ASSUME IInv, Next, NoFault => Balance
    PROVE  NoFault' => Balance'
  <1> SUFFICES ASSUME NoFault' PROVE Balance'
    OBVIOUS
  <1> USE DEF IInv
  <1>1. NoFault /\ Balance
    BY KeptByNext DEF Kept
  <1>2. ASSUME NEW i \in Intents, Stripe(i) PROVE Balance'
    <2>1. UNCHANGED <<returned, refunds, pc, arg>>
      BY <1>2 DEF Stripe, CreatePaymentIntent, CreateGroupPaymentIntent,
                  CreateIntent, PaymentSucceeds, PaymentFails, ledgerVars,
                  procVars
    <2>2. QED BY <1>1, <2>1, StayBalanced
  <1>3. ASSUME NEW p \in Procs, pc[p] # "refund.record", OnlyMoves(p),
               UNCHANGED <<returned, refunds>>
        PROVE  Balance'
    BY <1>1, <1>3, MoveBalanced DEF Held
  <1>4. ASSUME NEW p \in Procs, Webhook(p) PROVE Balance'
    <2>1. OnlyMoves(p)
      BY <1>4, WebhookMoves
    <2>2. pc[p] = "idle" /\ UNCHANGED <<returned, refunds>>
      BY <1>4 DEF Webhook, PaymentSucceeded, PaymentFailed, ChargeRefunded,
                  Receive, Free, ledgerVars
    <2>3. QED BY <1>3, <2>1, <2>2
  <1>5. ASSUME NEW p \in Procs, StartRequest(p) PROVE Balance'
    <2>1. OnlyMoves(p)
      BY <1>5, StartRequestMoves
    <2>2. pc[p] = "idle" /\ UNCHANGED <<returned, refunds>>
      BY <1>5 DEF StartRequest, ConfirmPayment, ConfirmGroupPayment,
                  RefundPayment, AdminRefund, CancelBooking, Request, Free,
                  stripeVars, ledgerVars
    <2>3. QED BY <1>3, <2>1, <2>2
  <1>6. ASSUME NEW p \in Procs, Continue(p) PROVE Balance'
    <2>1. OnlyMoves(p)
      <3>1. pc[p] \in SucceededPCs => arg[p].intent \in Intents
        BY DEF HookWork
      <3>2. QED BY <1>6, <3>1, ContinueType
    <2>2. CASE RefundAtStripe(p)
      BY <1>1, <2>1, <2>2, RefundAtStripeBalanced
    <2>3. CASE RecordRefund(p)
      BY <1>1, <2>1, <2>3, RecordRefundBalanced
    <2>4. ASSUME \/ \E b \in Bookings : RecordPayment(p, b) \/ CreateJob(p, b)
                 \/ MarkPaid(p) \/ RecordChargeRefund(p)
                 \/ MarkChargeRefunded(p) \/ MarkRefunded(p) \/ CancelJob(p)
                 \/ MarkCancelled(p) \/ ReadGroup(p) \/ WriteGroup(p)
          PROVE  pc[p] # "refund.record" /\ UNCHANGED <<returned, refunds>>
      BY <2>4 DEF RecordPayment, CreateJob, MarkPaid, RecordChargeRefund,
                  MarkChargeRefunded, MarkRefunded, CancelJob, MarkCancelled,
                  ReadGroup, WriteGroup, stripeVars, ledgerVars
    <2>5. QED BY <1>3, <1>6, <2>1, <2>2, <2>3, <2>4 DEF Continue
  <1>7. ASSUME NEW p \in Procs, AwaitFails(p) PROVE FALSE
    <2>1. errors \in Nat
      BY DEF TypeOK
    <2>2. errors' = errors + 1
      BY <1>7 DEF AwaitFails
    <2>3. QED BY <2>1, <2>2 DEF NoFault
  <1>8. ASSUME Crash PROVE FALSE
    BY <1>8 DEF Crash, NoFault, TypeOK
  <1>9. QED BY <1>2, <1>4, <1>5, <1>6, <1>7, <1>8 DEF Next

\* Without errors and crashes, the money Stripe has returned, of all intents
\* together, is never more than the refunds on record and those that a handler
\* is about to record, whatever payments, refunds, cancellations and events
\* overlap (payments.service.ts:271-287, admin.service.ts:1492-1509,
\* bookings.service.ts:952-969).
THEOREM ReturnedMoneyRecorded == Spec => []ReturnedIsRecorded
  <1> DEFINE Inv == NoFault => Balance
  <1>1. Init => Inv
    <2> SUFFICES ASSUME Init PROVE Balance
      OBVIOUS
    <2>1. TypeOK
      BY InitIInv DEF IInv
    <2>2. SumFunction(returned) = 0
      <3>1. returned \in [Intents -> Nat] /\ IsFiniteSet(Intents)
               /\ \A i \in Intents : returned[i] = 0
        BY <2>1, PaymentsAssumption DEF Init, TypeOK, PaymentsAssumption
      <3>2. SumFunction(returned) = SumFunctionOnSet(returned, Intents)
        BY <3>1 DEF SumFunction
      <3>3. QED BY <3>1, <3>2, SumOfZeros
    <2>3. QED BY <2>1, <2>2, TotalsType DEF Balance
  <1>2. IInv /\ Inv /\ [Next]_vars => Inv'
    <2>1. CASE IInv /\ Inv /\ Next
      BY <2>1, NextBalanced
    <2>2. CASE IInv /\ Inv /\ UNCHANGED vars
      BY <2>2, StayBalanced
         DEF vars, stripeVars, ledgerVars, procVars, countVars, faultVars, NoFault
    <2>3. QED BY <2>1, <2>2
  <1>3. Inv => ReturnedIsRecorded
    BY DEF ReturnedIsRecorded, Balance, InFlight, AmountsOf, ToRecord
  <1> HIDE DEF Inv
  <1>4. QED BY <1>1, <1>2, <1>3, Inductive, PTL DEF Spec
----------------------------------------------------------------------------
(* One handler at a time: a payment is recorded once, and the refund that  *)
(* a cancellation promises was made                                        *)

\* A handler starts while no other runs; no table of the database changes.
Starts(p, step, a) ==
    /\ Idle /\ GotoWith(p, step, a)
    /\ UNCHANGED <<intent, legs, returned, status, due, payments, refunds,
                   faultVars>>

\* Nothing happens that the ledgers of payments and refunds depend on.
Rests ==
    /\ intent' \in [Intents -> {"none", "open", "succeeded"}]
    /\ \A i \in Intents : intent'[i] = "none" => intent[i] = "none"
    /\ UNCHANGED <<legs, returned, status, due, payments, refunds, procVars,
                   faultVars>>

StartsRecording(h) ==
    \E i \in Intents :
        /\ \A b \in Bookings : payments[b][i] = 0
        /\ Starts(h, "hook.pay", [NoArg EXCEPT !.intent = i, !.todo = legs[i]])

StartsRefunding(p) ==
    \E b \in Bookings, n \in Nat, by \in {"refundPayment", "adminRefund"} :
        LET a == [NoArg EXCEPT !.by = by, !.amount = n, !.leg = b]
        IN \/ \E i \in Intents :
                /\ payments[b][i] > 0
                /\ Starts(p, "refund.stripe", [a EXCEPT !.intent = i])
           \/ Starts(p, "refund.record", a)

StartsCancelling(p) ==
    \E b \in Bookings, n \in 0 .. Price, has \in BOOLEAN :
        LET a == [NoArg EXCEPT !.by = "cancelBooking", !.amount = n,
                               !.job = has, !.leg = b]
        IN /\ status[b] \in {"PENDING_PAYMENT", "PAID"}
           /\ \/ \E i \in Intents :
                   /\ payments[b][i] > 0
                   /\ Starts(p, IF n > 0 THEN "refund.stripe" ELSE AfterRefund(has),
                             [a EXCEPT !.intent = i])
              \/ /\ \A i \in Intents : payments[b][i] = 0
                 /\ Starts(p, AfterRefund(has), a)

Throws(p) ==
    /\ pc[p] # "idle"
    /\ errors' = errors + 1
    /\ Return(p) \/ RefundStepThrows(p)
    /\ UNCHANGED <<intent, legs, returned, status, due, payments, refunds,
                   crashes>>

Dies ==
    /\ crashes' = crashes + 1
    /\ pc' = [p \in Procs |-> "idle"] /\ arg' = [p \in Procs |-> NoArg]
    /\ UNCHANGED <<intent, legs, returned, status, due, payments, refunds,
                   errors>>

\* A step of Payments when handlers do not overlap, payments are confirmed by
\* the webhook alone and an intent pays one of the given sets of bookings,
\* whatever the bounds: what it does to the ledgers, the statuses and the
\* handlers.
SoloStep(payable) ==
    \/ \E i \in Intents, bs \in payable : CreateIntent(i, bs)
    \/ Rests
    \/ \E p \in Procs :
         \/ StartsRecording(p)
         \/ \E a \in Arg : Starts(p, "refunded.record", a)
         \/ StartsRefunding(p)
         \/ StartsCancelling(p)
         \/ Continue(p)
         \/ Throws(p)
    \/ Dies

\* Types of the tables, and of the handlers.
TableTypes ==
    /\ intent \in [Intents -> {"none", "open", "succeeded"}]
    /\ legs \in [Intents -> SUBSET Bookings]
    /\ returned \in [Intents -> Nat]
    /\ status \in [Bookings -> Status]
    /\ due \in [Bookings -> Nat]
    /\ payments \in [Bookings -> [Intents -> Nat]]
    /\ refunds \in [Bookings -> Nat]
    /\ errors \in Nat /\ crashes \in Nat

SoloTypes == TableTypes /\ pc \in [Procs -> PC] /\ arg \in [Procs -> Arg]

\* At most one handler is under way.
Alone == \A p, q \in Procs : pc[p] # "idle" /\ pc[q] # "idle" => p = q

\* The bookings a webhook call has still to record the payment for: no row is
\* there yet.  Nothing else records one.
RecordPCs == {"hook.pay", "hook.paid", "confirm.paid"}
ToPay(p) == IF pc[p] = "hook.paid" THEN arg[p].todo \ {arg[p].leg} ELSE arg[p].todo
Unrecorded ==
    \A p \in Procs : pc[p] \in RecordPCs =>
        /\ pc[p] # "confirm.paid"
        /\ arg[p].intent \in Intents
        /\ \A b \in ToPay(p) : payments[b][arg[p].intent] = 0

SoloInv == SoloTypes /\ Alone /\ PaidOnce /\ Unrecorded

\* No booking was paid by two intents.
Sole ==
    \A b \in Bookings, i, j \in Intents :
        payments[b][i] > 0 /\ payments[b][j] > 0 => i = j

\* An intent pays for one booking, the one on its rows and the one that a
\* webhook call works on.
OneLeg ==
    /\ \A i \in Intents :
         /\ \A b, c \in legs[i] : b = c
         /\ intent[i] = "none" => legs[i] = {}
         /\ \A b \in Bookings : payments[b][i] > 0 => b \in legs[i]
    /\ \A p \in Procs : pc[p] \in RecordPCs => arg[p].todo \subseteq legs[arg[p].intent]

\* Of a payment that no row records nothing was returned.
NothingReturned ==
    \A i \in Intents :
        (\A b \in Bookings : payments[b][i] = 0) => returned[i] = 0

\* What a handler under way knows of the booking and the intent it holds.
RecordWork(p) ==
    pc[p] = "hook.paid" =>
        /\ arg[p].leg \in Bookings
        /\ payments[arg[p].leg][arg[p].intent] > 0
        /\ returned[arg[p].intent] = 0

RefundWork(p) ==
    /\ pc[p] \in {"refund.stripe", "refund.record", "refund.mark",
                  "cancel.job", "cancel.mark"} => arg[p].leg \in Bookings
    /\ pc[p] = "refund.stripe" =>
         /\ arg[p].intent \in Intents
         /\ payments[arg[p].leg][arg[p].intent] > 0
         /\ arg[p].by = "cancelBooking" =>
              arg[p].amount <= Price /\ returned[arg[p].intent] = 0
    /\ pc[p] \in {"cancel.job", "cancel.mark"} =>
         \A i \in Intents : payments[arg[p].leg][i] > 0 =>
             refunds[arg[p].leg] >= arg[p].amount

\* The handler has sent the refund of b and not yet written the status.
Refunding(p, b) ==
    /\ pc[p] \in {"refund.record", "refund.mark", "cancel.job", "cancel.mark"}
    /\ arg[p].leg = b

\* Of the payment of a booking that is neither cancelled nor refunded nothing
\* was returned ...
PaidIsWhole ==
    \A b \in Bookings, i \in Intents :
        /\ payments[b][i] > 0
        /\ status[b] \in {"PENDING_PAYMENT", "PAID"}
        /\ \A p \in Procs : ~Refunding(p, b)
        => returned[i] = 0

\* ... and of one that is cancelled, what was promised.
CancelledIsRefunded ==
    \A b \in Bookings, i \in Intents :
        /\ payments[b][i] > 0
        /\ status[b] = "CANCELLED"
        /\ \A p \in Procs : ~(pc[p] = "hook.paid" /\ arg[p].leg = b)
        => refunds[b] >= due[b]

Sound ==
    /\ NothingReturned
    /\ \A p \in Procs : RecordWork(p) /\ RefundWork(p)
    /\ PaidIsWhole
    /\ CancelledIsRefunded

RefundInv == OneLeg /\ (NoFault /\ Sole => Sound)

----------------------------------------------------------------------------
(* Types along the steps of one handler at a time *)

LEMMA SoloGotoWith ==
    ASSUME SoloTypes, NEW p \in Procs, NEW step \in PC, NEW a \in Arg,
           GotoWith(p, step, a)
    PROVE  OnlyMoves(p) /\ pc'[p] = step /\ arg'[p] = a
  <1>1. pc \in [Procs -> PC] /\ arg \in [Procs -> Arg]
    BY DEF SoloTypes, TableTypes
  <1>2. pc' = [pc EXCEPT ![p] = step] /\ arg' = [arg EXCEPT ![p] = a]
    BY DEF GotoWith
  <1>3. QED BY <1>1, <1>2 DEF OnlyMoves

LEMMA SoloGoto ==
    ASSUME SoloTypes, NEW p \in Procs, NEW step \in PC, Goto(p, step)
    PROVE  OnlyMoves(p) /\ pc'[p] = step /\ arg' = arg
  <1>1. pc \in [Procs -> PC] /\ arg \in [Procs -> Arg]
    BY DEF SoloTypes, TableTypes
  <1>2. pc' = [pc EXCEPT ![p] = step] /\ arg' = arg
    BY DEF Goto
  <1>3. QED BY <1>1, <1>2 DEF OnlyMoves

LEMMA SoloReturn ==
    ASSUME SoloTypes, NEW p \in Procs, Return(p)
    PROVE  OnlyMoves(p) /\ pc'[p] = "idle" /\ arg'[p] = NoArg
  <1>1. "idle" \in PC
    BY DEF PC
  <1>2. QED BY <1>1, NoArgType, SoloGotoWith DEF Return

LEMMA SoloThrows ==
    ASSUME SoloTypes, NEW p \in Procs, RefundStepThrows(p)
    PROVE  /\ OnlyMoves(p)
           /\ \/ pc'[p] = "idle"
              \/ arg[p].by = "cancelBooking" /\ arg' = arg
                    /\ pc'[p] = AfterRefund(arg[p].job)
  BY SoloGoto, SoloReturn, AfterRefundType DEF RefundStepThrows

LEMMA SoloThenGroup ==
    ASSUME SoloTypes, NEW p \in Procs, ThenGroupStatus(p)
    PROVE  /\ OnlyMoves(p)
           /\ \/ pc'[p] = "idle"
              \/ pc'[p] = "group.read" /\ arg' = arg
  <1>1. "group.read" \in PC
    BY DEF PC
  <1>2. QED BY <1>1, SoloGoto, SoloReturn DEF ThenGroupStatus

\* A handler alone stays alone when it, or one that starts while nothing
\* runs, takes a step.
Only(p) == \A q \in Procs : q # p => pc[q] = "idle"

LEMMA StillAlone ==
    ASSUME NEW p \in Procs, Only(p), OnlyMoves(p)
    PROVE  Only(p)' /\ Alone'
  BY DEF Only, OnlyMoves, Alone

LEMMA SoloParts ==
    ASSUME NEW p \in Procs, TableTypes', OnlyMoves(p)
    PROVE  SoloTypes'
  BY DEF TableTypes, OnlyMoves, SoloTypes

LEMMA SoloContinueTypes ==
    ASSUME SoloInv, NEW p \in Procs, Continue(p)
    PROVE  TableTypes' /\ OnlyMoves(p)
  <1> USE DEF stripeVars, bookingVars, ledgerVars, countVars, faultVars
  <1>a. SoloTypes /\ TableTypes
    BY DEF SoloInv, SoloTypes, TableTypes
  <1>b. arg[p].amount \in Nat /\ arg[p].todo \subseteq Bookings
           /\ arg[p].group \in GroupStatus /\ arg[p] \in Arg
    BY <1>a DEF SoloTypes, TableTypes, Arg
  <1>c. \A s \in SUBSET Bookings :
            /\ [arg[p] EXCEPT !.todo = s, !.leg = None] \in Arg
            /\ [arg[p] EXCEPT !.todo = s] \in Arg
    BY <1>b DEF Arg
  <1>d. ASSUME NEW b, NEW s \in Status, SetStatus(b, s)
        PROVE  status' \in [Bookings -> Status]
    BY <1>a, <1>d DEF TableTypes, SetStatus
  <1>1. ASSUME NEW b \in Bookings, RecordPayment(p, b)
        PROVE  TableTypes' /\ OnlyMoves(p)
    <2>1. "hook.paid" \in PC /\ [arg[p] EXCEPT !.leg = b] \in Arg
      BY <1>b DEF PC, SucceededPCs, Arg
    <2>2. OnlyMoves(p)
      BY <1>1, <1>a, <2>1, SoloGotoWith DEF RecordPayment
    <2>3. payments' \in [Bookings -> [Intents -> Nat]]
      <3>1. payments \in [Bookings -> [Intents -> Nat]]
        BY <1>a DEF TableTypes
      <3>2. payments' = [payments EXCEPT ![b][arg[p].intent] = @ + 1]
        BY <1>1 DEF RecordPayment, AddPayment
      <3>3. QED BY <3>1, <3>2, AddType2
    <2>4. UNCHANGED <<intent, legs, returned, status, due, refunds, errors,
                      crashes>>
      BY <1>1 DEF RecordPayment
    <2>5. QED BY <1>a, <2>2, <2>3, <2>4 DEF TableTypes
  <1>2. ASSUME NEW b \in Bookings, CreateJob(p, b)
        PROVE  TableTypes' /\ OnlyMoves(p)
    <2>1. "hook.job" \in PC /\ [arg[p] EXCEPT !.todo = arg[p].todo \ {b}] \in Arg
      BY <1>b, <1>c DEF PC, SucceededPCs
    <2>2. OnlyMoves(p)
      BY <1>2, <1>a, <2>1, SoloGotoWith, SoloReturn DEF CreateJob
    <2>3. QED BY <1>2, <1>a, <2>2 DEF CreateJob, TableTypes
  <1>3. CASE MarkPaid(p)
    <2>1. "hook.pay" \in PC /\ "hook.job" \in PC /\ "PAID" \in Status
      BY DEF PC, SucceededPCs, Status
    <2> DEFINE rest == arg[p].todo \ {arg[p].leg}
               next == [arg[p] EXCEPT !.todo = rest, !.leg = None]
               jobs == [arg[p] EXCEPT !.todo = legs[arg[p].intent], !.leg = None]
    <2>2. rest \in SUBSET Bookings
      BY <1>b
    <2>3. next \in Arg
      BY <1>c, <2>2
    <2>4. Return(p) => OnlyMoves(p)
      BY <1>a, SoloReturn
    <2>5. ASSUME GotoWith(p, "hook.pay", next) PROVE OnlyMoves(p)
      BY <1>a, <2>1, <2>3, <2>5, SoloGotoWith
    <2>6. ASSUME pc[p] = "hook.paid", GotoWith(p, "hook.job", jobs)
          PROVE  OnlyMoves(p)
      <3>1. legs[arg[p].intent] \in SUBSET Bookings
        BY <1>a, <2>6 DEF SoloInv, Unrecorded, RecordPCs, TableTypes
      <3>2. jobs \in Arg
        BY <1>c, <3>1
      <3>3. QED BY <1>a, <2>1, <2>6, <3>2, SoloGotoWith
    <2>7. OnlyMoves(p)
      BY <1>3, <2>4, <2>5, <2>6 DEF MarkPaid
    <2>8. status' \in [Bookings -> Status]
      BY <1>3, <1>d, <2>1 DEF MarkPaid
    <2>9. QED BY <1>3, <1>a, <2>7, <2>8 DEF MarkPaid, TableTypes
  <1>4. CASE RecordChargeRefund(p)
    <2>1. "refunded.mark" \in PC
      BY DEF PC, RefundedPCs
    <2>2. OnlyMoves(p)
      BY <1>4, <1>a, <2>1, SoloGoto DEF RecordChargeRefund
    <2>3. QED BY <1>4, <1>a, <2>2 DEF RecordChargeRefund, TableTypes
  <1>5. CASE MarkChargeRefunded(p)
    <2>1. OnlyMoves(p)
      BY <1>5, <1>a, SoloReturn DEF MarkChargeRefunded
    <2>2. status' \in [Bookings -> Status]
      BY <1>5, <1>d DEF MarkChargeRefunded, Status
    <2>3. QED BY <1>5, <1>a, <2>1, <2>2 DEF MarkChargeRefunded, TableTypes
  <1>6. CASE RefundAtStripe(p)
    <2> DEFINE i == arg[p].intent
               total == returned[i] + arg[p].amount
    <2>1. CASE RefundStepThrows(p) /\ UNCHANGED <<returned, events>>
      <3>1. OnlyMoves(p)
        BY <1>a, <2>1, SoloThrows
      <3>2. QED BY <1>6, <1>a, <2>1, <3>1 DEF RefundAtStripe, TableTypes
    <2>2. CASE /\ returned' = [returned EXCEPT ![i] = total]
               /\ Goto(p, "refund.record")
      <3>1. OnlyMoves(p)
        BY <1>a, <2>2, SoloGoto DEF PC
      <3>2. returned' \in [Intents -> Nat]
        <4>1. returned \in [Intents -> Nat]
          BY <1>a DEF TableTypes
        <4>2. CASE i \in Intents
          <5>1. total \in Nat
            BY <1>b, <4>1, <4>2
          <5>2. QED BY <2>2, <4>1, <5>1
        <4>3. CASE i \notin Intents
          BY <2>2, <4>1, <4>3
        <4>4. QED BY <4>2, <4>3
      <3>3. QED BY <1>6, <1>a, <3>1, <3>2 DEF RefundAtStripe, TableTypes
    <2>3. QED BY <1>6, <2>1, <2>2 DEF RefundAtStripe
  <1>7. CASE RecordRefund(p)
    <2> DEFINE next == IF arg[p].by = "cancelBooking"
                       THEN AfterRefund(arg[p].job) ELSE "refund.mark"
    <2>1. next \in PC
      BY AfterRefundType DEF PC
    <2>2. OnlyMoves(p)
      BY <1>7, <1>a, <2>1, SoloGoto DEF RecordRefund
    <2>3. refunds' \in [Bookings -> Nat]
      BY <1>7, <1>a, <1>b, AddType DEF RecordRefund, TableTypes
    <2>4. QED BY <1>7, <1>a, <2>2, <2>3 DEF RecordRefund, TableTypes
  <1>8. CASE MarkRefunded(p)
    <2>1. OnlyMoves(p)
      BY <1>8, <1>a, SoloThenGroup DEF MarkRefunded
    <2>2. status' \in [Bookings -> Status]
      BY <1>8, <1>d DEF MarkRefunded, Status
    <2>3. QED BY <1>8, <1>a, <2>1, <2>2 DEF MarkRefunded, TableTypes
  <1>9. CASE CancelJob(p)
    <2>1. "cancel.mark" \in PC
      BY DEF PC
    <2>2. OnlyMoves(p)
      BY <1>9, <1>a, <2>1, SoloGoto DEF CancelJob
    <2>3. QED BY <1>9, <1>a, <2>2 DEF CancelJob, TableTypes
  <1>10. CASE MarkCancelled(p)
    <2>1. OnlyMoves(p)
      BY <1>10, <1>a, SoloThenGroup DEF MarkCancelled
    <2>2. status' \in [Bookings -> Status]
      BY <1>10, <1>d DEF MarkCancelled, Status
    <2>3. due' \in [Bookings -> Nat]
      BY <1>10, <1>a, <1>b DEF MarkCancelled, TableTypes
    <2>4. QED BY <1>10, <1>a, <2>1, <2>2, <2>3 DEF MarkCancelled, TableTypes
  <1>11. CASE ReadGroup(p)
    <2>1. "group.write" \in PC
      BY DEF PC
    <2>2. \A g \in GroupStatus : [arg[p] EXCEPT !.group = g] \in Arg
      BY <1>b DEF Arg
    <2>3. PICK g \in GroupStatus :
                GotoWith(p, "group.write", [arg[p] EXCEPT !.group = g])
      BY <1>11 DEF ReadGroup, GroupStatus
    <2>4. OnlyMoves(p)
      BY <1>a, <2>1, <2>2, <2>3, SoloGotoWith
    <2>5. QED BY <1>11, <1>a, <2>4 DEF ReadGroup, TableTypes
  <1>12. CASE WriteGroup(p)
    <2>1. OnlyMoves(p)
      BY <1>12, <1>a, SoloReturn DEF WriteGroup
    <2>2. QED BY <1>12, <1>a, <2>1 DEF WriteGroup, TableTypes
  <1>13. QED BY <1>1, <1>2, <1>3, <1>4, <1>5, <1>6, <1>7, <1>8, <1>9, <1>10,
                <1>11, <1>12 DEF Continue

\* A handler starts.
LEMMA StartsTypes ==
    ASSUME SoloTypes, NEW p \in Procs, NEW step \in PC, NEW a \in Arg,
           Starts(p, step, a)
    PROVE  /\ SoloTypes' /\ Alone' /\ OnlyMoves(p)
           /\ Only(p) /\ Only(p)'
           /\ pc'[p] = step /\ arg'[p] = a
  <1>1. OnlyMoves(p) /\ pc'[p] = step /\ arg'[p] = a
    BY SoloGotoWith DEF Starts
  <1>2. Only(p)
    BY DEF Starts, Idle, Only
  <1>3. TableTypes'
    BY DEF Starts, SoloTypes, TableTypes, faultVars
  <1>4. QED BY <1>1, <1>2, <1>3, StillAlone, SoloParts

\* The arguments handlers start with.
LEMMA StartArgs ==
    ASSUME NEW b \in Bookings, NEW i \in Intents, NEW n \in Nat,
           NEW by \in By, NEW has \in BOOLEAN, NEW s \in SUBSET Bookings
    PROVE  /\ [NoArg EXCEPT !.intent = i, !.todo = s] \in Arg
           /\ [NoArg EXCEPT !.by = by, !.amount = n, !.leg = b] \in Arg
           /\ [[NoArg EXCEPT !.by = by, !.amount = n, !.leg = b]
                 EXCEPT !.intent = i] \in Arg
           /\ [NoArg EXCEPT !.by = by, !.amount = n, !.job = has, !.leg = b] \in Arg
           /\ [[NoArg EXCEPT !.by = by, !.amount = n, !.job = has, !.leg = b]
                 EXCEPT !.intent = i] \in Arg
  BY DEF NoArg, Arg, GroupStatus

\* A refund or a cancellation that starts holds its booking, its amount and,
\* if it is sent to Stripe, a payment of the booking.
LEMMA RefundStarts ==
    ASSUME SoloTypes, NEW p \in Procs,
           StartsRefunding(p) \/ StartsCancelling(p)
    PROVE  \E step \in {"refund.stripe", "refund.record", "cancel.job", "cancel.mark"},
              a \in Arg :
                /\ Starts(p, step, a) /\ a.leg \in Bookings
                /\ step = "refund.stripe" =>
                     a.intent \in Intents /\ payments[a.leg][a.intent] > 0
                /\ a.by = "cancelBooking" =>
                     /\ a.amount \in 0 .. Price
                     /\ status[a.leg] \in {"PENDING_PAYMENT", "PAID"}
                     /\ step # "refund.record"
                /\ step \in {"cancel.job", "cancel.mark"} =>
                     \/ a.amount = 0
                     \/ \A i \in Intents : payments[a.leg][i] = 0
  <1>a. /\ "refund.stripe" \in PC /\ "refund.record" \in PC
        /\ \A has : AfterRefund(has) \in {"cancel.job", "cancel.mark"}
    BY DEF PC, AfterRefund
  <1>b. Price \in Nat
    BY PaymentsAssumption DEF PaymentsAssumption
  <1>1. CASE StartsRefunding(p)
    <2>1. PICK b \in Bookings, n \in Nat, by \in {"refundPayment", "adminRefund"} :
              \/ \E i \in Intents :
                   /\ payments[b][i] > 0
                   /\ Starts(p, "refund.stripe",
                        [[NoArg EXCEPT !.by = by, !.amount = n, !.leg = b]
                           EXCEPT !.intent = i])
              \/ Starts(p, "refund.record",
                        [NoArg EXCEPT !.by = by, !.amount = n, !.leg = b])
      BY <1>1 DEF StartsRefunding
    <2> DEFINE a == [NoArg EXCEPT !.by = by, !.amount = n, !.leg = b]
    <2>2. by \in By /\ by # "cancelBooking"
      BY DEF By
    <2>3. CASE \E i \in Intents :
                 /\ payments[b][i] > 0
                 /\ Starts(p, "refund.stripe", [a EXCEPT !.intent = i])
      <3>1. PICK i \in Intents :
                 /\ payments[b][i] > 0
                 /\ Starts(p, "refund.stripe", [a EXCEPT !.intent = i])
        BY <2>3
      <3>2. [a EXCEPT !.intent = i] \in Arg
        BY <2>2, StartArgs
      <3>3. /\ [a EXCEPT !.intent = i].leg = b /\ [a EXCEPT !.intent = i].intent = i
            /\ [a EXCEPT !.intent = i].by = by
        BY DEF NoArg
      <3>4. QED BY <3>1, <3>2, <3>3, <2>2
    <2>4. CASE Starts(p, "refund.record", a)
      <3>1. a \in Arg
        BY <2>2 DEF NoArg, Arg, GroupStatus
      <3>2. a.leg = b /\ a.by = by
        BY DEF NoArg
      <3>3. QED BY <2>2, <2>4, <3>1, <3>2
    <2>5. QED BY <2>1, <2>3, <2>4
  <1>2. CASE StartsCancelling(p)
    <2>1. PICK b \in Bookings, n \in 0 .. Price, has \in BOOLEAN :
              LET a == [NoArg EXCEPT !.by = "cancelBooking", !.amount = n,
                                     !.job = has, !.leg = b]
              IN /\ status[b] \in {"PENDING_PAYMENT", "PAID"}
                 /\ \/ \E i \in Intents :
                         /\ payments[b][i] > 0
                         /\ Starts(p, IF n > 0 THEN "refund.stripe"
                                      ELSE AfterRefund(has),
                                   [a EXCEPT !.intent = i])
                    \/ /\ \A i \in Intents : payments[b][i] = 0
                       /\ Starts(p, AfterRefund(has), a)
      BY <1>2 DEF StartsCancelling
    <2> DEFINE a == [NoArg EXCEPT !.by = "cancelBooking", !.amount = n,
                                  !.job = has, !.leg = b]
    <2>2. "cancelBooking" \in By /\ n \in Nat
      BY <1>b DEF By
    <2>3. a \in Arg /\ \A i \in Intents : [a EXCEPT !.intent = i] \in Arg
      BY <2>2 DEF NoArg, Arg, GroupStatus
    <2>4. /\ a.leg = b /\ a.by = "cancelBooking" /\ a.amount = n
          /\ \A i \in Intents :
               /\ [a EXCEPT !.intent = i].leg = b
               /\ [a EXCEPT !.intent = i].by = "cancelBooking"
               /\ [a EXCEPT !.intent = i].amount = n
               /\ [a EXCEPT !.intent = i].intent = i
      BY DEF NoArg
    <2> HIDE DEF a
    <2>5. CASE \E i \in Intents :
                 /\ payments[b][i] > 0
                 /\ Starts(p, IF n > 0 THEN "refund.stripe" ELSE AfterRefund(has),
                           [a EXCEPT !.intent = i])
      <3>1. PICK i \in Intents :
                 /\ payments[b][i] > 0
                 /\ Starts(p, IF n > 0 THEN "refund.stripe" ELSE AfterRefund(has),
                           [a EXCEPT !.intent = i])
        BY <2>5
      <3> DEFINE d == [a EXCEPT !.intent = i]
      <3>2. /\ d \in Arg /\ d.leg = b /\ d.by = "cancelBooking" /\ d.amount = n
            /\ d.intent = i
        BY <2>3, <2>4
      <3> HIDE DEF d
      <3>3. status[b] \in {"PENDING_PAYMENT", "PAID"}
        BY <2>1
      <3>4. CASE n > 0
        <4>1. Starts(p, "refund.stripe", d)
          BY <3>1, <3>4 DEF d
        <4>2. QED BY <3>1, <3>2, <3>3, <4>1
      <3>5. CASE ~(n > 0)
        <4>1. Starts(p, AfterRefund(has), d) /\ n = 0
          BY <2>2, <3>1, <3>5 DEF d
        <4>2. QED BY <1>a, <3>2, <3>3, <4>1
      <3>6. QED BY <3>4, <3>5
    <2>6. CASE /\ \A i \in Intents : payments[b][i] = 0
               /\ Starts(p, AfterRefund(has), a)
      <3>1. status[b] \in {"PENDING_PAYMENT", "PAID"}
        BY <2>1
      <3> DEFINE step == AfterRefund(has)
      <3>2. step \in {"cancel.job", "cancel.mark"} /\ Starts(p, step, a)
        BY <1>a, <2>6
      <3> HIDE DEF step
      <3>3. payments[a.leg] = payments[b] /\ status[a.leg] = status[b]
        BY <2>4
      <3>4. QED BY <2>3, <2>4, <2>6, <3>1, <3>2, <3>3
    <2>7. QED BY <2>1, <2>5, <2>6 DEF a
  <1>3. QED BY <1>1, <1>2

\* A handler that throws returns, or goes on without the refund.
LEMMA ThrowsTypes ==
    ASSUME SoloTypes, Alone, NEW p \in Procs, Throws(p)
    PROVE  /\ SoloTypes' /\ Alone' /\ OnlyMoves(p) /\ Only(p)'
           /\ pc'[p] \in {"idle", "cancel.job", "cancel.mark"}
           /\ errors' # 0
  <1>1. OnlyMoves(p) /\ pc'[p] \in {"idle", "cancel.job", "cancel.mark"}
    BY SoloReturn, SoloThrows DEF Throws, AfterRefund
  <1>2. Only(p)
    BY DEF Throws, Alone, Only
  <1>3. TableTypes' /\ errors' # 0
    BY DEF Throws, SoloTypes, TableTypes
  <1>4. QED BY <1>1, <1>2, <1>3, StillAlone, SoloParts

LEMMA DiesTypes ==
    ASSUME SoloTypes, Dies
    PROVE  /\ SoloTypes' /\ Alone' /\ crashes' # 0
           /\ \A p \in Procs : pc'[p] = "idle"
  <1>1. NoArg \in Arg /\ "idle" \in PC
    BY NoArgType DEF PC
  <1>2. \A p \in Procs : pc'[p] = "idle"
    BY DEF Dies
  <1>3. pc' \in [Procs -> PC] /\ arg' \in [Procs -> Arg]
    BY <1>1 DEF Dies
  <1>4. crashes' # 0 /\ crashes' \in Nat
    BY DEF Dies, SoloTypes, TableTypes
  <1>5. SoloTypes'
    BY <1>3, <1>4 DEF Dies, SoloTypes, TableTypes
  <1>6. QED BY <1>2, <1>4, <1>5 DEF Alone

----------------------------------------------------------------------------
(* A payment is recorded once *)

\* A handler that is not recording leaves no booking to record.
LEMMA NoneToRecord ==
    ASSUME NEW p \in Procs, Only(p)', pc'[p] \notin RecordPCs
    PROVE  Unrecorded'
  BY DEF Only, Unrecorded, RecordPCs

LEMMA SamePaidOnce ==
    ASSUME PaidOnce, payments' = payments
    PROVE  PaidOnce'
  BY DEF PaidOnce

LEMMA ContinueOnce ==
    ASSUME SoloInv, NEW p \in Procs, Continue(p)
    PROVE  SoloInv'
  <1> USE DEF RecordPCs
  <1>a. SoloTypes /\ Alone /\ PaidOnce /\ Unrecorded
    BY DEF SoloInv
  <1>b. TableTypes' /\ OnlyMoves(p) /\ SoloTypes'
    BY SoloContinueTypes, SoloParts
  <1>c. pc[p] # "idle"
    BY DEF Continue, RecordPayment, CreateJob, MarkPaid, RecordChargeRefund,
           MarkChargeRefunded, RefundAtStripe, RecordRefund, MarkRefunded,
           CancelJob, MarkCancelled, ReadGroup, WriteGroup
  <1>d. Only(p)
    BY <1>a, <1>c DEF Alone, Only
  <1>e. Alone' /\ Only(p)'
    BY <1>b, <1>d, StillAlone
  <1>f. pc \in [Procs -> PC] /\ arg \in [Procs -> Arg]
    BY <1>a DEF SoloTypes, TableTypes
  <1>g. ASSUME payments' = payments, pc'[p] \notin RecordPCs
        PROVE  SoloInv'
    BY <1>a, <1>b, <1>e, <1>g, NoneToRecord, SamePaidOnce DEF SoloInv
  <1>1. ASSUME NEW b \in Bookings, RecordPayment(p, b)
        PROVE  SoloInv'
    <2> DEFINE i == arg[p].intent
    <2>1. /\ i \in Intents /\ b \in arg[p].todo
          /\ \A c \in arg[p].todo : payments[c][i] = 0
      BY <1>1, <1>a DEF RecordPayment, Unrecorded, ToPay
    <2>2. payments' = [payments EXCEPT ![b][i] = @ + 1]
      BY <1>1 DEF RecordPayment, AddPayment
    <2>3. payments \in [Bookings -> [Intents -> Nat]]
      BY <1>a DEF SoloTypes, TableTypes
    <2>4. pc'[p] = "hook.paid" /\ arg'[p] = [arg[p] EXCEPT !.leg = b]
      BY <1>1, <1>f DEF RecordPayment, GotoWith
    <2>5. /\ arg'[p].intent = i /\ arg'[p].todo = arg[p].todo
          /\ arg'[p].leg = b /\ arg[p].todo \subseteq Bookings
      BY <1>f, <2>4 DEF Arg
    <2>6. /\ payments'[b][i] = 1
          /\ \A c \in Bookings, j \in Intents :
               c # b \/ j # i => payments'[c][j] = payments[c][j]
      BY <2>1, <2>2, <2>3
    <2> HIDE DEF i
    <2>7. PaidOnce'
      BY <1>a, <2>6 DEF PaidOnce
    <2>8. \A c \in arg[p].todo \ {b} : payments'[c][i] = 0
      BY <2>1, <2>5, <2>6
    <2>9. Unrecorded'
      BY <1>e, <2>1, <2>4, <2>5, <2>8 DEF Unrecorded, ToPay, Only
    <2>10. QED BY <1>b, <1>e, <2>7, <2>9 DEF SoloInv
  <1>2. ASSUME NEW b \in Bookings, CreateJob(p, b)
        PROVE  SoloInv'
    <2>1. payments' = payments /\ pc'[p] \notin RecordPCs
      BY <1>2, <1>f DEF CreateJob, GotoWith, Return, ledgerVars
    <2>2. QED BY <1>g, <2>1
  <1>3. CASE MarkPaid(p)
    <2> DEFINE i == arg[p].intent
               rest == arg[p].todo \ {arg[p].leg}
    <2>1. payments' = payments
      BY <1>3 DEF MarkPaid, ledgerVars
    <2>2. CASE pc'[p] \notin RecordPCs
      BY <1>g, <2>1, <2>2
    <2>3. CASE pc'[p] \in RecordPCs
      <3>1. /\ pc[p] = "hook.paid" /\ pc'[p] = "hook.pay"
            /\ arg'[p] = [arg[p] EXCEPT !.todo = rest, !.leg = None]
        BY <1>3, <1>f, <2>3 DEF MarkPaid, GotoWith, Return
      <3>2. arg'[p].intent = i /\ arg'[p].todo = rest
        BY <1>f, <3>1 DEF Arg
      <3>3. i \in Intents /\ \A c \in rest : payments[c][i] = 0
        BY <1>a, <3>1 DEF Unrecorded, ToPay
      <3> HIDE DEF i, rest
      <3>4. Unrecorded'
        BY <1>e, <2>1, <3>1, <3>2, <3>3 DEF Unrecorded, ToPay, Only
      <3>5. QED BY <1>a, <1>b, <1>e, <2>1, <3>4, SamePaidOnce DEF SoloInv
    <2>4. QED BY <2>2, <2>3
  <1>4. CASE RecordChargeRefund(p) \/ MarkChargeRefunded(p)
    <2>1. payments' = payments /\ pc'[p] \notin RecordPCs
      BY <1>4, <1>f DEF RecordChargeRefund, MarkChargeRefunded, Goto, GotoWith,
                        Return, ledgerVars
    <2>2. QED BY <1>g, <2>1
  <1>5. CASE RefundAtStripe(p)
    <2>1. payments' = payments /\ pc'[p] \notin RecordPCs
      BY <1>5, <1>f DEF RefundAtStripe, RefundStepThrows, AfterRefund, Goto,
                        GotoWith, Return, ledgerVars
    <2>2. QED BY <1>g, <2>1
  <1>6. CASE RecordRefund(p)
    <2>1. payments' = payments /\ pc'[p] \notin RecordPCs
      BY <1>6, <1>f DEF RecordRefund, AfterRefund, Goto
    <2>2. QED BY <1>g, <2>1
  <1>7. CASE MarkRefunded(p) \/ MarkCancelled(p)
    <2>1. payments' = payments /\ pc'[p] \notin RecordPCs
      BY <1>7, <1>f DEF MarkRefunded, MarkCancelled, ThenGroupStatus, Goto,
                        GotoWith, Return, ledgerVars
    <2>2. QED BY <1>g, <2>1
  <1>8. CASE CancelJob(p) \/ ReadGroup(p) \/ WriteGroup(p)
    <2>1. payments' = payments /\ pc'[p] \notin RecordPCs
      BY <1>8, <1>f DEF CancelJob, ReadGroup, WriteGroup, Goto, GotoWith,
                        Return, ledgerVars
    <2>2. QED BY <1>g, <2>1
  <1>9. QED BY <1>1, <1>2, <1>3, <1>4, <1>5, <1>6, <1>7, <1>8 DEF Continue

\* The invariant of PaidOnce: while no other handler runs, the bookings that
\* a webhook call has still to reach have no row of the intent, since it
\* looked for any row of the intent before the first.
LEMMA StepOnce ==
    ASSUME SoloInv, NEW payable \in SUBSET SUBSET Bookings, SoloStep(payable)
    PROVE  SoloInv'
  <1> USE DEF RecordPCs
  <1>a. SoloTypes /\ Alone /\ PaidOnce /\ Unrecorded
    BY DEF SoloInv
  <1>1. ASSUME NEW i \in Intents, NEW bs \in payable, CreateIntent(i, bs)
        PROVE  SoloInv'
    <2>1. bs \in SUBSET Bookings
      OBVIOUS
    <2>2. legs' \in [Intents -> SUBSET Bookings]
      BY <1>a, <1>1, <2>1 DEF CreateIntent, SoloTypes, TableTypes
    <2>3. /\ UNCHANGED <<returned, status, due, payments, refunds, pc, arg,
                         errors, crashes>>
      BY <1>1 DEF CreateIntent, bookingVars, ledgerVars, procVars, countVars, faultVars
    <2>4. intent' \in [Intents -> {"none", "open", "succeeded"}]
      BY <1>a, <1>1 DEF CreateIntent, SoloTypes, TableTypes
    <2>5. SoloTypes'
      BY <1>a, <2>2, <2>3, <2>4 DEF SoloTypes, TableTypes
    <2>6. Alone' /\ PaidOnce' /\ Unrecorded'
      BY <1>a, <2>3 DEF Alone, PaidOnce, Unrecorded, ToPay
    <2>7. QED BY <2>5, <2>6 DEF SoloInv
  <1>2. CASE Rests
    BY <1>a, <1>2 DEF Rests, procVars, faultVars, SoloInv, SoloTypes, TableTypes, Alone,
                      PaidOnce, Unrecorded, ToPay
  <1>3. ASSUME NEW p \in Procs, StartsRecording(p)
        PROVE  SoloInv'
    <2>1. PICK i \in Intents :
              /\ \A b \in Bookings : payments[b][i] = 0
              /\ Starts(p, "hook.pay", [NoArg EXCEPT !.intent = i, !.todo = legs[i]])
      BY <1>3 DEF StartsRecording
    <2> DEFINE a == [NoArg EXCEPT !.intent = i, !.todo = legs[i]]
    <2>2. legs[i] \in SUBSET Bookings
      BY <1>a DEF SoloTypes, TableTypes
    <2>3. a \in Arg /\ a.intent = i /\ a.todo = legs[i]
      BY <2>2 DEF NoArg, Arg, GroupStatus
    <2>4. "hook.pay" \in PC
      BY DEF PC, SucceededPCs
    <2> HIDE DEF a
    <2>5. Starts(p, "hook.pay", a)
      BY <2>1 DEF a
    <2>6. /\ SoloTypes' /\ Alone' /\ Only(p)'
          /\ pc'[p] = "hook.pay" /\ arg'[p] = a
      BY <1>a, <2>3, <2>4, <2>5, StartsTypes
    <2>7. payments' = payments
      BY <2>5 DEF Starts
    <2>8. Unrecorded'
      BY <2>1, <2>2, <2>3, <2>6, <2>7 DEF Unrecorded, ToPay, Only
    <2>9. QED BY <1>a, <2>6, <2>7, <2>8, SamePaidOnce DEF SoloInv
  <1>4. ASSUME NEW p \in Procs, NEW a \in Arg, Starts(p, "refunded.record", a)
        PROVE  SoloInv'
    <2>1. "refunded.record" \in PC
      BY DEF PC, RefundedPCs
    <2>2. SoloTypes' /\ Alone' /\ Only(p)' /\ pc'[p] = "refunded.record"
      BY <1>a, <1>4, <2>1, StartsTypes
    <2>3. payments' = payments
      BY <1>4 DEF Starts
    <2>4. QED BY <1>a, <2>2, <2>3, NoneToRecord, SamePaidOnce DEF SoloInv
  <1>5. ASSUME NEW p \in Procs, StartsRefunding(p) \/ StartsCancelling(p)
        PROVE  SoloInv'
    <2>1. PICK step \in {"refund.stripe", "refund.record", "cancel.job",
                         "cancel.mark"}, a \in Arg :
              Starts(p, step, a)
      BY <1>a, <1>5, RefundStarts
    <2>2. step \in PC /\ step \notin RecordPCs
      BY DEF PC
    <2>3. SoloTypes' /\ Alone' /\ Only(p)' /\ pc'[p] = step
      BY <1>a, <2>1, <2>2, StartsTypes
    <2>4. payments' = payments
      BY <2>1 DEF Starts
    <2>5. QED BY <1>a, <2>2, <2>3, <2>4, NoneToRecord, SamePaidOnce DEF SoloInv
  <1>6. ASSUME NEW p \in Procs, Throws(p)
        PROVE  SoloInv'
    <2>1. payments' = payments
      BY <1>6 DEF Throws
    <2>2. QED BY <1>a, <1>6, <2>1, ThrowsTypes, NoneToRecord, SamePaidOnce
              DEF SoloInv
  <1>7. CASE Dies
    <2>1. payments' = payments
      BY <1>7 DEF Dies
    <2>2. SoloTypes' /\ Alone' /\ \A p \in Procs : pc'[p] = "idle"
      BY <1>a, <1>7, DiesTypes
    <2>3. Unrecorded'
      BY <2>2 DEF Unrecorded
    <2>4. QED BY <1>a, <2>1, <2>2, <2>3, SamePaidOnce DEF SoloInv
  <1>8. QED BY <1>1, <1>2, <1>3, <1>4, <1>5, <1>6, <1>7, ContinueOnce DEF SoloStep

----------------------------------------------------------------------------
(* The refund of a cancellation was made *)

\* The sets of bookings an intent can pay when legs are paid one by one.
One == {{b} : b \in Bookings}

\* Nothing a leg's intent depends on changes, and no handler records.
LEMMA LegsStay ==
    ASSUME OneLeg, NEW p \in Procs, Only(p)', pc'[p] \notin RecordPCs,
           \A i \in Intents : intent'[i] = "none" => intent[i] = "none",
           legs' = legs, payments' = payments
    PROVE  OneLeg'
  BY DEF OneLeg, Only, RecordPCs

LEMMA ContinueOneLeg ==
    ASSUME SoloInv, OneLeg, NEW p \in Procs, Continue(p)
    PROVE  OneLeg'
  <1> USE DEF RecordPCs
  <1>a. SoloTypes /\ Alone /\ Unrecorded
    BY DEF SoloInv
  <1>b. OnlyMoves(p)
    BY SoloContinueTypes
  <1>c. pc[p] # "idle"
    BY DEF Continue, RecordPayment, CreateJob, MarkPaid, RecordChargeRefund,
           MarkChargeRefunded, RefundAtStripe, RecordRefund, MarkRefunded,
           CancelJob, MarkCancelled, ReadGroup, WriteGroup
  <1>d. Only(p)'
    <2>1. Only(p)
      BY <1>a, <1>c DEF Alone, Only
    <2>2. QED BY <1>b, <2>1, StillAlone
  <1>e. intent' = intent /\ legs' = legs
    BY DEF Continue, RecordPayment, CreateJob, MarkPaid, RecordChargeRefund,
           MarkChargeRefunded, RefundAtStripe, RecordRefund, MarkRefunded,
           CancelJob, MarkCancelled, ReadGroup, WriteGroup, stripeVars
  <1>f. pc \in [Procs -> PC] /\ arg \in [Procs -> Arg]
    BY <1>a DEF SoloTypes, TableTypes
  <1>1. ASSUME NEW b \in Bookings, RecordPayment(p, b)
        PROVE  OneLeg'
    <2> DEFINE i == arg[p].intent
    <2>1. i \in Intents /\ b \in arg[p].todo /\ arg[p].todo \subseteq legs[i]
      BY <1>1, <1>a DEF RecordPayment, Unrecorded, OneLeg
    <2>2. pc'[p] = "hook.paid" /\ arg'[p] = [arg[p] EXCEPT !.leg = b]
      BY <1>1, <1>f DEF RecordPayment, GotoWith
    <2>3. arg'[p].intent = i /\ arg'[p].todo = arg[p].todo
      BY <1>f, <2>2 DEF Arg
    <2>4. payments' = [payments EXCEPT ![b][i] = @ + 1]
      BY <1>1 DEF RecordPayment, AddPayment
    <2>5. \A c \in Bookings, j \in Intents :
              c # b \/ j # i => payments'[c][j] = payments[c][j]
      BY <1>a, <2>4 DEF SoloTypes, TableTypes
    <2> HIDE DEF i
    <2>6. \A c \in Bookings, j \in Intents : payments'[c][j] > 0 => c \in legs[j]
      BY <2>1, <2>5 DEF OneLeg
    <2>7. QED BY <1>d, <1>e, <2>1, <2>2, <2>3, <2>6 DEF OneLeg, Only
  <1>2. CASE MarkPaid(p)
    <2> DEFINE rest == arg[p].todo \ {arg[p].leg}
    <2>1. payments' = payments
      BY <1>2 DEF MarkPaid, ledgerVars
    <2>2. CASE pc'[p] \notin RecordPCs
      BY <1>d, <1>e, <2>1, <2>2, LegsStay
    <2>3. CASE pc'[p] \in RecordPCs
      <3>1. /\ pc[p] = "hook.paid" /\ pc'[p] = "hook.pay"
            /\ arg'[p] = [arg[p] EXCEPT !.todo = rest, !.leg = None]
        BY <1>2, <1>f, <2>3 DEF MarkPaid, GotoWith, Return
      <3>2. arg'[p].intent = arg[p].intent /\ arg'[p].todo = rest
        BY <1>f, <3>1 DEF Arg
      <3>3. rest \subseteq legs[arg[p].intent]
        BY <3>1 DEF OneLeg
      <3> HIDE DEF rest
      <3>4. QED BY <1>d, <1>e, <2>1, <3>1, <3>2, <3>3 DEF OneLeg, Only
    <2>4. QED BY <2>2, <2>3
  <1>3. ASSUME \/ \E b \in Bookings : CreateJob(p, b)
               \/ RecordChargeRefund(p) \/ MarkChargeRefunded(p)
               \/ CancelJob(p) \/ ReadGroup(p) \/ WriteGroup(p)
        PROVE  payments' = payments /\ pc'[p] \notin RecordPCs
    BY <1>3, <1>f DEF CreateJob, RecordChargeRefund, MarkChargeRefunded, CancelJob,
                      ReadGroup, WriteGroup, Goto, GotoWith, Return, ledgerVars
  <1>4. ASSUME \/ RefundAtStripe(p) \/ RecordRefund(p)
               \/ MarkRefunded(p) \/ MarkCancelled(p)
        PROVE  payments' = payments /\ pc'[p] \notin RecordPCs
    BY <1>4, <1>f DEF RefundAtStripe, RecordRefund, MarkRefunded, MarkCancelled,
                      RefundStepThrows, AfterRefund, ThenGroupStatus, Goto,
                      GotoWith, Return, ledgerVars
  <1>5. QED BY <1>1, <1>2, <1>3, <1>4, <1>d, <1>e, LegsStay DEF Continue

LEMMA StepOneLeg ==
    ASSUME SoloInv, OneLeg, SoloStep(One)
    PROVE  OneLeg'
  <1> USE DEF RecordPCs
  <1>a. SoloTypes /\ Alone /\ Unrecorded
    BY DEF SoloInv
  <1>1. ASSUME NEW i \in Intents, NEW bs \in One, CreateIntent(i, bs)
        PROVE  OneLeg'
    <2>1. intent[i] = "none" /\ legs[i] = {}
      BY <1>1 DEF CreateIntent, OneLeg
    <2>2. /\ legs' = [legs EXCEPT ![i] = bs]
          /\ intent' = [intent EXCEPT ![i] = "open"]
          /\ payments' = payments /\ pc' = pc /\ arg' = arg
      BY <1>1 DEF CreateIntent, ledgerVars, procVars
    <2>3. legs'[i] = bs /\ \A j \in Intents : j # i => legs'[j] = legs[j]
      BY <1>a, <2>2 DEF SoloTypes, TableTypes
    <2>4. \A j \in Intents : j # i => intent'[j] = intent[j]
      BY <2>2
    <2>5. \A b, c \in bs : b = c
      BY DEF One
    <2>6. \A j \in Intents : intent'[j] = "none" => legs'[j] = {}
      <3>1. intent'[i] = "open"
        BY <1>a, <2>2 DEF SoloTypes, TableTypes
      <3>2. QED BY <2>3, <2>4, <3>1 DEF OneLeg
    <2>7. \A j \in Intents, b \in Bookings : payments'[b][j] > 0 => b \in legs'[j]
      BY <2>1, <2>2, <2>3 DEF OneLeg
    <2>8. \A p \in Procs : pc[p] \in RecordPCs =>
              arg[p].todo \subseteq legs'[arg[p].intent]
      BY <1>a, <2>1, <2>3 DEF OneLeg, Unrecorded
    <2>9. QED BY <2>2, <2>3, <2>5, <2>6, <2>7, <2>8 DEF OneLeg
  <1>2. CASE Rests
    BY <1>2 DEF Rests, procVars, OneLeg
  <1>3. ASSUME NEW p \in Procs, StartsRecording(p)
        PROVE  OneLeg'
    <2>1. PICK i \in Intents :
              Starts(p, "hook.pay", [NoArg EXCEPT !.intent = i, !.todo = legs[i]])
      BY <1>3 DEF StartsRecording
    <2> DEFINE a == [NoArg EXCEPT !.intent = i, !.todo = legs[i]]
    <2>2. legs[i] \in SUBSET Bookings
      BY <1>a DEF SoloTypes, TableTypes
    <2>3. a \in Arg /\ a.intent = i /\ a.todo = legs[i]
      BY <2>2 DEF NoArg, Arg, GroupStatus
    <2>4. "hook.pay" \in PC
      BY DEF PC, SucceededPCs
    <2> HIDE DEF a
    <2>5. Starts(p, "hook.pay", a)
      BY <2>1 DEF a
    <2>6. Only(p)' /\ pc'[p] = "hook.pay" /\ arg'[p] = a
      BY <1>a, <2>3, <2>4, <2>5, StartsTypes
    <2>7. payments' = payments /\ legs' = legs /\ intent' = intent
      BY <2>5 DEF Starts
    <2>8. QED BY <2>3, <2>6, <2>7 DEF OneLeg, Only
  <1>4. ASSUME NEW p \in Procs, NEW step \in PC, step \notin RecordPCs,
               NEW a \in Arg, Starts(p, step, a)
        PROVE  OneLeg'
    <2>1. Only(p)' /\ pc'[p] = step
      BY <1>a, <1>4, StartsTypes
    <2>2. payments' = payments /\ legs' = legs /\ intent' = intent
      BY <1>4 DEF Starts
    <2>3. QED BY <1>4, <2>1, <2>2, LegsStay
  <1>5. ASSUME NEW p \in Procs, NEW a \in Arg, Starts(p, "refunded.record", a)
        PROVE  OneLeg'
    <2>1. "refunded.record" \in PC
      BY DEF PC, RefundedPCs
    <2>2. QED BY <1>4, <1>5, <2>1
  <1>6. ASSUME NEW p \in Procs, StartsRefunding(p) \/ StartsCancelling(p)
        PROVE  OneLeg'
    <2>1. PICK step \in {"refund.stripe", "refund.record", "cancel.job",
                         "cancel.mark"}, a \in Arg :
              Starts(p, step, a)
      BY <1>a, <1>6, RefundStarts
    <2>2. step \in PC /\ step \notin RecordPCs
      BY DEF PC
    <2>3. QED BY <1>4, <2>1, <2>2
  <1>7. ASSUME NEW p \in Procs, Throws(p)
        PROVE  OneLeg'
    <2>1. payments' = payments /\ legs' = legs /\ intent' = intent
      BY <1>7 DEF Throws
    <2>2. QED BY <1>a, <1>7, <2>1, ThrowsTypes, LegsStay
  <1>8. CASE Dies
    <2>1. \A p \in Procs : pc'[p] = "idle"
      BY <1>a, <1>8, DiesTypes
    <2>2. QED BY <1>8, <2>1 DEF Dies, OneLeg
  <1>9. QED BY <1>1, <1>2, <1>3, <1>5, <1>6, <1>7, <1>8, ContinueOneLeg DEF SoloStep

\* The steps a refund or a cancellation takes after Stripe's answer.
RefundingPCs == {"refund.record", "refund.mark", "cancel.job", "cancel.mark"}

\* What the ledgers hold, once the handler p alone can be under way.
LEMMA SoundWork ==
    ASSUME NEW p \in Procs, Only(p)', RecordWork(p)', RefundWork(p)',
           NothingReturned', PaidIsWhole', CancelledIsRefunded'
    PROVE  Sound'
  <1>1. \A q \in Procs : RecordWork(q)' /\ RefundWork(q)'
    <2> TAKE q \in Procs
    <2>1. CASE q = p
      BY <2>1
    <2>2. CASE q # p
      <3>1. pc'[q] = "idle"
        BY <2>2 DEF Only
      <3>2. QED BY <3>1 DEF RecordWork, RefundWork
    <2>3. QED BY <2>1, <2>2
  <1>2. QED BY <1>1 DEF Sound

\* A step that changes no table, of a handler that has not sent a refund and
\* is not between a payment row and its status.
LEMMA QuietSound ==
    ASSUME Sound, NEW p \in Procs, Only(p), Only(p)',
           pc[p] \notin RefundingPCs \union {"hook.paid"},
           UNCHANGED <<returned, status, due, payments, refunds>>,
           RecordWork(p)', RefundWork(p)'
    PROVE  Sound'
  <1>1. /\ \A q \in Procs, b \in Bookings : ~Refunding(q, b)
        /\ \A q \in Procs : pc[q] # "hook.paid"
    BY DEF Only, Refunding, RefundingPCs
  <1>2. \A b \in Bookings, i \in Intents :
            payments[b][i] > 0 =>
              /\ status[b] \in {"PENDING_PAYMENT", "PAID"} => returned[i] = 0
              /\ status[b] = "CANCELLED" => refunds[b] >= due[b]
    BY <1>1 DEF Sound, PaidIsWhole, CancelledIsRefunded
  <1>3. NothingReturned'
    BY DEF Sound, NothingReturned
  <1>4. PaidIsWhole'
    BY <1>2 DEF PaidIsWhole
  <1>5. CancelledIsRefunded'
    BY <1>2 DEF CancelledIsRefunded
  <1>6. QED BY <1>3, <1>4, <1>5, SoundWork

\* A webhook call writes the row of a payment nothing of which was returned.
LEMMA RecordPaymentSound ==
    ASSUME SoloInv, OneLeg, Sound, NEW p \in Procs, Only(p), Only(p)',
           NEW b \in Bookings, RecordPayment(p, b)
    PROVE  Sound'
  <1> DEFINE i == arg[p].intent
  <1>a. SoloTypes /\ Unrecorded
    BY DEF SoloInv
  <1>1. /\ pc[p] = "hook.pay" /\ i \in Intents
        /\ b \in legs[i] /\ payments[b][i] = 0
    BY <1>a DEF RecordPayment, Unrecorded, RecordPCs, ToPay, OneLeg
  <1>2. /\ payments' = [payments EXCEPT ![b][i] = @ + 1]
        /\ UNCHANGED <<returned, status, due, refunds>>
    BY DEF RecordPayment, AddPayment, stripeVars, bookingVars
  <1>3. /\ pc'[p] = "hook.paid" /\ arg'[p] = [arg[p] EXCEPT !.leg = b]
        /\ pc \in [Procs -> PC] /\ arg \in [Procs -> Arg]
    BY <1>a DEF RecordPayment, GotoWith, SoloTypes, TableTypes
  <1>4. arg'[p].leg = b /\ arg'[p].intent = i
    BY <1>3 DEF Arg
  <1>5. payments \in [Bookings -> [Intents -> Nat]]
    BY <1>a DEF SoloTypes, TableTypes
  <1> HIDE DEF i
  <1>6. /\ payments'[b][i] = 1
        /\ \A c \in Bookings, j \in Intents :
             c # b \/ j # i => payments'[c][j] = payments[c][j]
    BY <1>1, <1>2, <1>5
  <1>7. \A c \in Bookings : payments[c][i] = 0
    <2> TAKE c \in Bookings
    <2>1. payments[c][i] \in Nat
      BY <1>1, <1>5
    <2>2. payments[c][i] > 0 => c \in legs[i]
      BY <1>1 DEF OneLeg
    <2>3. c \in legs[i] => c = b
      BY <1>1 DEF OneLeg
    <2>4. QED BY <1>1, <2>1, <2>2, <2>3
  <1>8. returned[i] = 0
    BY <1>1, <1>7 DEF Sound, NothingReturned
  <1>9. \A q \in Procs, c \in Bookings : ~Refunding(q, c) /\ pc[q] # "hook.paid"
    BY <1>1 DEF Only, Refunding
  <1>10. NothingReturned'
    <2> SUFFICES ASSUME NEW j \in Intents,
                        \A c \in Bookings : payments'[c][j] = 0
                 PROVE  returned'[j] = 0
      BY DEF NothingReturned
    <2>1. j # i
      BY <1>6
    <2>2. \A c \in Bookings : payments[c][j] = 0
      BY <1>6, <2>1
    <2>3. QED BY <1>2, <2>2 DEF Sound, NothingReturned
  <1>11. PaidIsWhole'
    <2> SUFFICES ASSUME NEW c \in Bookings, NEW j \in Intents,
                        payments'[c][j] > 0,
                        status'[c] \in {"PENDING_PAYMENT", "PAID"}
                 PROVE  returned'[j] = 0
      BY DEF PaidIsWhole
    <2>1. CASE j = i
      BY <1>2, <1>8, <2>1
    <2>2. CASE j # i
      BY <1>2, <1>6, <1>9, <2>2 DEF Sound, PaidIsWhole
    <2>3. QED BY <2>1, <2>2
  <1>12. CancelledIsRefunded'
    <2> SUFFICES ASSUME NEW c \in Bookings, NEW j \in Intents,
                        payments'[c][j] > 0, status'[c] = "CANCELLED",
                        \A q \in Procs : ~(pc'[q] = "hook.paid" /\ arg'[q].leg = c)
                 PROVE  refunds'[c] >= due'[c]
      BY DEF CancelledIsRefunded
    <2>1. c # b
      BY <1>3, <1>4
    <2>2. payments[c][j] > 0
      BY <1>6, <2>1
    <2>3. QED BY <1>2, <1>9, <2>2 DEF Sound, CancelledIsRefunded
  <1>13. RecordWork(p)' /\ RefundWork(p)'
    BY <1>2, <1>3, <1>4, <1>6, <1>8 DEF RecordWork, RefundWork
  <1>14. QED BY <1>10, <1>11, <1>12, <1>13, SoundWork

\* The status that follows the row.
LEMMA MarkPaidSound ==
    ASSUME SoloInv, Sole, Sound, NEW p \in Procs, Only(p), Only(p)', MarkPaid(p)
    PROVE  Sound'
  <1> DEFINE b == arg[p].leg
             i == arg[p].intent
  <1>a. SoloTypes /\ Unrecorded
    BY DEF SoloInv
  <1>1. pc[p] = "hook.paid"
    BY <1>a DEF MarkPaid, Unrecorded, RecordPCs
  <1>2. /\ b \in Bookings /\ i \in Intents
        /\ payments[b][i] > 0 /\ returned[i] = 0
    BY <1>1, <1>a DEF Sound, RecordWork, Unrecorded, RecordPCs
  <1>3. /\ status' = [status EXCEPT ![b] = "PAID"]
        /\ UNCHANGED <<returned, due, payments, refunds>>
    BY DEF MarkPaid, SetStatus, stripeVars, ledgerVars
  <1>4. pc'[p] \in {"idle", "hook.pay", "hook.job"}
    BY <1>a DEF MarkPaid, GotoWith, Return, SoloTypes, TableTypes
  <1>5. /\ status'[b] = "PAID"
        /\ \A c \in Bookings : c # b => status'[c] = status[c]
    BY <1>2, <1>3, <1>a DEF SoloTypes, TableTypes
  <1> HIDE DEF b
  <1>6. \A q \in Procs, c \in Bookings : ~Refunding(q, c)
    BY <1>1 DEF Only, Refunding
  <1>7. \A q \in Procs, c \in Bookings :
            c # b => ~(pc[q] = "hook.paid" /\ arg[q].leg = c)
    BY <1>1 DEF Only, b
  <1> HIDE DEF i
  <1>8. NothingReturned'
    BY <1>3 DEF Sound, NothingReturned
  <1>9. PaidIsWhole'
    <2> SUFFICES ASSUME NEW c \in Bookings, NEW j \in Intents,
                        payments'[c][j] > 0,
                        status'[c] \in {"PENDING_PAYMENT", "PAID"}
                 PROVE  returned'[j] = 0
      BY DEF PaidIsWhole
    <2>1. CASE c = b
      <3>1. j = i
        BY <1>2, <1>3, <2>1 DEF Sole
      <3>2. QED BY <1>2, <1>3, <3>1
    <2>2. CASE c # b
      BY <1>3, <1>5, <1>6, <2>2 DEF Sound, PaidIsWhole
    <2>3. QED BY <2>1, <2>2
  <1>10. CancelledIsRefunded'
    <2> SUFFICES ASSUME NEW c \in Bookings, NEW j \in Intents,
                        payments'[c][j] > 0, status'[c] = "CANCELLED"
                 PROVE  refunds'[c] >= due'[c]
      BY DEF CancelledIsRefunded
    <2>1. c # b
      BY <1>5
    <2>2. QED BY <1>3, <1>5, <1>7, <2>1 DEF Sound, CancelledIsRefunded
  <1>11. RecordWork(p)' /\ RefundWork(p)'
    BY <1>4 DEF RecordWork, RefundWork
  <1>12. QED BY <1>8, <1>9, <1>10, <1>11, SoundWork

\* Stripe never refuses the refund of a cancellation.
LEMMA RefundAtStripeSound ==
    ASSUME SoloInv, OneLeg, Sound, NEW p \in Procs, Only(p), Only(p)',
           RefundAtStripe(p)
    PROVE  Sound'
  <1> DEFINE b == arg[p].leg
             i == arg[p].intent
             total == returned[i] + arg[p].amount
  <1>a. SoloTypes
    BY DEF SoloInv
  <1>b. pc \in [Procs -> PC] /\ arg \in [Procs -> Arg]
    BY <1>a DEF SoloTypes, TableTypes
  <1>c. arg[p].amount \in Nat /\ Price \in Nat
    BY <1>b, PaymentsAssumption DEF Arg, PaymentsAssumption
  <1>1. pc[p] = "refund.stripe"
    BY DEF RefundAtStripe
  <1>2. /\ b \in Bookings /\ i \in Intents /\ payments[b][i] > 0
        /\ arg[p].by = "cancelBooking" => arg[p].amount <= Price /\ returned[i] = 0
    BY <1>1 DEF Sound, RefundWork
  <1>3. b \in legs[i] /\ \A c \in legs[i] : c = b
    BY <1>2 DEF OneLeg
  <1>4. Charge(i) = Price
    <2>1. ~IsGroupIntent(i)
      <3>1. ASSUME Grouped, legs[i] = Bookings PROVE FALSE
        <4>1. PICK c \in Bookings, d \in Bookings : c # d
          BY <3>1 DEF Grouped
        <4>2. QED BY <1>3, <3>1, <4>1
      <3>2. QED BY <3>1 DEF IsGroupIntent
    <2>2. QED BY <2>1 DEF Charge
  <1>5. UNCHANGED <<status, due, payments, refunds>>
    BY DEF RefundAtStripe, bookingVars, ledgerVars
  <1>6. CASE /\ total > Charge(i)
             /\ RefundStepThrows(p)
             /\ UNCHANGED <<returned, events>>
    <2>1. arg[p].by # "cancelBooking"
      BY <1>c, <1>2, <1>4, <1>6
    <2>2. pc'[p] = "idle"
      BY <1>6, <1>a, <2>1, SoloThrows
    <2>3. RecordWork(p)' /\ RefundWork(p)'
      BY <2>2 DEF RecordWork, RefundWork
    <2>4. pc[p] \notin RefundingPCs \union {"hook.paid"}
      BY <1>1 DEF RefundingPCs
    <2>5. QED BY <1>5, <1>6, <2>3, <2>4, QuietSound
  <1>7. CASE /\ total <= Charge(i)
             /\ returned' = [returned EXCEPT ![i] = total]
             /\ Goto(p, "refund.record")
    <2>1. pc'[p] = "refund.record" /\ arg' = arg
      BY <1>7, <1>b DEF Goto
    <2>2. \A j \in Intents : j # i => returned'[j] = returned[j]
      BY <1>7, <1>a DEF SoloTypes, TableTypes
    <2>3. \A q \in Procs, c \in Bookings : ~Refunding(q, c) /\ pc[q] # "hook.paid"
      BY <1>1 DEF Only, Refunding
    <2>4. arg'[p].leg = b
      BY <2>1
    <2>a. payments' = payments
      BY <1>5
    <2> HIDE DEF b, i
    <2>5. NothingReturned'
      <3> SUFFICES ASSUME NEW j \in Intents,
                          \A c \in Bookings : payments[c][j] = 0
                   PROVE  returned'[j] = 0
        BY <2>a DEF NothingReturned
      <3>1. j # i
        BY <1>2
      <3>2. QED BY <2>2, <3>1 DEF Sound, NothingReturned
    <2>6. PaidIsWhole'
      <3> SUFFICES ASSUME NEW c \in Bookings, NEW j \in Intents,
                          payments[c][j] > 0,
                          status[c] \in {"PENDING_PAYMENT", "PAID"},
                          ~Refunding(p, c)'
                   PROVE  returned'[j] = 0
        BY <1>5 DEF PaidIsWhole
      <3>1. c # b
        BY <2>1, <2>4 DEF Refunding
      <3>2. j # i
        BY <1>3, <3>1 DEF OneLeg
      <3>3. returned[j] = 0
        BY <2>3 DEF Sound, PaidIsWhole
      <3>4. QED BY <2>2, <3>2, <3>3
    <2>7. CancelledIsRefunded'
      <3> SUFFICES ASSUME NEW c \in Bookings, NEW j \in Intents,
                          payments[c][j] > 0, status[c] = "CANCELLED"
                   PROVE  refunds[c] >= due[c]
        BY <1>5 DEF CancelledIsRefunded
      <3>1. QED BY <2>3 DEF Sound, CancelledIsRefunded
    <2>8. RecordWork(p)' /\ RefundWork(p)'
      BY <1>2, <2>1, <2>4 DEF RecordWork, RefundWork
    <2>9. QED BY <2>5, <2>6, <2>7, <2>8, SoundWork
  <1>8. QED BY <1>6, <1>7 DEF RefundAtStripe

\* The REFUND row of what Stripe returned.
LEMMA RecordRefundSound ==
    ASSUME SoloInv, Sound, NEW p \in Procs, Only(p), Only(p)', RecordRefund(p)
    PROVE  Sound'
  <1> DEFINE b == arg[p].leg
             n == arg[p].amount
  <1>a. SoloTypes
    BY DEF SoloInv
  <1>b. pc \in [Procs -> PC] /\ arg \in [Procs -> Arg] /\ n \in Nat
    BY <1>a DEF SoloTypes, TableTypes, Arg
  <1>c. refunds \in [Bookings -> Nat] /\ due \in [Bookings -> Nat]
    BY <1>a DEF SoloTypes, TableTypes
  <1>1. pc[p] = "refund.record"
    BY DEF RecordRefund
  <1>2. b \in Bookings
    BY <1>1 DEF Sound, RefundWork
  <1>3. /\ refunds' = [refunds EXCEPT ![b] = @ + n]
        /\ UNCHANGED <<returned, status, due, payments>>
    BY DEF RecordRefund, stripeVars, bookingVars
  <1>4. /\ pc'[p] \in {"refund.mark", "cancel.job", "cancel.mark"}
        /\ arg' = arg
    BY <1>b DEF RecordRefund, Goto, AfterRefund
  <1>5. arg'[p].leg = b /\ arg'[p].amount = n
    BY <1>4
  <1> HIDE DEF b, n
  <1>6. /\ refunds'[b] = refunds[b] + n
        /\ \A c \in Bookings : refunds'[c] >= refunds[c]
    BY <1>b, <1>c, <1>2, <1>3
  <1>7. \A q \in Procs, c \in Bookings : Refunding(q, c) => Refunding(q, c)'
    BY <1>1, <1>4 DEF Only, Refunding
  <1>8. \A q \in Procs : pc[q] # "hook.paid"
    BY <1>1 DEF Only
  <1>9. NothingReturned'
    BY <1>3 DEF Sound, NothingReturned
  <1>10. PaidIsWhole'
    <2> SUFFICES ASSUME NEW c \in Bookings, NEW j \in Intents,
                        payments[c][j] > 0,
                        status[c] \in {"PENDING_PAYMENT", "PAID"},
                        \A q \in Procs : ~Refunding(q, c)'
                 PROVE  returned[j] = 0
      BY <1>3 DEF PaidIsWhole
    <2>1. QED BY <1>7 DEF Sound, PaidIsWhole
  <1>11. CancelledIsRefunded'
    <2> SUFFICES ASSUME NEW c \in Bookings, NEW j \in Intents,
                        payments[c][j] > 0, status[c] = "CANCELLED"
                 PROVE  refunds'[c] >= due[c]
      BY <1>3 DEF CancelledIsRefunded
    <2>1. refunds[c] >= due[c]
      BY <1>8 DEF Sound, CancelledIsRefunded
    <2>2. refunds'[c] \in Nat
      <3>1. refunds' \in [Bookings -> Nat]
        BY <1>b, <1>c, <1>3, AddType
      <3>2. QED BY <3>1
    <2>3. QED BY <1>c, <1>6, <2>1, <2>2
  <1>12. RecordWork(p)'
    BY <1>4 DEF RecordWork
  <1>13. RefundWork(p)'
    <2>1. refunds[b] \in Nat
      BY <1>c, <1>2
    <2>2. refunds'[b] >= n
      BY <1>b, <1>6, <2>1
    <2>3. QED BY <1>2, <1>4, <1>5, <2>2 DEF RefundWork
  <1>14. QED BY <1>9, <1>10, <1>11, <1>12, <1>13, SoundWork

\* A booking becomes REFUNDED.
LEMMA RefundedSound ==
    ASSUME SoloInv, Sound, NEW p \in Procs, Only(p), Only(p)',
           MarkRefunded(p) \/ MarkChargeRefunded(p)
    PROVE  Sound'
  <1> DEFINE b == arg[p].leg
  <1>a. SoloTypes
    BY DEF SoloInv
  <1>b. pc \in [Procs -> PC]
    BY <1>a DEF SoloTypes, TableTypes
  <1>1. pc[p] \in {"refund.mark", "refunded.mark"}
    BY DEF MarkRefunded, MarkChargeRefunded
  <1>2. /\ status' = [status EXCEPT ![b] = "REFUNDED"]
        /\ UNCHANGED <<returned, due, payments, refunds>>
    BY DEF MarkRefunded, MarkChargeRefunded, SetStatus, stripeVars, ledgerVars
  <1>3. pc'[p] \in {"idle", "group.read"}
    BY <1>b DEF MarkRefunded, MarkChargeRefunded, ThenGroupStatus, Goto, GotoWith,
                Return
  <1>4. \A c \in Bookings :
            \/ c = b /\ status'[c] = "REFUNDED"
            \/ c # b /\ status'[c] = status[c]
    BY <1>a, <1>2 DEF SoloTypes, TableTypes
  <1>5. \A q \in Procs, c \in Bookings : Refunding(q, c) => c = b
    BY <1>1 DEF Only, Refunding
  <1>6. \A q \in Procs : pc[q] # "hook.paid"
    BY <1>1 DEF Only
  <1> HIDE DEF b
  <1>7. NothingReturned'
    BY <1>2 DEF Sound, NothingReturned
  <1>8. PaidIsWhole'
    <2> SUFFICES ASSUME NEW c \in Bookings, NEW j \in Intents,
                        payments[c][j] > 0,
                        status'[c] \in {"PENDING_PAYMENT", "PAID"}
                 PROVE  returned[j] = 0
      BY <1>2 DEF PaidIsWhole
    <2>1. c # b /\ status'[c] = status[c]
      BY <1>4
    <2>2. QED BY <1>5, <2>1 DEF Sound, PaidIsWhole
  <1>9. CancelledIsRefunded'
    <2> SUFFICES ASSUME NEW c \in Bookings, NEW j \in Intents,
                        payments[c][j] > 0, status'[c] = "CANCELLED"
                 PROVE  refunds[c] >= due[c]
      BY <1>2 DEF CancelledIsRefunded
    <2>1. status'[c] = status[c]
      BY <1>4
    <2>2. QED BY <1>6, <2>1 DEF Sound, CancelledIsRefunded
  <1>10. RecordWork(p)' /\ RefundWork(p)'
    BY <1>3 DEF RecordWork, RefundWork
  <1>11. QED BY <1>7, <1>8, <1>9, <1>10, SoundWork

\* The job of the booking is cancelled, then the booking, with the amount
\* that was returned.
LEMMA CancelJobSound ==
    ASSUME SoloInv, Sound, NEW p \in Procs, Only(p), Only(p)', CancelJob(p)
    PROVE  Sound'
  <1>a. pc \in [Procs -> PC]
    BY DEF SoloInv, SoloTypes, TableTypes
  <1>1. /\ pc[p] = "cancel.job" /\ pc'[p] = "cancel.mark" /\ arg' = arg
        /\ UNCHANGED <<returned, status, due, payments, refunds>>
    BY <1>a DEF CancelJob, Goto, stripeVars, ledgerVars
  <1>2. \A q \in Procs, c \in Bookings : Refunding(q, c) => Refunding(q, c)'
    BY <1>1 DEF Only, Refunding
  <1>3. \A q \in Procs : pc[q] # "hook.paid"
    BY <1>1 DEF Only
  <1>4. NothingReturned'
    BY <1>1 DEF Sound, NothingReturned
  <1>5. PaidIsWhole'
    BY <1>1, <1>2 DEF Sound, PaidIsWhole
  <1>6. CancelledIsRefunded'
    BY <1>1, <1>3 DEF Sound, CancelledIsRefunded
  <1>7. RecordWork(p)'
    BY <1>1 DEF RecordWork
  <1>8. RefundWork(p)'
    BY <1>1 DEF Sound, RefundWork
  <1>9. QED BY <1>4, <1>5, <1>6, <1>7, <1>8, SoundWork

LEMMA CancelledSound ==
    ASSUME SoloInv, Sound, NEW p \in Procs, Only(p), Only(p)', MarkCancelled(p)
    PROVE  Sound'
  <1> DEFINE b == arg[p].leg
             n == arg[p].amount
  <1>a. SoloTypes
    BY DEF SoloInv
  <1>b. pc \in [Procs -> PC]
    BY <1>a DEF SoloTypes, TableTypes
  <1>1. pc[p] = "cancel.mark"
    BY DEF MarkCancelled
  <1>2. /\ b \in Bookings
        /\ \A i \in Intents : payments[b][i] > 0 => refunds[b] >= n
    BY <1>1 DEF Sound, RefundWork
  <1>3. /\ status' = [status EXCEPT ![b] = "CANCELLED"]
        /\ due' = [due EXCEPT ![b] = n]
        /\ UNCHANGED <<returned, payments, refunds>>
    BY DEF MarkCancelled, SetStatus, stripeVars, ledgerVars
  <1>4. pc'[p] \in {"idle", "group.read"}
    BY <1>b DEF MarkCancelled, ThenGroupStatus, Goto, GotoWith, Return
  <1>5. \A c \in Bookings :
            \/ c = b /\ status'[c] = "CANCELLED" /\ due'[c] = n
            \/ c # b /\ status'[c] = status[c] /\ due'[c] = due[c]
    BY <1>a, <1>3 DEF SoloTypes, TableTypes
  <1>6. \A q \in Procs, c \in Bookings : Refunding(q, c) => c = b
    BY <1>1 DEF Only, Refunding
  <1>7. \A q \in Procs : pc[q] # "hook.paid"
    BY <1>1 DEF Only
  <1> HIDE DEF b, n
  <1>8. NothingReturned'
    BY <1>3 DEF Sound, NothingReturned
  <1>9. PaidIsWhole'
    <2> SUFFICES ASSUME NEW c \in Bookings, NEW j \in Intents,
                        payments[c][j] > 0,
                        status'[c] \in {"PENDING_PAYMENT", "PAID"}
                 PROVE  returned[j] = 0
      BY <1>3 DEF PaidIsWhole
    <2>1. c # b /\ status'[c] = status[c]
      BY <1>5
    <2>2. QED BY <1>6, <2>1 DEF Sound, PaidIsWhole
  <1>10. CancelledIsRefunded'
    <2> SUFFICES ASSUME NEW c \in Bookings, NEW j \in Intents,
                        payments[c][j] > 0, status'[c] = "CANCELLED"
                 PROVE  refunds[c] >= due'[c]
      BY <1>3 DEF CancelledIsRefunded
    <2>1. CASE c = b
      BY <1>2, <1>5, <2>1
    <2>2. CASE c # b
      <3>1. status[c] = "CANCELLED" /\ due'[c] = due[c]
        BY <1>5, <2>2
      <3>2. QED BY <1>7, <3>1 DEF Sound, CancelledIsRefunded
    <2>3. QED BY <2>1, <2>2
  <1>11. RecordWork(p)' /\ RefundWork(p)'
    BY <1>4 DEF RecordWork, RefundWork
  <1>12. QED BY <1>8, <1>9, <1>10, <1>11, SoundWork

LEMMA ContinueSound ==
    ASSUME SoloInv, OneLeg, Sole, Sound, NEW p \in Procs, Continue(p)
    PROVE  Sound'
  <1>a. SoloTypes /\ Alone
    BY DEF SoloInv
  <1>b. OnlyMoves(p)
    BY SoloContinueTypes
  <1>c. pc[p] # "idle"
    BY DEF Continue, RecordPayment, CreateJob, MarkPaid, RecordChargeRefund,
           MarkChargeRefunded, RefundAtStripe, RecordRefund, MarkRefunded,
           CancelJob, MarkCancelled, ReadGroup, WriteGroup
  <1>d. Only(p)
    BY <1>a, <1>c DEF Alone, Only
  <1>e. Only(p)'
    BY <1>b, <1>d, StillAlone
  <1>f. pc \in [Procs -> PC]
    BY <1>a DEF SoloTypes, TableTypes
  <1>1. CASE \/ \E b \in Bookings : CreateJob(p, b)
             \/ RecordChargeRefund(p) \/ ReadGroup(p) \/ WriteGroup(p)
    <2>1. /\ UNCHANGED <<returned, status, due, payments, refunds>>
          /\ pc[p] \notin RefundingPCs \union {"hook.paid"}
      BY <1>1 DEF CreateJob, RecordChargeRefund, ReadGroup, WriteGroup, stripeVars,
                  bookingVars, ledgerVars, RefundingPCs
    <2>2. pc'[p] \in {"idle", "hook.job", "refunded.mark", "group.write"}
      BY <1>1, <1>f DEF CreateJob, RecordChargeRefund, ReadGroup, WriteGroup, Goto,
                        GotoWith, Return
    <2>3. RecordWork(p)' /\ RefundWork(p)'
      BY <2>2 DEF RecordWork, RefundWork
    <2>4. QED BY <1>d, <1>e, <2>1, <2>3, QuietSound
  <1>2. QED BY <1>1, <1>d, <1>e, RecordPaymentSound, MarkPaidSound,
               RefundAtStripeSound, RecordRefundSound, RefundedSound,
               CancelJobSound, CancelledSound DEF Continue

LEMMA StartsSound ==
    ASSUME SoloInv, Sound, NEW p \in Procs, NEW step \in PC, NEW a \in Arg,
           Starts(p, step, a),
           step # "hook.paid",
           step \in RefundingPCs \union {"refund.stripe"} => a.leg \in Bookings,
           step = "refund.stripe" =>
               /\ a.intent \in Intents /\ payments[a.leg][a.intent] > 0
               /\ a.by = "cancelBooking" =>
                    a.amount <= Price /\ returned[a.intent] = 0,
           step \in {"cancel.job", "cancel.mark"} =>
               \A i \in Intents :
                   payments[a.leg][i] > 0 => refunds[a.leg] >= a.amount
    PROVE  Sound'
  <1>1. /\ Only(p) /\ Only(p)' /\ pc'[p] = step /\ arg'[p] = a
    BY StartsTypes DEF SoloInv
  <1>2. /\ UNCHANGED <<returned, status, due, payments, refunds>>
        /\ pc[p] = "idle"
    BY DEF Starts, Idle
  <1>3. RecordWork(p)'
    BY <1>1 DEF RecordWork
  <1>4. RefundWork(p)'
    BY <1>1, <1>2 DEF RefundWork, RefundingPCs
  <1>5. pc[p] \notin RefundingPCs \union {"hook.paid"}
    BY <1>2 DEF RefundingPCs
  <1>6. QED BY <1>1, <1>2, <1>3, <1>4, <1>5, QuietSound

\* Rows are only added, and a fault is remembered: what the invariant assumes
\* after a step held before it.
LEMMA AssumedBefore ==
    ASSUME SoloInv, SoloStep(One), NoFault', Sole'
    PROVE  NoFault /\ Sole
  <1>a. SoloTypes
    BY DEF SoloInv
  <1>b. payments \in [Bookings -> [Intents -> Nat]] /\ errors \in Nat /\ crashes \in Nat
    BY <1>a DEF SoloTypes, TableTypes
  <1>1. \/ UNCHANGED <<errors, crashes>>
        \/ errors' = errors + 1
        \/ crashes' = crashes + 1
    <2>1. ASSUME NEW i \in Intents, NEW bs \in One, CreateIntent(i, bs)
          PROVE  UNCHANGED <<errors, crashes>>
      BY <2>1 DEF CreateIntent, countVars, faultVars
    <2>2. Rests => UNCHANGED <<errors, crashes>>
      BY DEF Rests, faultVars
    <2>3. ASSUME NEW p \in Procs, NEW step, NEW a, Starts(p, step, a)
          PROVE  UNCHANGED <<errors, crashes>>
      BY <2>3 DEF Starts, faultVars
    <2>4. ASSUME NEW p \in Procs, StartsRefunding(p) \/ StartsCancelling(p)
          PROVE  UNCHANGED <<errors, crashes>>
      BY <1>a, <2>3, <2>4, RefundStarts
    <2>5. ASSUME NEW p \in Procs, StartsRecording(p)
          PROVE  UNCHANGED <<errors, crashes>>
      BY <2>3, <2>5 DEF StartsRecording
    <2>6. ASSUME NEW p \in Procs, Continue(p)
          PROVE  UNCHANGED <<errors, crashes>>
      BY <2>6 DEF Continue, RecordPayment, CreateJob, MarkPaid, RecordChargeRefund,
                  MarkChargeRefunded, RefundAtStripe, RecordRefund, MarkRefunded,
                  CancelJob, MarkCancelled, ReadGroup, WriteGroup, countVars,
                  faultVars
    <2>7. QED BY <2>1, <2>2, <2>3, <2>4, <2>5, <2>6 DEF SoloStep, Throws, Dies
  <1>2. \A b \in Bookings, i \in Intents : payments[b][i] > 0 => payments'[b][i] > 0
    <2>1. payments' = payments => \A b \in Bookings, i \in Intents :
              payments[b][i] > 0 => payments'[b][i] > 0
      BY <1>b
    <2>2. ASSUME NEW p \in Procs, NEW b \in Bookings, RecordPayment(p, b)
          PROVE  \A c \in Bookings, i \in Intents :
                     payments[c][i] > 0 => payments'[c][i] > 0
      <3> DEFINE j == arg[p].intent
      <3>1. payments' = [payments EXCEPT ![b][j] = @ + 1]
        BY <2>2 DEF RecordPayment, AddPayment
      <3> HIDE DEF j
      <3>2. SUFFICES ASSUME NEW c \in Bookings, NEW i \in Intents
                     PROVE  payments[c][i] > 0 => payments'[c][i] > 0
        OBVIOUS
      <3>3. payments[c][i] \in Nat
        BY <1>b
      <3>4. CASE c = b /\ i = j
        <4>1. payments'[c][i] = payments[c][i] + 1
          BY <1>b, <3>1, <3>4
        <4>2. QED BY <3>3, <4>1
      <3>5. CASE c # b \/ i # j
        <4>1. payments'[c][i] = payments[c][i]
          BY <1>b, <3>1, <3>5
        <4>2. QED BY <3>3, <4>1
      <3>6. QED BY <3>4, <3>5
    <2>3. ASSUME NEW p \in Procs, Continue(p)
          PROVE  \/ \E b \in Bookings : RecordPayment(p, b)
                 \/ payments' = payments
      BY <2>3 DEF Continue, CreateJob, MarkPaid, RecordChargeRefund,
                  MarkChargeRefunded, RefundAtStripe, RecordRefund, MarkRefunded,
                  CancelJob, MarkCancelled, ReadGroup, WriteGroup, ledgerVars
    <2>4. ASSUME NEW p \in Procs, NEW step, NEW a, Starts(p, step, a)
          PROVE  payments' = payments
      BY <2>4 DEF Starts
    <2>5. ASSUME NEW p \in Procs,
                 \/ StartsRecording(p)
                 \/ StartsRefunding(p) \/ StartsCancelling(p)
          PROVE  payments' = payments
      BY <1>a, <2>4, <2>5, RefundStarts DEF StartsRecording
    <2>6. ASSUME NEW i \in Intents, NEW bs \in One, CreateIntent(i, bs)
          PROVE  payments' = payments
      BY <2>6 DEF CreateIntent, ledgerVars
    <2>7. QED BY <2>1, <2>2, <2>3, <2>4, <2>5, <2>6
              DEF SoloStep, Rests, Throws, Dies
  <1>3. NoFault
    BY <1>b, <1>1 DEF NoFault
  <1>4. Sole
    <2> SUFFICES ASSUME NEW b \in Bookings, NEW i \in Intents, NEW j \in Intents,
                        payments[b][i] > 0, payments[b][j] > 0
                 PROVE  i = j
      BY DEF Sole
    <2>1. payments'[b][i] > 0 /\ payments'[b][j] > 0
      BY <1>2
    <2>2. QED BY <2>1 DEF Sole
  <1>5. QED BY <1>3, <1>4

\* The invariant of PromisedRefundMade.
LEMMA StepRefunds ==
    ASSUME SoloInv, RefundInv, SoloStep(One)
    PROVE  RefundInv'
  <1>1. OneLeg /\ OneLeg'
    BY StepOneLeg DEF RefundInv
  <1>2. SUFFICES ASSUME NoFault', Sole' PROVE Sound'
    BY <1>1 DEF RefundInv
  <1>3. NoFault /\ Sole
    BY <1>2, AssumedBefore
  <1>4. Sound
    BY <1>3 DEF RefundInv
  <1>a. SoloTypes
    BY DEF SoloInv
  <1>5. ASSUME UNCHANGED <<returned, status, due, payments, refunds, pc, arg>>
        PROVE  Sound'
    BY <1>4, <1>5 DEF Sound, NothingReturned, RecordWork, RefundWork, PaidIsWhole,
                      CancelledIsRefunded, Refunding
  <1>6. ASSUME NEW i \in Intents, NEW bs \in One, CreateIntent(i, bs)
        PROVE  Sound'
    BY <1>5, <1>6 DEF CreateIntent, bookingVars, ledgerVars, procVars
  <1>7. CASE Rests
    BY <1>5, <1>7 DEF Rests, procVars
  <1>8. ASSUME NEW p \in Procs, StartsRecording(p)
        PROVE  Sound'
    <2>1. PICK i \in Intents :
              Starts(p, "hook.pay", [NoArg EXCEPT !.intent = i, !.todo = legs[i]])
      BY <1>8 DEF StartsRecording
    <2> DEFINE a == [NoArg EXCEPT !.intent = i, !.todo = legs[i]]
    <2>2. legs[i] \in SUBSET Bookings
      BY <1>a DEF SoloTypes, TableTypes
    <2>3. a \in Arg
      BY <2>2 DEF NoArg, Arg, GroupStatus
    <2>4. "hook.pay" \in PC
      BY DEF PC, SucceededPCs
    <2> HIDE DEF a
    <2>5. Starts(p, "hook.pay", a)
      BY <2>1 DEF a
    <2>6. QED BY <1>4, <2>3, <2>4, <2>5, StartsSound DEF RefundingPCs
  <1>9. ASSUME NEW p \in Procs, NEW a \in Arg, Starts(p, "refunded.record", a)
        PROVE  Sound'
    <2>1. "refunded.record" \in PC
      BY DEF PC, RefundedPCs
    <2>2. QED BY <1>4, <1>9, <2>1, StartsSound DEF RefundingPCs
  <1>10. ASSUME NEW p \in Procs, StartsRefunding(p) \/ StartsCancelling(p)
         PROVE  Sound'
    <2>1. PICK step \in {"refund.stripe", "refund.record", "cancel.job",
                         "cancel.mark"}, a \in Arg :
                /\ Starts(p, step, a) /\ a.leg \in Bookings
                /\ step = "refund.stripe" =>
                     a.intent \in Intents /\ payments[a.leg][a.intent] > 0
                /\ a.by = "cancelBooking" =>
                     /\ a.amount \in 0 .. Price
                     /\ status[a.leg] \in {"PENDING_PAYMENT", "PAID"}
                     /\ step # "refund.record"
                /\ step \in {"cancel.job", "cancel.mark"} =>
                     \/ a.amount = 0
                     \/ \A i \in Intents : payments[a.leg][i] = 0
      BY <1>a, <1>10, RefundStarts
    <2>2. step \in PC /\ step # "hook.paid"
      BY DEF PC
    <2>3. Price \in Nat
      BY PaymentsAssumption DEF PaymentsAssumption
    <2>4. step = "refund.stripe" =>
              /\ a.intent \in Intents /\ payments[a.leg][a.intent] > 0
              /\ a.by = "cancelBooking" =>
                   a.amount <= Price /\ returned[a.intent] = 0
      <3>1. \A q \in Procs : ~Refunding(q, a.leg)
        BY <2>1 DEF Starts, Idle, Refunding
      <3>2. SUFFICES ASSUME step = "refund.stripe"
                     PROVE  a.by = "cancelBooking" =>
                              a.amount <= Price /\ returned[a.intent] = 0
        BY <2>1
      <3>3. QED BY <1>4, <2>1, <2>3, <3>1, <3>2 DEF Sound, PaidIsWhole
    <2>5. step \in {"cancel.job", "cancel.mark"} =>
              \A i \in Intents :
                  payments[a.leg][i] > 0 => refunds[a.leg] >= a.amount
      <3>1. refunds[a.leg] \in Nat
        BY <1>a, <2>1 DEF SoloTypes, TableTypes
      <3>2. QED BY <2>1, <3>1
    <2>6. QED BY <1>4, <2>1, <2>2, <2>4, <2>5, StartsSound
  <1>11. ASSUME NEW p \in Procs, Throws(p)
         PROVE  Sound'
    <2>1. errors' # 0
      BY <1>a, <1>11 DEF Throws, SoloTypes, TableTypes
    <2>2. QED BY <1>2, <2>1 DEF NoFault
  <1>12. CASE Dies
    <2>1. crashes' # 0
      BY <1>12, <1>a, DiesTypes
    <2>2. QED BY <1>2, <2>1 DEF NoFault
  <1>13. QED BY <1>1, <1>3, <1>4, <1>6, <1>7, <1>8, <1>9, <1>10, <1>11, <1>12,
                ContinueSound DEF SoloStep

\* Between requests every cancelled booking with a payment had its refund.
LEMMA RefundsMade ==
    ASSUME SoloInv, RefundInv
    PROVE  Sole => PromisedRefundMade
  <1>1. SUFFICES ASSUME Sole, NoFault, Idle, NEW b \in Bookings,
                        status[b] = "CANCELLED", NEW i \in Intents,
                        payments[b][i] > 0
                 PROVE  refunds[b] >= due[b]
    BY DEF PromisedRefundMade
  <1>2. CancelledIsRefunded
    BY <1>1 DEF RefundInv, Sound
  <1>3. \A p \in Procs : pc[p] # "hook.paid"
    BY <1>1 DEF Idle
  <1>4. QED BY <1>1, <1>2, <1>3 DEF CancelledIsRefunded

LEMMA SoloInit ==
    ASSUME Init
    PROVE  SoloInv /\ RefundInv
  <1>1. NoArg \in Arg
    BY NoArgType
  <1>2. SoloTypes
    BY <1>1 DEF Init, SoloTypes, TableTypes, Status, PC
  <1>3. \A p \in Procs : pc[p] = "idle"
    BY DEF Init
  <1>4. \A b \in Bookings, i \in Intents : payments[b][i] = 0
    BY DEF Init
  <1>5. SoloInv
    BY <1>2, <1>3, <1>4 DEF SoloInv, Alone, PaidOnce, Unrecorded, RecordPCs
  <1>6. OneLeg
    BY <1>3, <1>4 DEF Init, OneLeg, RecordPCs
  <1>7. Sound
    BY <1>3, <1>4 DEF Init, Sound, NothingReturned, RecordWork, RefundWork,
                      PaidIsWhole, CancelledIsRefunded
  <1>8. QED BY <1>5, <1>6, <1>7 DEF RefundInv

----------------------------------------------------------------------------
(* A step of Payments, under any bounds, is such a step *)

LEMMA StutterIsSolo ==
    ASSUME SoloTypes, UNCHANGED vars
    PROVE  Rests
  BY DEF SoloTypes, TableTypes, Rests, vars, stripeVars, bookingVars, ledgerVars, procVars,
         countVars, faultVars

\* A request whose refund is sent to Stripe or written without one.
LEMMA RefundRequest ==
    ASSUME NEW p \in Procs, Idle, NEW b \in Bookings, NEW n \in Nat,
           NEW by \in {"refundPayment", "adminRefund"},
           StartRefund(p, b, [NoArg EXCEPT !.by = by, !.amount = n],
                       "refund.stripe", "refund.record"),
           UNCHANGED <<intent, legs, returned, status, due, payments, refunds,
                       faultVars>>
    PROVE  StartsRefunding(p)
  <1> DEFINE a == [NoArg EXCEPT !.by = by, !.amount = n]
             d == [NoArg EXCEPT !.by = by, !.amount = n, !.leg = b]
  <1>1. /\ [a EXCEPT !.leg = b] = d
        /\ \A i \in Intents : [a EXCEPT !.leg = b, !.intent = i] = [d EXCEPT !.intent = i]
    BY DEF NoArg
  <1>2. \/ \E i \in Intents :
             /\ payments[b][i] > 0
             /\ GotoWith(p, "refund.stripe", [a EXCEPT !.leg = b, !.intent = i])
        \/ GotoWith(p, "refund.record", [a EXCEPT !.leg = b])
    BY DEF StartRefund
  <1> HIDE DEF a, d
  <1>3. \/ \E i \in Intents :
             /\ payments[b][i] > 0
             /\ Starts(p, "refund.stripe", [d EXCEPT !.intent = i])
        \/ Starts(p, "refund.record", d)
    BY <1>1, <1>2 DEF Starts
  <1>4. QED BY <1>3 DEF StartsRefunding, d

\* A request that cancels a booking.
LEMMA CancelRequest ==
    ASSUME NEW p \in Procs, Idle, NEW b \in Bookings, NEW n \in 0 .. Price,
           NEW has \in BOOLEAN,
           status[b] \in {"PENDING_PAYMENT", "PAID"},
           LET a == [NoArg EXCEPT !.by = "cancelBooking", !.amount = n, !.job = has]
           IN StartRefund(p, b, a, IF n > 0 THEN "refund.stripe" ELSE AfterRefund(a.job),
                          AfterRefund(a.job)),
           UNCHANGED <<intent, legs, returned, status, due, payments, refunds,
                       faultVars>>
    PROVE  StartsCancelling(p)
  <1> DEFINE a == [NoArg EXCEPT !.by = "cancelBooking", !.amount = n, !.job = has]
             d == [NoArg EXCEPT !.by = "cancelBooking", !.amount = n,
                                !.job = has, !.leg = b]
             first == IF n > 0 THEN "refund.stripe" ELSE AfterRefund(has)
  <1>1. /\ [a EXCEPT !.leg = b] = d /\ a.job = has
        /\ \A i \in Intents : [a EXCEPT !.leg = b, !.intent = i] = [d EXCEPT !.intent = i]
    BY DEF NoArg
  <1>2. StartRefund(p, b, a, IF n > 0 THEN "refund.stripe" ELSE AfterRefund(a.job),
                    AfterRefund(a.job))
    OBVIOUS
  <1> HIDE DEF a
  <1>3. StartRefund(p, b, a, first, AfterRefund(has))
    BY <1>1, <1>2
  <1> HIDE DEF d, first
  <1>4. \/ \E i \in Intents :
             /\ payments[b][i] > 0
             /\ GotoWith(p, first, [a EXCEPT !.leg = b, !.intent = i])
        \/ /\ \A i \in Intents : payments[b][i] = 0
           /\ GotoWith(p, AfterRefund(has), [a EXCEPT !.leg = b])
    BY <1>3 DEF StartRefund
  <1>5. \/ \E i \in Intents :
             /\ payments[b][i] > 0
             /\ Starts(p, first, [d EXCEPT !.intent = i])
        \/ /\ \A i \in Intents : payments[b][i] = 0
           /\ Starts(p, AfterRefund(has), d)
    BY <1>1, <1>4 DEF Starts
  <1>6. QED BY <1>5 DEF StartsCancelling, d, first

\* A delivery of the event of a payment, and one of a refund.
LEMMA SucceededIsSolo ==
    ASSUME SoloTypes, NEW h \in Procs, NEW i \in Intents, Idle,
           UNCHANGED <<intent, legs, returned, status, due, payments, refunds,
                       faultVars>>,
           \/ UNCHANGED procVars
           \/ /\ ~AlreadyRecorded(i)
              /\ GotoWith(h, "hook.pay",
                          [NoArg EXCEPT !.intent = i, !.todo = legs[i]])
    PROVE  Rests \/ StartsRecording(h)
  <1>1. CASE UNCHANGED procVars
    BY <1>1 DEF Rests, SoloTypes, TableTypes
  <1>2. CASE /\ ~AlreadyRecorded(i)
             /\ GotoWith(h, "hook.pay",
                         [NoArg EXCEPT !.intent = i, !.todo = legs[i]])
    <2>1. \A b \in Bookings : payments[b][i] \in Nat
      BY DEF SoloTypes, TableTypes
    <2>2. \A b \in Bookings : payments[b][i] = 0
      BY <1>2, <2>1 DEF AlreadyRecorded
    <2>3. QED BY <1>2, <2>2 DEF StartsRecording, Starts
  <1>3. QED BY <1>1, <1>2

LEMMA ChargeIsSolo ==
    ASSUME SoloTypes, NEW h \in Procs, NEW i \in Intents, Idle,
           UNCHANGED <<intent, legs, returned, status, due, payments, refunds,
                       faultVars>>,
           \/ UNCHANGED procVars
           \/ \E b \in Bookings :
                GotoWith(h, "refunded.record", [NoArg EXCEPT
                      !.intent = i, !.leg = b, !.amount = Price])
           \/ \E b \in legs[i] :
                GotoWith(h, "refunded.record", [NoArg EXCEPT
                      !.intent = i, !.leg = b])
    PROVE  Rests \/ \E a \in Arg : Starts(h, "refunded.record", a)
  <1>1. CASE UNCHANGED procVars
    BY <1>1 DEF Rests, SoloTypes, TableTypes
  <1>2. ASSUME NEW a \in Arg, GotoWith(h, "refunded.record", a)
        PROVE  Starts(h, "refunded.record", a)
    BY <1>2 DEF Starts
  <1>3. NoArg \in Arg /\ Price \in Nat
    BY NoArgType, PaymentsAssumption DEF PaymentsAssumption
  <1>4. \A b \in Bookings :
            /\ [NoArg EXCEPT !.intent = i, !.leg = b, !.amount = Price] \in Arg
            /\ [NoArg EXCEPT !.intent = i, !.leg = b] \in Arg
    BY <1>3 DEF NoArg, Arg, GroupStatus
  <1>5. legs[i] \subseteq Bookings
    BY DEF SoloTypes, TableTypes
  <1>6. QED BY <1>1, <1>2, <1>4, <1>5

\* A step of Payments itself.
LEMMA NextIsSolo ==
    ASSUME SoloInv, Overlap = FALSE, WebhookOnly, NEW payable,
           \A b \in Bookings : {b} \in payable,
           "createGroupPaymentIntent" \in Requests /\ Grouped => Bookings \in payable,
           [Next]_vars
    PROVE  SoloStep(payable)
  <1>a. SoloTypes
    BY DEF SoloInv
  <1>b. \A p \in Procs : Free(p) => Idle
    BY DEF Free
  <1>c. Price \in Nat /\ RefundAmounts \subseteq 1 .. Price
    BY PaymentsAssumption DEF PaymentsAssumption
  <1>d. "confirmPayment" \notin Requests /\ "confirmGroupPayment" \notin Requests
    BY DEF WebhookOnly
  <1>1. ASSUME NEW i \in Intents, Stripe(i)
        PROVE  SoloStep(payable)
    <2>1. ASSUME NEW b \in Bookings, CreatePaymentIntent(i, b)
          PROVE  SoloStep(payable)
      BY <2>1 DEF CreatePaymentIntent, SoloStep
    <2>2. CASE CreateGroupPaymentIntent(i)
      BY <2>2 DEF CreateGroupPaymentIntent, SoloStep
    <2>3. CASE PaymentSucceeds(i)
      BY <1>a, <2>3 DEF PaymentSucceeds, SoloStep, Rests, SoloTypes, TableTypes, procVars,
                        faultVars, stripeVars, bookingVars,
                        ledgerVars, countVars
    <2>4. CASE PaymentFails(i)
      BY <1>a, <2>4 DEF PaymentFails, SoloStep, Rests, SoloTypes, TableTypes, procVars,
                        faultVars, stripeVars, bookingVars,
                        ledgerVars, countVars
    <2>5. QED BY <1>1, <2>1, <2>2, <2>3, <2>4 DEF Stripe
  <1>2. ASSUME NEW h \in Procs, NEW kind, NEW i \in Intents, Receive(h, kind, i)
        PROVE  /\ Idle
               /\ UNCHANGED <<intent, legs, returned, status, due, faultVars>>
    BY <1>b, <1>2 DEF Receive, faultVars, stripeVars, bookingVars,
                        ledgerVars, countVars
  <1>3. ASSUME NEW h \in Procs, NEW i \in Intents, PaymentSucceeded(h, i)
        PROVE  SoloStep(payable)
    <2>1. /\ Idle
          /\ UNCHANGED <<intent, legs, returned, status, due, payments, refunds,
                         faultVars>>
      BY <1>2, <1>3 DEF PaymentSucceeded, stripeVars, bookingVars,
                        ledgerVars, countVars
    <2>2. \/ UNCHANGED procVars
          \/ /\ ~AlreadyRecorded(i)
             /\ GotoWith(h, "hook.pay",
                         [NoArg EXCEPT !.intent = i, !.todo = legs[i]])
      BY <1>3 DEF PaymentSucceeded
    <2>3. QED BY <1>a, <2>1, <2>2, SucceededIsSolo DEF SoloStep
  <1>4. ASSUME NEW h \in Procs, NEW i \in Intents, PaymentFailed(h, i)
        PROVE  SoloStep(payable)
    <2>1. UNCHANGED <<intent, legs, returned, status, due, payments, refunds,
                      procVars, faultVars>>
      BY <1>2, <1>4 DEF PaymentFailed
    <2>2. QED BY <1>a, <2>1 DEF SoloStep, Rests, SoloTypes, TableTypes
  <1>5. ASSUME NEW h \in Procs, NEW i \in Intents, ChargeRefunded(h, i)
        PROVE  SoloStep(payable)
    <2>1. /\ Idle
          /\ UNCHANGED <<intent, legs, returned, status, due, payments, refunds,
                         faultVars>>
      BY <1>2, <1>5 DEF ChargeRefunded, stripeVars, bookingVars,
                        ledgerVars, countVars
    <2>2. \/ UNCHANGED procVars
          \/ \E b \in Bookings :
               GotoWith(h, "refunded.record", [NoArg EXCEPT
                     !.intent = i, !.leg = b, !.amount = Price])
          \/ \E b \in legs[i] :
               GotoWith(h, "refunded.record", [NoArg EXCEPT
                     !.intent = i, !.leg = b])
      BY <1>5 DEF ChargeRefunded
    <2>3. QED BY <1>a, <2>1, <2>2, ChargeIsSolo DEF SoloStep
  <1>6. ASSUME NEW p \in Procs, StartRequest(p)
        PROVE  SoloStep(payable)
    <2>1. ASSUME NEW name, Request(p, name)
          PROVE  Idle /\ name \in Requests /\ UNCHANGED faultVars
      BY <1>b, <2>1 DEF Request, faultVars
    <2>2. ASSUME NEW b \in Bookings, RefundPayment(p, b)
          PROVE  SoloStep(payable)
      <3>1. /\ Idle
            /\ UNCHANGED <<intent, legs, returned, status, due, payments, refunds,
                           faultVars>>
        BY <2>1, <2>2 DEF RefundPayment, stripeVars, bookingVars,
                        ledgerVars, countVars
      <3>2. StartRefund(p, b, [NoArg EXCEPT !.by = "refundPayment", !.amount = Price],
                        "refund.stripe", "refund.record")
        BY <2>2 DEF RefundPayment
      <3>3. StartsRefunding(p)
        BY <1>c, <3>1, <3>2, RefundRequest
      <3>4. QED BY <3>3 DEF SoloStep
    <2>3. ASSUME NEW b \in Bookings, NEW n \in RefundAmounts \union {Price},
                 AdminRefund(p, b, n)
          PROVE  SoloStep(payable)
      <3>1. /\ Idle
            /\ UNCHANGED <<intent, legs, returned, status, due, payments, refunds,
                           faultVars>>
        BY <2>1, <2>3 DEF AdminRefund, stripeVars, bookingVars,
                        ledgerVars, countVars
      <3>2. n \in Nat
        BY <1>c
      <3>3. StartRefund(p, b, [NoArg EXCEPT !.by = "adminRefund", !.amount = n],
                        "refund.stripe", "refund.record")
        BY <2>3 DEF AdminRefund
      <3>4. StartsRefunding(p)
        BY <3>1, <3>2, <3>3, RefundRequest
      <3>5. QED BY <3>4 DEF SoloStep
    <2>4. ASSUME NEW b \in Bookings, NEW n \in RefundAmounts \union {0, Price},
                 CancelBooking(p, b, n)
          PROVE  SoloStep(payable)
      <3>1. /\ Idle
            /\ UNCHANGED <<intent, legs, returned, status, due, payments, refunds,
                           faultVars>>
        BY <2>1, <2>4 DEF CancelBooking, stripeVars, bookingVars,
                        ledgerVars, countVars
      <3>2. n \in 0 .. Price
        BY <1>c
      <3>3. status[b] \in {"PENDING_PAYMENT", "PAID"}
        BY <1>a, <2>4 DEF CancelBooking, SoloTypes, TableTypes, Status
      <3> DEFINE has == job[b] # "NONE"
      <3>4. has \in BOOLEAN
        OBVIOUS
      <3>5. LET a == [NoArg EXCEPT !.by = "cancelBooking", !.amount = n, !.job = has]
            IN StartRefund(p, b, a,
                           IF n > 0 THEN "refund.stripe" ELSE AfterRefund(a.job),
                           AfterRefund(a.job))
        BY <2>4 DEF CancelBooking
      <3> HIDE DEF has
      <3>6. StartsCancelling(p)
        BY <3>1, <3>2, <3>3, <3>4, <3>5, CancelRequest
      <3>7. QED BY <3>6 DEF SoloStep
    <2>5. ASSUME NEW i \in Intents, ConfirmGroupPayment(p, i)
          PROVE  FALSE
      BY <1>d, <2>1, <2>5 DEF ConfirmGroupPayment
    <2>6. ASSUME NEW i \in Intents, NEW b \in Bookings, ConfirmPayment(p, b, i)
          PROVE  FALSE
      BY <1>d, <2>1, <2>6 DEF ConfirmPayment
    <2>7. QED BY <1>6, <2>2, <2>3, <2>4, <2>5, <2>6 DEF StartRequest
  <1>7. ASSUME NEW p \in Procs, AwaitFails(p)
        PROVE  SoloStep(payable)
    <2>1. Throws(p)
      BY <1>7 DEF AwaitFails, Throws, stripeVars, bookingVars,
                        ledgerVars, countVars
    <2>2. QED BY <2>1 DEF SoloStep
  <1>8. CASE Crash
    <2>1. Dies
      BY <1>8 DEF Crash, Dies, stripeVars, bookingVars,
                        ledgerVars, countVars
    <2>2. QED BY <2>1 DEF SoloStep
  <1>9. ASSUME NEW p \in Procs, Continue(p)
        PROVE  SoloStep(payable)
    BY <1>9 DEF SoloStep
  <1>10. CASE UNCHANGED vars
    BY <1>a, <1>10, StutterIsSolo DEF SoloStep
  <1>11. QED BY <1>1, <1>3, <1>4, <1>5, <1>6, <1>7, <1>8, <1>9, <1>10
             DEF Next, Webhook

\* The steps of the scenario "retry".
LEMMA RetryHelpers ==
    /\ Retry!NoArg = NoArg
    /\ \A hasJob : Retry!AfterRefund(hasJob) = AfterRefund(hasJob)
    /\ \A i : Retry!AlreadyRecorded(i) <=> AlreadyRecorded(i)
    /\ \A p, step, a : Retry!GotoWith(p, step, a) <=> GotoWith(p, step, a)
    /\ \A p, step : Retry!Goto(p, step) <=> Goto(p, step)
    /\ \A p : Retry!Return(p) <=> Return(p)
    /\ \A p : Retry!RefundStepThrows(p) <=> RefundStepThrows(p)
    /\ \A p : Retry!ThenGroupStatus(p) <=> ThenGroupStatus(p)
    /\ \A p, b, a, step, unpaid :
         Retry!StartRefund(p, b, a, step, unpaid) <=> StartRefund(p, b, a, step, unpaid)
  <1>1. Retry!NoArg = NoArg /\ \A hasJob : Retry!AfterRefund(hasJob) = AfterRefund(hasJob)
    BY DEF NoArg, Retry!NoArg, AfterRefund, Retry!AfterRefund
  <1>2. \A i : Retry!AlreadyRecorded(i) <=> AlreadyRecorded(i)
    BY DEF AlreadyRecorded, Retry!AlreadyRecorded
  <1>3. \A p, step, a : Retry!GotoWith(p, step, a) <=> GotoWith(p, step, a)
    BY DEF GotoWith, Retry!GotoWith
  <1>4. \A p, step : Retry!Goto(p, step) <=> Goto(p, step)
    BY DEF Goto, Retry!Goto
  <1>5. \A p : Retry!Return(p) <=> Return(p)
    BY <1>1, <1>3 DEF Return, Retry!Return
  <1>6. \A p : Retry!RefundStepThrows(p) <=> RefundStepThrows(p)
    BY <1>1, <1>4, <1>5 DEF RefundStepThrows, Retry!RefundStepThrows
  <1>7. \A p : Retry!ThenGroupStatus(p) <=> ThenGroupStatus(p)
    BY <1>4, <1>5 DEF ThenGroupStatus, Retry!ThenGroupStatus, Grouped, Retry!Grouped
  <1>8. \A p, b, a, step, unpaid :
            Retry!StartRefund(p, b, a, step, unpaid) <=> StartRefund(p, b, a, step, unpaid)
    BY <1>3 DEF StartRefund, Retry!StartRefund
  <1>9. QED BY <1>1, <1>2, <1>3, <1>4, <1>5, <1>6, <1>7, <1>8

LEMMA RetryContinues ==
    ASSUME NEW p \in Procs, Retry!Continue(p)
    PROVE  Continue(p)
  <1> USE RetryHelpers
      DEF stripeVars, bookingVars, ledgerVars, countVars, faultVars,
          Retry!stripeVars, Retry!bookingVars, Retry!ledgerVars, Retry!countVars, Retry!faultVars
  <1>1. ASSUME NEW b \in Bookings, Retry!RecordPayment(p, b)
        PROVE  RecordPayment(p, b)
    BY <1>1 DEF RecordPayment, Retry!RecordPayment, AddPayment, Retry!AddPayment
  <1>2. ASSUME NEW b \in Bookings, Retry!CreateJob(p, b)
        PROVE  CreateJob(p, b)
    BY <1>2 DEF CreateJob, Retry!CreateJob
  <1>3. Retry!MarkPaid(p) => MarkPaid(p)
    BY DEF MarkPaid, Retry!MarkPaid, SetStatus, Retry!SetStatus
  <1>4. Retry!RecordChargeRefund(p) => RecordChargeRefund(p)
    BY DEF RecordChargeRefund, Retry!RecordChargeRefund
  <1>5. Retry!MarkChargeRefunded(p) => MarkChargeRefunded(p)
    BY DEF MarkChargeRefunded, Retry!MarkChargeRefunded, SetStatus, Retry!SetStatus
  <1>6. Retry!RefundAtStripe(p) => RefundAtStripe(p)
    BY DEF RefundAtStripe, Retry!RefundAtStripe, Send, Retry!Send, Charge, Retry!Charge,
           IsGroupIntent, Retry!IsGroupIntent, Grouped, Retry!Grouped
  <1>7. Retry!RecordRefund(p) => RecordRefund(p)
    BY DEF RecordRefund, Retry!RecordRefund
  <1>8. Retry!MarkRefunded(p) => MarkRefunded(p)
    BY DEF MarkRefunded, Retry!MarkRefunded, SetStatus, Retry!SetStatus
  <1>9. Retry!CancelJob(p) => CancelJob(p)
    BY DEF CancelJob, Retry!CancelJob
  <1>10. Retry!MarkCancelled(p) => MarkCancelled(p)
    BY DEF MarkCancelled, Retry!MarkCancelled, SetStatus, Retry!SetStatus
  <1>11. Retry!ReadGroup(p) => ReadGroup(p)
    BY DEF ReadGroup, Retry!ReadGroup, Inactive, Retry!Inactive
  <1>12. Retry!WriteGroup(p) => WriteGroup(p)
    BY DEF WriteGroup, Retry!WriteGroup
  <1>13. QED BY <1>1, <1>2, <1>3, <1>4, <1>5, <1>6, <1>7, <1>8, <1>9, <1>10,
                <1>11, <1>12 DEF Continue, Retry!Continue

LEMMA RetryIsSolo ==
    ASSUME SoloInv, WebhookOnly,
           Retry!Next
    PROVE  SoloStep(SUBSET Bookings)
  <1>a. SoloTypes
    BY DEF SoloInv
  <1>b. \A p \in Procs : Retry!Free(p) => Idle
    BY DEF Retry!Free, Retry!Idle, Idle, Retry!Procs, Procs
  <1>c. Price \in Nat /\ RefundAmounts \subseteq 1 .. Price
    BY PaymentsAssumption DEF PaymentsAssumption
  <1>d. "confirmPayment" \notin Requests /\ "confirmGroupPayment" \notin Requests
    BY DEF WebhookOnly
  <1>1. ASSUME NEW i \in Intents, Retry!Stripe(i)
        PROVE  SoloStep(SUBSET Bookings)
    <2>1. ASSUME NEW b \in Bookings, Retry!CreatePaymentIntent(i, b)
          PROVE  SoloStep(SUBSET Bookings)
      BY <2>1 DEF Retry!CreatePaymentIntent, CreateIntent, Retry!CreateIntent, stripeVars, bookingVars, ledgerVars,
                  procVars, countVars, faultVars, Retry!bookingVars, Retry!ledgerVars, Retry!procVars,
                  Retry!countVars, Retry!faultVars, SoloStep
    <2>2. CASE Retry!CreateGroupPaymentIntent(i)
      BY <2>2 DEF Retry!CreateGroupPaymentIntent, CreateIntent, Retry!CreateIntent, stripeVars, bookingVars, ledgerVars,
                  procVars, countVars, faultVars, Retry!bookingVars, Retry!ledgerVars, Retry!procVars,
                  Retry!countVars, Retry!faultVars, SoloStep
    <2>3. CASE Retry!PaymentSucceeds(i)
      BY <1>a, <2>3 DEF Retry!PaymentSucceeds, SoloStep, Rests, SoloTypes, TableTypes, procVars,
                        faultVars, Retry!bookingVars, Retry!ledgerVars, Retry!procVars,
                        Retry!stripeVars, Retry!countVars, Retry!faultVars
    <2>4. CASE Retry!PaymentFails(i)
      BY <1>a, <2>4 DEF Retry!PaymentFails, SoloStep, Rests, SoloTypes, TableTypes, procVars,
                        faultVars, Retry!bookingVars, Retry!ledgerVars, Retry!procVars,
                        Retry!stripeVars, Retry!countVars, Retry!faultVars
    <2>5. QED BY <1>1, <2>1, <2>2, <2>3, <2>4 DEF Retry!Stripe
  <1>2. ASSUME NEW h \in Procs, NEW kind, NEW i \in Intents, Retry!Receive(h, kind, i)
        PROVE  /\ Idle
               /\ UNCHANGED <<intent, legs, returned, status, due, faultVars>>
    BY <1>b, <1>2 DEF Retry!Receive, faultVars, Retry!bookingVars, Retry!ledgerVars, Retry!procVars,
                        Retry!stripeVars, Retry!countVars, Retry!faultVars
  <1>3. ASSUME NEW h \in Procs, NEW i \in Intents, Retry!PaymentSucceeded(h, i)
        PROVE  SoloStep(SUBSET Bookings)
    <2>1. /\ Idle
          /\ UNCHANGED <<intent, legs, returned, status, due, payments, refunds,
                         faultVars>>
      BY <1>2, <1>3 DEF Retry!PaymentSucceeded, Retry!bookingVars, Retry!ledgerVars, Retry!procVars,
                        Retry!stripeVars, Retry!countVars, Retry!faultVars
    <2>2. \/ UNCHANGED procVars
          \/ /\ ~AlreadyRecorded(i)
             /\ GotoWith(h, "hook.pay",
                         [NoArg EXCEPT !.intent = i, !.todo = legs[i]])
      BY RetryHelpers, <1>3 DEF Retry!PaymentSucceeded, Retry!procVars, procVars, faultVars, Retry!faultVars
    <2>3. QED BY <1>a, <2>1, <2>2, SucceededIsSolo DEF SoloStep
  <1>4. ASSUME NEW h \in Procs, NEW i \in Intents, Retry!PaymentFailed(h, i)
        PROVE  SoloStep(SUBSET Bookings)
    <2>1. UNCHANGED <<intent, legs, returned, status, due, payments, refunds,
                      procVars, faultVars>>
      BY <1>2, <1>4 DEF Retry!PaymentFailed, Retry!procVars, procVars, faultVars, Retry!faultVars
    <2>2. QED BY <1>a, <2>1 DEF SoloStep, Rests, SoloTypes, TableTypes
  <1>5. ASSUME NEW h \in Procs, NEW i \in Intents, Retry!ChargeRefunded(h, i)
        PROVE  SoloStep(SUBSET Bookings)
    <2>1. /\ Idle
          /\ UNCHANGED <<intent, legs, returned, status, due, payments, refunds,
                         faultVars>>
      BY <1>2, <1>5 DEF Retry!ChargeRefunded, Retry!bookingVars, Retry!ledgerVars, Retry!procVars,
                        Retry!stripeVars, Retry!countVars, Retry!faultVars
    <2>2. \/ UNCHANGED procVars
          \/ \E b \in Bookings :
               GotoWith(h, "refunded.record", [NoArg EXCEPT
                     !.intent = i, !.leg = b, !.amount = Price])
          \/ \E b \in legs[i] :
               GotoWith(h, "refunded.record", [NoArg EXCEPT
                     !.intent = i, !.leg = b])
      BY RetryHelpers, <1>5 DEF Retry!ChargeRefunded, Retry!procVars, procVars, faultVars, Retry!faultVars
    <2>3. QED BY <1>a, <2>1, <2>2, ChargeIsSolo DEF SoloStep
  <1>6. ASSUME NEW p \in Procs, Retry!StartRequest(p)
        PROVE  SoloStep(SUBSET Bookings)
    <2>1. ASSUME NEW name, Retry!Request(p, name)
          PROVE  Idle /\ name \in Requests /\ UNCHANGED faultVars
      BY <1>b, <2>1 DEF Retry!Request, faultVars, Retry!faultVars
    <2>2. ASSUME NEW b \in Bookings, Retry!RefundPayment(p, b)
          PROVE  SoloStep(SUBSET Bookings)
      <3>1. /\ Idle
            /\ UNCHANGED <<intent, legs, returned, status, due, payments, refunds,
                           faultVars>>
        BY <2>1, <2>2 DEF Retry!RefundPayment, Retry!bookingVars, Retry!ledgerVars, Retry!procVars,
                        Retry!stripeVars, Retry!countVars, Retry!faultVars
      <3>2. StartRefund(p, b, [NoArg EXCEPT !.by = "refundPayment", !.amount = Price],
                        "refund.stripe", "refund.record")
        BY RetryHelpers, <2>2 DEF Retry!RefundPayment
      <3>3. StartsRefunding(p)
        BY <1>c, <3>1, <3>2, RefundRequest
      <3>4. QED BY <3>3 DEF SoloStep
    <2>3. ASSUME NEW b \in Bookings, NEW n \in RefundAmounts \union {Price},
                 Retry!AdminRefund(p, b, n)
          PROVE  SoloStep(SUBSET Bookings)
      <3>1. /\ Idle
            /\ UNCHANGED <<intent, legs, returned, status, due, payments, refunds,
                           faultVars>>
        BY <2>1, <2>3 DEF Retry!AdminRefund, Retry!bookingVars, Retry!ledgerVars, Retry!procVars,
                        Retry!stripeVars, Retry!countVars, Retry!faultVars
      <3>2. n \in Nat
        BY <1>c
      <3>3. StartRefund(p, b, [NoArg EXCEPT !.by = "adminRefund", !.amount = n],
                        "refund.stripe", "refund.record")
        BY RetryHelpers, <2>3 DEF Retry!AdminRefund
      <3>4. StartsRefunding(p)
        BY <3>1, <3>2, <3>3, RefundRequest
      <3>5. QED BY <3>4 DEF SoloStep
    <2>4. ASSUME NEW b \in Bookings, NEW n \in RefundAmounts \union {0, Price},
                 Retry!CancelBooking(p, b, n)
          PROVE  SoloStep(SUBSET Bookings)
      <3>1. /\ Idle
            /\ UNCHANGED <<intent, legs, returned, status, due, payments, refunds,
                           faultVars>>
        BY <2>1, <2>4 DEF Retry!CancelBooking, Retry!bookingVars, Retry!ledgerVars, Retry!procVars,
                        Retry!stripeVars, Retry!countVars, Retry!faultVars
      <3>2. n \in 0 .. Price
        BY <1>c
      <3>3. status[b] \in {"PENDING_PAYMENT", "PAID"}
        BY <1>a, <2>4 DEF Retry!CancelBooking, SoloTypes, TableTypes, Status
      <3> DEFINE has == job[b] # "NONE"
      <3>4. has \in BOOLEAN
        OBVIOUS
      <3>5. LET a == [NoArg EXCEPT !.by = "cancelBooking", !.amount = n, !.job = has]
            IN StartRefund(p, b, a,
                           IF n > 0 THEN "refund.stripe" ELSE AfterRefund(a.job),
                           AfterRefund(a.job))
        BY RetryHelpers, <2>4 DEF Retry!CancelBooking
      <3> HIDE DEF has
      <3>6. StartsCancelling(p)
        BY <3>1, <3>2, <3>3, <3>4, <3>5, CancelRequest
      <3>7. QED BY <3>6 DEF SoloStep
    <2>5. ASSUME NEW i \in Intents, Retry!ConfirmGroupPayment(p, i)
          PROVE  FALSE
      BY <1>d, <2>1, <2>5 DEF Retry!ConfirmGroupPayment
    <2>6. ASSUME NEW i \in Intents, NEW b \in Bookings, Retry!ConfirmPayment(p, b, i)
          PROVE  FALSE
      BY <1>d, <2>1, <2>6 DEF Retry!ConfirmPayment
    <2>7. QED BY <1>6, <2>2, <2>3, <2>4, <2>5, <2>6 DEF Retry!StartRequest
  <1>7. ASSUME NEW p \in Procs, Retry!AwaitFails(p)
        PROVE  SoloStep(SUBSET Bookings)
    <2>1. Throws(p)
      BY RetryHelpers, <1>7 DEF Retry!AwaitFails, Throws, Retry!bookingVars, Retry!ledgerVars, Retry!procVars,
                        Retry!stripeVars, Retry!countVars, Retry!faultVars
    <2>2. QED BY <2>1 DEF SoloStep
  <1>8. CASE Retry!Crash
    <2>1. Dies
      BY RetryHelpers, <1>8 DEF Retry!Crash, Dies, Retry!Procs, Procs,
         Retry!bookingVars, Retry!ledgerVars, Retry!procVars,
                        Retry!stripeVars, Retry!countVars, Retry!faultVars
    <2>2. QED BY <2>1 DEF SoloStep
  <1>9. ASSUME NEW p \in Procs, Retry!Continue(p)
        PROVE  SoloStep(SUBSET Bookings)
    BY <1>9, RetryContinues DEF SoloStep
  <1>10. Retry!Procs = Procs
    BY DEF Retry!Procs, Procs
  <1>11. QED BY <1>1, <1>3, <1>4, <1>5, <1>6, <1>7, <1>8, <1>9, <1>10
             DEF Retry!Next, Retry!Webhook

\* The steps of the scenario "separate".
LEMMA SeparateHelpers ==
    /\ Separate!NoArg = NoArg
    /\ \A hasJob : Separate!AfterRefund(hasJob) = AfterRefund(hasJob)
    /\ \A i : Separate!AlreadyRecorded(i) <=> AlreadyRecorded(i)
    /\ \A p, step, a : Separate!GotoWith(p, step, a) <=> GotoWith(p, step, a)
    /\ \A p, step : Separate!Goto(p, step) <=> Goto(p, step)
    /\ \A p : Separate!Return(p) <=> Return(p)
    /\ \A p : Separate!RefundStepThrows(p) <=> RefundStepThrows(p)
    /\ \A p : Separate!ThenGroupStatus(p) <=> ThenGroupStatus(p)
    /\ \A p, b, a, step, unpaid :
         Separate!StartRefund(p, b, a, step, unpaid) <=> StartRefund(p, b, a, step, unpaid)
  <1>1. Separate!NoArg = NoArg /\ \A hasJob : Separate!AfterRefund(hasJob) = AfterRefund(hasJob)
    BY DEF NoArg, Separate!NoArg, AfterRefund, Separate!AfterRefund
  <1>2. \A i : Separate!AlreadyRecorded(i) <=> AlreadyRecorded(i)
    BY DEF AlreadyRecorded, Separate!AlreadyRecorded
  <1>3. \A p, step, a : Separate!GotoWith(p, step, a) <=> GotoWith(p, step, a)
    BY DEF GotoWith, Separate!GotoWith
  <1>4. \A p, step : Separate!Goto(p, step) <=> Goto(p, step)
    BY DEF Goto, Separate!Goto
  <1>5. \A p : Separate!Return(p) <=> Return(p)
    BY <1>1, <1>3 DEF Return, Separate!Return
  <1>6. \A p : Separate!RefundStepThrows(p) <=> RefundStepThrows(p)
    BY <1>1, <1>4, <1>5 DEF RefundStepThrows, Separate!RefundStepThrows
  <1>7. \A p : Separate!ThenGroupStatus(p) <=> ThenGroupStatus(p)
    BY <1>4, <1>5 DEF ThenGroupStatus, Separate!ThenGroupStatus, Grouped, Separate!Grouped
  <1>8. \A p, b, a, step, unpaid :
            Separate!StartRefund(p, b, a, step, unpaid) <=> StartRefund(p, b, a, step, unpaid)
    BY <1>3 DEF StartRefund, Separate!StartRefund
  <1>9. QED BY <1>1, <1>2, <1>3, <1>4, <1>5, <1>6, <1>7, <1>8

LEMMA SeparateContinues ==
    ASSUME NEW p \in Procs, Separate!Continue(p)
    PROVE  Continue(p)
  <1> USE SeparateHelpers
      DEF stripeVars, bookingVars, ledgerVars, countVars, faultVars,
          Separate!stripeVars, Separate!bookingVars, Separate!ledgerVars, Separate!countVars, Separate!faultVars
  <1>1. ASSUME NEW b \in Bookings, Separate!RecordPayment(p, b)
        PROVE  RecordPayment(p, b)
    BY <1>1 DEF RecordPayment, Separate!RecordPayment, AddPayment, Separate!AddPayment
  <1>2. ASSUME NEW b \in Bookings, Separate!CreateJob(p, b)
        PROVE  CreateJob(p, b)
    BY <1>2 DEF CreateJob, Separate!CreateJob
  <1>3. Separate!MarkPaid(p) => MarkPaid(p)
    BY DEF MarkPaid, Separate!MarkPaid, SetStatus, Separate!SetStatus
  <1>4. Separate!RecordChargeRefund(p) => RecordChargeRefund(p)
    BY DEF RecordChargeRefund, Separate!RecordChargeRefund
  <1>5. Separate!MarkChargeRefunded(p) => MarkChargeRefunded(p)
    BY DEF MarkChargeRefunded, Separate!MarkChargeRefunded, SetStatus, Separate!SetStatus
  <1>6. Separate!RefundAtStripe(p) => RefundAtStripe(p)
    BY DEF RefundAtStripe, Separate!RefundAtStripe, Send, Separate!Send, Charge, Separate!Charge,
           IsGroupIntent, Separate!IsGroupIntent, Grouped, Separate!Grouped
  <1>7. Separate!RecordRefund(p) => RecordRefund(p)
    BY DEF RecordRefund, Separate!RecordRefund
  <1>8. Separate!MarkRefunded(p) => MarkRefunded(p)
    BY DEF MarkRefunded, Separate!MarkRefunded, SetStatus, Separate!SetStatus
  <1>9. Separate!CancelJob(p) => CancelJob(p)
    BY DEF CancelJob, Separate!CancelJob
  <1>10. Separate!MarkCancelled(p) => MarkCancelled(p)
    BY DEF MarkCancelled, Separate!MarkCancelled, SetStatus, Separate!SetStatus
  <1>11. Separate!ReadGroup(p) => ReadGroup(p)
    BY DEF ReadGroup, Separate!ReadGroup, Inactive, Separate!Inactive
  <1>12. Separate!WriteGroup(p) => WriteGroup(p)
    BY DEF WriteGroup, Separate!WriteGroup
  <1>13. QED BY <1>1, <1>2, <1>3, <1>4, <1>5, <1>6, <1>7, <1>8, <1>9, <1>10,
                <1>11, <1>12 DEF Continue, Separate!Continue

LEMMA SeparateIsSolo ==
    ASSUME SoloInv,
           Separate!Next
    PROVE  SoloStep(One)
  <1>a. SoloTypes
    BY DEF SoloInv
  <1>b. \A p \in Procs : Separate!Free(p) => Idle
    BY DEF Separate!Free, Separate!Idle, Idle, Separate!Procs, Procs
  <1>c. Price \in Nat /\ RefundAmounts \subseteq 1 .. Price
    BY PaymentsAssumption DEF PaymentsAssumption
  <1>d. "confirmPayment" \notin SingleOnly /\ "confirmGroupPayment" \notin SingleOnly
    BY DEF SingleOnly
  <1>1. ASSUME NEW i \in Intents, Separate!Stripe(i)
        PROVE  SoloStep(One)
    <2>1. ASSUME NEW b \in Bookings, Separate!CreatePaymentIntent(i, b)
          PROVE  SoloStep(One)
      BY <2>1 DEF Separate!CreatePaymentIntent, CreateIntent, Separate!CreateIntent, stripeVars, bookingVars, ledgerVars,
                  procVars, countVars, faultVars, Separate!bookingVars, Separate!ledgerVars, Separate!procVars,
                  Separate!countVars, Separate!faultVars, SoloStep, One
    <2>2. CASE Separate!CreateGroupPaymentIntent(i)
      BY <2>2 DEF Separate!CreateGroupPaymentIntent, CreateIntent, Separate!CreateIntent, stripeVars, bookingVars, ledgerVars,
                  procVars, countVars, faultVars, Separate!bookingVars, Separate!ledgerVars, Separate!procVars,
                  Separate!countVars, Separate!faultVars, SoloStep, SingleOnly
    <2>3. CASE Separate!PaymentSucceeds(i)
      BY <1>a, <2>3 DEF Separate!PaymentSucceeds, SoloStep, Rests, SoloTypes, TableTypes, procVars,
                        faultVars, Separate!bookingVars, Separate!ledgerVars, Separate!procVars,
                        Separate!stripeVars, Separate!countVars, Separate!faultVars
    <2>4. CASE Separate!PaymentFails(i)
      BY <1>a, <2>4 DEF Separate!PaymentFails, SoloStep, Rests, SoloTypes, TableTypes, procVars,
                        faultVars, Separate!bookingVars, Separate!ledgerVars, Separate!procVars,
                        Separate!stripeVars, Separate!countVars, Separate!faultVars
    <2>5. QED BY <1>1, <2>1, <2>2, <2>3, <2>4 DEF Separate!Stripe
  <1>2. ASSUME NEW h \in Procs, NEW kind, NEW i \in Intents, Separate!Receive(h, kind, i)
        PROVE  /\ Idle
               /\ UNCHANGED <<intent, legs, returned, status, due, faultVars>>
    BY <1>b, <1>2 DEF Separate!Receive, faultVars, Separate!bookingVars, Separate!ledgerVars, Separate!procVars,
                        Separate!stripeVars, Separate!countVars, Separate!faultVars
  <1>3. ASSUME NEW h \in Procs, NEW i \in Intents, Separate!PaymentSucceeded(h, i)
        PROVE  SoloStep(One)
    <2>1. /\ Idle
          /\ UNCHANGED <<intent, legs, returned, status, due, payments, refunds,
                         faultVars>>
      BY <1>2, <1>3 DEF Separate!PaymentSucceeded, Separate!bookingVars, Separate!ledgerVars, Separate!procVars,
                        Separate!stripeVars, Separate!countVars, Separate!faultVars
    <2>2. \/ UNCHANGED procVars
          \/ /\ ~AlreadyRecorded(i)
             /\ GotoWith(h, "hook.pay",
                         [NoArg EXCEPT !.intent = i, !.todo = legs[i]])
      BY SeparateHelpers, <1>3 DEF Separate!PaymentSucceeded, Separate!procVars, procVars, faultVars, Separate!faultVars
    <2>3. QED BY <1>a, <2>1, <2>2, SucceededIsSolo DEF SoloStep
  <1>4. ASSUME NEW h \in Procs, NEW i \in Intents, Separate!PaymentFailed(h, i)
        PROVE  SoloStep(One)
    <2>1. UNCHANGED <<intent, legs, returned, status, due, payments, refunds,
                      procVars, faultVars>>
      BY <1>2, <1>4 DEF Separate!PaymentFailed, Separate!procVars, procVars, faultVars, Separate!faultVars
    <2>2. QED BY <1>a, <2>1 DEF SoloStep, Rests, SoloTypes, TableTypes
  <1>5. ASSUME NEW h \in Procs, NEW i \in Intents, Separate!ChargeRefunded(h, i)
        PROVE  SoloStep(One)
    <2>1. /\ Idle
          /\ UNCHANGED <<intent, legs, returned, status, due, payments, refunds,
                         faultVars>>
      BY <1>2, <1>5 DEF Separate!ChargeRefunded, Separate!bookingVars, Separate!ledgerVars, Separate!procVars,
                        Separate!stripeVars, Separate!countVars, Separate!faultVars
    <2>2. \/ UNCHANGED procVars
          \/ \E b \in Bookings :
               GotoWith(h, "refunded.record", [NoArg EXCEPT
                     !.intent = i, !.leg = b, !.amount = Price])
          \/ \E b \in legs[i] :
               GotoWith(h, "refunded.record", [NoArg EXCEPT
                     !.intent = i, !.leg = b])
      BY SeparateHelpers, <1>5 DEF Separate!ChargeRefunded, Separate!procVars, procVars, faultVars, Separate!faultVars
    <2>3. QED BY <1>a, <2>1, <2>2, ChargeIsSolo DEF SoloStep
  <1>6. ASSUME NEW p \in Procs, Separate!StartRequest(p)
        PROVE  SoloStep(One)
    <2>1. ASSUME NEW name, Separate!Request(p, name)
          PROVE  Idle /\ name \in SingleOnly /\ UNCHANGED faultVars
      BY <1>b, <2>1 DEF Separate!Request, faultVars, Separate!faultVars
    <2>2. ASSUME NEW b \in Bookings, Separate!RefundPayment(p, b)
          PROVE  SoloStep(One)
      <3>1. /\ Idle
            /\ UNCHANGED <<intent, legs, returned, status, due, payments, refunds,
                           faultVars>>
        BY <2>1, <2>2 DEF Separate!RefundPayment, Separate!bookingVars, Separate!ledgerVars, Separate!procVars,
                        Separate!stripeVars, Separate!countVars, Separate!faultVars
      <3>2. StartRefund(p, b, [NoArg EXCEPT !.by = "refundPayment", !.amount = Price],
                        "refund.stripe", "refund.record")
        BY SeparateHelpers, <2>2 DEF Separate!RefundPayment
      <3>3. StartsRefunding(p)
        BY <1>c, <3>1, <3>2, RefundRequest
      <3>4. QED BY <3>3 DEF SoloStep
    <2>3. ASSUME NEW b \in Bookings, NEW n \in RefundAmounts \union {Price},
                 Separate!AdminRefund(p, b, n)
          PROVE  SoloStep(One)
      <3>1. /\ Idle
            /\ UNCHANGED <<intent, legs, returned, status, due, payments, refunds,
                           faultVars>>
        BY <2>1, <2>3 DEF Separate!AdminRefund, Separate!bookingVars, Separate!ledgerVars, Separate!procVars,
                        Separate!stripeVars, Separate!countVars, Separate!faultVars
      <3>2. n \in Nat
        BY <1>c
      <3>3. StartRefund(p, b, [NoArg EXCEPT !.by = "adminRefund", !.amount = n],
                        "refund.stripe", "refund.record")
        BY SeparateHelpers, <2>3 DEF Separate!AdminRefund
      <3>4. StartsRefunding(p)
        BY <3>1, <3>2, <3>3, RefundRequest
      <3>5. QED BY <3>4 DEF SoloStep
    <2>4. ASSUME NEW b \in Bookings, NEW n \in RefundAmounts \union {0, Price},
                 Separate!CancelBooking(p, b, n)
          PROVE  SoloStep(One)
      <3>1. /\ Idle
            /\ UNCHANGED <<intent, legs, returned, status, due, payments, refunds,
                           faultVars>>
        BY <2>1, <2>4 DEF Separate!CancelBooking, Separate!bookingVars, Separate!ledgerVars, Separate!procVars,
                        Separate!stripeVars, Separate!countVars, Separate!faultVars
      <3>2. n \in 0 .. Price
        BY <1>c
      <3>3. status[b] \in {"PENDING_PAYMENT", "PAID"}
        BY <1>a, <2>4 DEF Separate!CancelBooking, SoloTypes, TableTypes, Status
      <3> DEFINE has == job[b] # "NONE"
      <3>4. has \in BOOLEAN
        OBVIOUS
      <3>5. LET a == [NoArg EXCEPT !.by = "cancelBooking", !.amount = n, !.job = has]
            IN StartRefund(p, b, a,
                           IF n > 0 THEN "refund.stripe" ELSE AfterRefund(a.job),
                           AfterRefund(a.job))
        BY SeparateHelpers, <2>4 DEF Separate!CancelBooking
      <3> HIDE DEF has
      <3>6. StartsCancelling(p)
        BY <3>1, <3>2, <3>3, <3>4, <3>5, CancelRequest
      <3>7. QED BY <3>6 DEF SoloStep
    <2>5. ASSUME NEW i \in Intents, Separate!ConfirmGroupPayment(p, i)
          PROVE  FALSE
      BY <1>d, <2>1, <2>5 DEF Separate!ConfirmGroupPayment
    <2>6. ASSUME NEW i \in Intents, NEW b \in Bookings, Separate!ConfirmPayment(p, b, i)
          PROVE  FALSE
      BY <1>d, <2>1, <2>6 DEF Separate!ConfirmPayment
    <2>7. QED BY <1>6, <2>2, <2>3, <2>4, <2>5, <2>6 DEF Separate!StartRequest
  <1>7. ASSUME NEW p \in Procs, Separate!AwaitFails(p)
        PROVE  SoloStep(One)
    <2>1. Throws(p)
      BY SeparateHelpers, <1>7 DEF Separate!AwaitFails, Throws, Separate!bookingVars, Separate!ledgerVars, Separate!procVars,
                        Separate!stripeVars, Separate!countVars, Separate!faultVars
    <2>2. QED BY <2>1 DEF SoloStep
  <1>8. CASE Separate!Crash
    <2>1. Dies
      BY SeparateHelpers, <1>8 DEF Separate!Crash, Dies, Separate!Procs, Procs,
         Separate!bookingVars, Separate!ledgerVars, Separate!procVars,
                        Separate!stripeVars, Separate!countVars, Separate!faultVars
    <2>2. QED BY <2>1 DEF SoloStep
  <1>9. ASSUME NEW p \in Procs, Separate!Continue(p)
        PROVE  SoloStep(One)
    BY <1>9, SeparateContinues DEF SoloStep
  <1>10. Separate!Procs = Procs
    BY DEF Separate!Procs, Procs
  <1>11. QED BY <1>1, <1>3, <1>4, <1>5, <1>6, <1>7, <1>8, <1>9, <1>10
             DEF Separate!Next, Separate!Webhook

\* "No duplicate transactions created" (PAYMENT_FLOW_BUG_FIX.md:339): when
\* handlers do not overlap and the webhook alone confirms payments, an intent
\* is recorded at most once for each booking, with any number of duplicate
\* deliveries, errors, crashes, declined attempts, bookings and intents
\* (stripe-webhook.controller.ts:90-111).
THEOREM RecordedOnce ==
    ASSUME Overlap = FALSE, WebhookOnly
    PROVE  Spec => []PaidOnce
  <1>1. Init => SoloInv
    BY SoloInit
  <1>2. SoloInv /\ [Next]_vars => SoloInv'
    <2> SUFFICES ASSUME SoloInv, [Next]_vars PROVE SoloInv'
      OBVIOUS
    <2> DEFINE payable == SUBSET Bookings
    <2>1. (\A b \in Bookings : {b} \in payable) /\ Bookings \in payable
      OBVIOUS
    <2>2. payable \in SUBSET SUBSET Bookings
      OBVIOUS
    <2> HIDE DEF payable
    <2>3. SoloStep(payable)
      BY <2>1, NextIsSolo
    <2>4. QED BY <2>2, <2>3, StepOnce
  <1>3. SoloInv => PaidOnce
    BY DEF SoloInv
  <1>4. QED BY <1>1, <1>2, <1>3, PTL DEF Spec

\* The refund that a cancellation writes on the booking, and tells the
\* customer, was made, when handlers do not overlap, the webhook alone
\* confirms payments, legs are paid one by one, no await failed and no booking
\* was paid by two intents (bookings.service.ts:952-1012).  With two intents
\* it may be lost: a partial refund of the first, the event of the second,
\* which makes the booking PAID again, and a cancellation whose refund of the
\* first Stripe refuses.
THEOREM PromiseKept ==
    ASSUME Overlap = FALSE, WebhookOnly, Singles
    PROVE  Spec => [](Sole => PromisedRefundMade)
  <1> DEFINE Inv == SoloInv /\ RefundInv
  <1>1. Init => Inv
    BY SoloInit
  <1>2. Inv /\ [Next]_vars => Inv'
    <2> SUFFICES ASSUME SoloInv, RefundInv, [Next]_vars
                 PROVE  SoloInv' /\ RefundInv'
      OBVIOUS
    <2>1. \A b \in Bookings : {b} \in One
      BY DEF One
    <2>2. ~("createGroupPaymentIntent" \in Requests /\ Grouped)
      BY DEF Singles
    <2>3. One \in SUBSET SUBSET Bookings
      BY DEF One
    <2>4. SoloStep(One)
      BY <2>1, <2>2, NextIsSolo
    <2>5. QED BY <2>3, <2>4, StepOnce, StepRefunds
  <1>3. Inv => (Sole => PromisedRefundMade)
    BY RefundsMade
  <1> HIDE DEF Inv
  <1>4. QED BY <1>1, <1>2, <1>3, PTL DEF Spec

\* What the steps of the scenarios "retry" and "separate" preserve.
OneByOneInv == scenario # "journey" => SoloInv
SeparateInv == scenario = "separate" => SoloInv /\ RefundInv

LEMMA SeparateInvHolds == ScenarioSpec => []SeparateInv
  <1>1. ScenarioInit => SeparateInv
    BY SoloInit DEF ScenarioInit, SeparateInv
  <1>2. SeparateInv /\ [ScenarioNext]_<<vars, scenario>> => SeparateInv'
    <2> SUFFICES ASSUME SeparateInv, [ScenarioNext]_<<vars, scenario>>,
                        scenario = "separate", scenario' = scenario
                 PROVE  SoloInv' /\ RefundInv'
      BY DEF SeparateInv, ScenarioNext
    <2>1. SoloInv /\ RefundInv
      BY DEF SeparateInv
    <2>2. SoloStep(One)
      <3>1. CASE UNCHANGED vars
        BY <2>1, <3>1, StutterIsSolo DEF SoloInv, SoloStep
      <3>2. CASE Separate!Next
        BY <2>1, <3>2, SeparateIsSolo
      <3>3. QED BY <3>1, <3>2 DEF ScenarioNext
    <2>3. One \in SUBSET SUBSET Bookings
      BY DEF One
    <2>4. QED BY <2>1, <2>2, <2>3, StepOnce, StepRefunds
  <1>3. QED BY <1>1, <1>2, PTL DEF ScenarioSpec

LEMMA OneByOneInvHolds ==
    ASSUME WebhookOnly
    PROVE  ScenarioSpec => []OneByOneInv
  <1>1. ScenarioInit => OneByOneInv
    BY SoloInit DEF OneByOneInv, ScenarioInit
  <1>2. OneByOneInv /\ [ScenarioNext]_<<vars, scenario>> => OneByOneInv'
    <2> SUFFICES ASSUME OneByOneInv, [ScenarioNext]_<<vars, scenario>>,
                        scenario # "journey", scenario' = scenario
                 PROVE  SoloInv'
      BY DEF OneByOneInv, ScenarioNext
    <2>1. SoloInv
      BY DEF OneByOneInv
    <2>2. One \in SUBSET SUBSET Bookings
      BY DEF One
    <2>3. SUBSET Bookings \in SUBSET SUBSET Bookings
      OBVIOUS
    <2>4. SoloStep(One) \/ SoloStep(SUBSET Bookings)
      <3>1. CASE UNCHANGED vars
        BY <2>1, <3>1, StutterIsSolo DEF SoloInv, SoloStep
      <3>2. CASE Separate!Next
        BY <2>1, <3>2, SeparateIsSolo
      <3>3. CASE Retry!Next
        BY <2>1, <3>3, RetryIsSolo
      <3>4. QED BY <3>1, <3>2, <3>3 DEF ScenarioNext
    <2>5. QED BY <2>1, <2>2, <2>3, <2>4, StepOnce
  <1>3. QED BY <1>1, <1>2, PTL DEF ScenarioSpec

\* The same in the scenarios "retry" and "separate", one call at a time with
\* a declined attempt, an await that throws, a crash and duplicates
\* (PAYMENT_FLOW_BUG_FIX.md:339).
THEOREM OneByOne ==
    ASSUME WebhookOnly
    PROVE  ScenarioSpec => []OneByOnePaidOnce
  <1>1. OneByOneInv => OneByOnePaidOnce
    BY DEF OneByOneInv, SoloInv, OneByOnePaidOnce
  <1>2. QED BY <1>1, OneByOneInvHolds, PTL

\* And the refund a cancellation promises, in the scenario "separate", where
\* no booking was paid by two intents (bookings.service.ts:952-1012).
THEOREM SeparatePromiseKept ==
    ScenarioSpec => [](Sole => SeparateRefundMade)
  <1>1. SeparateInv => (Sole => SeparateRefundMade)
    BY RefundsMade DEF SeparateInv, SeparateRefundMade
  <1>2. QED BY <1>1, SeparateInvHolds, PTL
=============================================================================
