---------------------------- MODULE JourneyProofs ----------------------------
(***************************************************************************)
(* Proofs about Journey: types, the tier of a refund, and, while no two    *)
(* handlers overlap, the end of a booking and the ratings; the reminders.  *)
(***************************************************************************)
EXTENDS Journey, FiniteSetTheorems, SequenceTheorems, TLAPS

----------------------------------------------------------------------------
(* Full hours, and the greatest of a bounded set of numbers *)

\* Division by the ticks of an hour.
LEMMA Quotient ==
    ASSUME NEW H \in Nat \ {0}, NEW a \in Nat
    PROVE  /\ a \div H \in Nat
           /\ a % H \in 0 .. (H - 1)
           /\ a = H * (a \div H) + (a % H)
<1>1. a \div H \in Nat BY SMT
<1>2. a % H \in 0 .. (H - 1) BY SMT
<1>3. a = H * (a \div H) + (a % H) BY SMT
<1>4. QED BY <1>1, <1>2, <1>3

\* Two full hours are an hour apart.
LEMMA MultiplesApart ==
    ASSUME NEW H \in Nat \ {0}, NEW a \in Nat, NEW b \in Nat,
           a % H = 0, b % H = 0, a < b
    PROVE  b - a >= H
<1> DEFINE k == a \div H  m == b \div H
<1>1. k \in Nat /\ a = H * k BY Quotient
<1>2. m \in Nat /\ b = H * m BY Quotient
<1> HIDE DEF k, m
<1>3. b - a = H * (m - k) BY <1>1, <1>2
<1>4. m - k >= 1
  <2>1. ASSUME m - k <= 0 PROVE FALSE
    <3>1. H * (m - k) <= 0 BY <1>1, <1>2, <2>1
    <3>2. QED BY <1>3, <3>1
  <2>2. QED BY <1>1, <1>2, <2>1
<1>5. H * (m - k) >= H BY <1>1, <1>2, <1>4
<1>6. QED BY <1>3, <1>5

\* k hours are a full hour ...
LEMMA MultipleOf == ASSUME NEW H \in Nat \ {0}, NEW k \in Nat PROVE (k * H) % H = 0
  BY SMT

\* ... and every window of one hour, open at its end, holds a full hour.
LEMMA MultipleInWindow ==
    ASSUME NEW H \in Nat \ {0}, NEW x \in Nat
    PROVE  \E T \in Nat : T % H = 0 /\ x <= T /\ T < x + H
<1>1. CASE x % H = 0 BY <1>1
<1>2. CASE x % H # 0
  <2> DEFINE k == x \div H
  <2>0. k \in Nat /\ x = H * k + (x % H) BY Quotient
  <2> HIDE DEF k
  <2>1. k \in Nat /\ x = k * H + (x % H) BY <2>0
  <2> DEFINE T == (k + 1) * H
  <2>2. T = k * H + H BY <2>1
  <2>3. T \in Nat /\ x <= T /\ T < x + H BY <1>2, <2>1, <2>2, Quotient
  <2>4. T % H = 0
    <3>1. k + 1 \in Nat BY <2>1
    <3>2. QED BY <3>1, MultipleOf
  <2>5. QED BY <2>3, <2>4
<1>3. QED BY <1>1, <1>2

\* A bounded set of numbers has a greatest one.
LEMMA Greatest ==
    ASSUME NEW T, T \subseteq Nat, T # {}, NEW h \in Nat,
           \A t \in T : t <= h
    PROVE  \E x \in T : \A y \in T : y <= x
<1> DEFINE D == {t .. h : t \in T}
           R == StrictSubsetOrdering(0 .. h)
           F == FiniteSubsetsOf(0 .. h)
<1>1. F = SUBSET (0 .. h)
  <2>1. IsFiniteSet(0 .. h) BY FS_Interval
  <2>2. QED BY <2>1, FS_FiniteSubsetsOfFinite
<1>2. D \subseteq F BY <1>1
<1>3. D # {} OBVIOUS
<1>4. IsWellFoundedOn(R, F) BY FS_StrictSubsetOrderingWellFounded
<1>5. PICK d \in D : \A e \in D : ~(<<e, d>> \in R)
  <2> HIDE DEF D, R, F
  <2> QED BY <1>2, <1>3, <1>4, WFMin
<1>6. PICK x \in T : d = x .. h BY <1>5
<1>7. ASSUME NEW y \in T, x < y PROVE FALSE
  <2>1. (y .. h) \subseteq (x .. h) BY <1>7
  <2>2. x \in x .. h /\ x \notin y .. h BY <1>7
  <2>3. y .. h # x .. h BY <2>2
  <2>4. (y .. h) \subseteq 0 .. h /\ (x .. h) \subseteq 0 .. h OBVIOUS
  <2>5. <<y .. h, x .. h>> \in R BY <2>1, <2>3, <2>4 DEF StrictSubsetOrdering
  <2>6. QED BY <1>5, <1>6, <2>5
<1>8. QED BY <1>7

----------------------------------------------------------------------------
(* The tier of a refund *)

\* Some tier that applies asks for the most hours.
LEMMA LongestTier ==
    ASSUME NEW h \in Nat, Applicable(h) # {}
    PROVE  \E q \in Applicable(h) :
                \A r \in Applicable(h) : r.hours <= q.hours
<1> DEFINE T == {q.hours : q \in Applicable(h)}
<1>1. T \subseteq Nat /\ T # {} BY JourneyAssumption DEF Applicable
<1>2. \A t \in T : t <= h BY JourneyAssumption DEF Applicable
<1>3. PICK x \in T : \A y \in T : y <= x
  <2> HIDE DEF T
  <2> QED BY <1>1, <1>2, Greatest
<1>4. QED BY <1>3

\* The loop's first tier that applies earns the most.
LEMMA BestTier ==
    ASSUME NEW h \in Nat
    PROVE  /\ CancellationRefund(h) \in 0 .. 100
           /\ CancellationRefund(h) =
                Max({q.percent : q \in Applicable(h)} \union {0})
<1> DEFINE S == {q.percent : q \in Applicable(h)} \union {0}
           c == CancellationRefund(h)
<1>1. c \in S /\ c \in 0 .. 100 /\ \A y \in S : c >= y
  <2>1. CASE Applicable(h) = {} BY <2>1 DEF CancellationRefund
  <2>2. CASE Applicable(h) # {}
    <3> DEFINE First(q) == \A r \in Applicable(h) : r.hours <= q.hours
               best == CHOOSE q \in Applicable(h) : First(q)
    <3>1. best \in Applicable(h) /\ First(best) BY <2>2, LongestTier
    <3>2. c = best.percent BY <2>2 DEF CancellationRefund
    <3>3. best.percent \in 0 .. 100 BY <3>1, JourneyAssumption DEF Applicable
    <3>4. \A q \in Applicable(h) : q.percent <= best.percent
      BY <3>1, PoliciesAreTiers DEF Applicable
    <3>5. \A q \in Applicable(h) : q.percent \in 0 .. 100
      BY JourneyAssumption DEF Applicable
    <3> HIDE DEF best, c
    <3>6. QED BY <3>1, <3>2, <3>3, <3>4, <3>5
  <2>3. QED BY <2>1, <2>2
<1>2. S \subseteq 0 .. 100 BY JourneyAssumption DEF Applicable
<1> HIDE DEF S, c
<1>3. \A x \in S : (\A y \in S : x >= y) => x = c
  BY <1>1, <1>2
<1>4. c = Max(S) BY <1>1, <1>3 DEF Max
<1>5. QED BY <1>1, <1>4 DEF S, c
\* So the refund is a percentage.
LEMMA TierIsPercent ==
    ASSUME NEW h \in Nat PROVE CancellationRefund(h) \in 0 .. 100
BY BestTier

----------------------------------------------------------------------------
(* Types, and what a handler holds between its awaits *)

CancelPCs == {"cancel.job", "cancel.booking"}

\* What the handler p has read or was given, whatever the others do: a
\* pickup time to write; the tier of a cancellation, of the notice counted
\* from the pickup it read; that the job has an operator; a rating.
Holds(p) ==
    /\ pc[p] = "remind" => p = Cron
    /\ pc[p] = "update" => arg[p].at \in Pickups
    /\ pc[p] \in CancelPCs =>
            /\ arg[p].at \in Pickups /\ now < arg[p].at
            /\ arg[p].value = CancellationRefund(arg[p].at - now)
    /\ pc[p] \in {"details", "complete", "confirm", "reject"} => assigned
    /\ pc[p] \in {"rate", "rate.read"} => arg[p].value \in Ratings

\* A job under way has an operator, and a booking whose job has one is PAID
\* no more.
OperatorShown ==
    /\ jobStatus \notin {"OPEN_FOR_BIDDING", "CANCELLED"} => assigned
    /\ assigned => status # "PAID"

HeldInv == TypeOK /\ OperatorShown /\ \A p \in Procs : Holds(p)

USE JourneyAssumption DEF Procs, Times, OrNone

\* No handler runs at the start, and the job has no operator.
LEMMA InitHeld == Init => HeldInv
<1> SUFFICES ASSUME Init PROVE HeldInv OBVIOUS
<1>1. NoArg \in Arg BY EmptySeq DEF NoArg, Arg, Jobs
<1>2. TypeOK
  <2>1. pc \in [Procs -> PC] /\ arg \in [Procs -> Arg]
    BY <1>1 DEF Init, PC
  <2>2. status \in BookingStatus /\ jobStatus \in JobStatus
    BY DEF Init, BookingStatus, JobStatus
  <2>3. reputation \in Seq(Ratings) BY EmptySeq DEF Init
  <2>4. now \in Times /\ pickup \in Pickups /\ pickupSince \in Times BY DEF Init
  <2>5. rating \in [Jobs -> OrNone(Ratings)] BY DEF Init
  <2>6. reminders \in [Pickups -> Nat] BY DEF Init
  <2>7. /\ arrivedAt \in OrNone(Times) /\ waiting \in Nat
        /\ refund \in OrNone(0 .. 100) /\ assigned \in BOOLEAN
        /\ cronDue \in BOOLEAN /\ overlapped \in BOOLEAN BY DEF Init
  <2>8. QED BY <2>1, <2>2, <2>3, <2>4, <2>5, <2>6, <2>7 DEF TypeOK
<1>3. OperatorShown /\ \A p \in Procs : Holds(p)
  BY DEF Init, OperatorShown, Holds, CancelPCs
<1>4. QED BY <1>2, <1>3 DEF HeldInv

\* The first step of a handler that only reads.
LEMMA StartKeepsHeld ==
    ASSUME HeldInv, NEW p \in Clients, NEW name, NEW step \in PC \ {"remind"},
           NEW a \in Arg, Start(p, name, step, a),
           step = "update" => a.at \in Pickups,
           step \in CancelPCs =>
                /\ a.at \in Pickups /\ now < a.at
                /\ a.value = CancellationRefund(a.at - now),
           step \in {"details", "complete", "confirm", "reject"} => assigned,
           step \in {"rate", "rate.read"} => a.value \in Ratings
    PROVE  HeldInv'
<1>1. pc' = [pc EXCEPT ![p] = step] /\ arg' = [arg EXCEPT ![p] = a]
  BY DEF Start, GotoWith
<1>2. UNCHANGED <<now, bookingVars, jobVars, ratingVars, cronVars, pickupSince>>
  BY DEF Start
<1>3. overlapped' \in BOOLEAN BY DEF Start, Request, Begin, HeldInv, TypeOK, Idle
<1>4. TypeOK'
  BY <1>1, <1>2, <1>3 DEF HeldInv, TypeOK, bookingVars, jobVars, ratingVars, cronVars
<1>5. OperatorShown' BY <1>2 DEF HeldInv, OperatorShown, bookingVars, jobVars
<1>6. ASSUME NEW q \in Procs PROVE Holds(q)'
  <2>1. CASE q = p
    <3>1. pc'[p] = step /\ arg'[p] = a BY <1>1 DEF HeldInv, TypeOK
    <3>2. QED BY <2>1, <3>1, <1>2 DEF Holds, jobVars
  <2>2. CASE q # p
    <3>1. pc'[q] = pc[q] /\ arg'[q] = arg[q] BY <2>2, <1>1 DEF HeldInv, TypeOK
    <3>2. QED BY <3>1, <1>2 DEF HeldInv, Holds, jobVars
  <2>3. QED BY <2>1, <2>2
<1>7. QED BY <1>4, <1>5, <1>6 DEF HeldInv

\* A request that starts.
LEMMA StartRequestKeepsHeld ==
    ASSUME HeldInv, NEW p \in Clients, StartRequest(p)
    PROVE  HeldInv'
<1>1. NoArg \in Arg BY EmptySeq DEF NoArg, Arg, Jobs
<1>2. {"update", "cancel.job", "noShow", "refund", "pickup", "details",
       "complete", "confirm", "reject", "rate"} \subseteq PC \ {"remind"}
  BY DEF PC
<1>3. ASSUME NEW t \in Pickups, NEW role \in {"CUSTOMER", "ADMIN"}, Update(p, t, role)
      PROVE  HeldInv'
  <2> DEFINE a == [NoArg EXCEPT !.at = t]
  <2>1. a \in Arg /\ a.at = t BY <1>1 DEF Arg
  <2>2. Start(p, "update", "update", a) BY <1>3 DEF Update
  <2> HIDE DEF a
  <2>3. QED BY <1>2, <2>1, <2>2, StartKeepsHeld DEF CancelPCs
<1>4. CASE Cancel(p)
  <2> DEFINE v == CancellationRefund(pickup - now)
             a == [NoArg EXCEPT !.at = pickup, !.value = v]
  <2>1. pickup \in Pickups /\ now \in Nat /\ pickup \in Nat /\ now < pickup
    BY <1>4 DEF Cancel, HeldInv, TypeOK
  <2>2. pickup - now \in Nat BY <2>1
  <2>3. v \in Nat BY <2>2, TierIsPercent
  <2> HIDE DEF v
  <2>4. a \in Arg /\ a.at = pickup /\ a.value = v BY <1>1, <2>1, <2>3 DEF Arg
  <2>5. Start(p, "cancel", "cancel.job", a) BY <1>4 DEF Cancel, v
  <2> HIDE DEF a
  <2>6. QED BY <1>2, <2>1, <2>4, <2>5, StartKeepsHeld DEF v
<1>5. CASE MarkAsNoShow(p) \/ Refund(p)
  <2>1. Start(p, "noShow", "noShow", NoArg) \/ Start(p, "refund", "refund", NoArg)
    BY <1>5 DEF MarkAsNoShow, Refund
  <2>2. QED BY <1>1, <1>2, <2>1, StartKeepsHeld DEF CancelPCs
<1>6. CASE RecordDriverArrival(p)
  <2>1. /\ UNCHANGED <<now, status, pickup, waiting, refund, jobVars,
                       ratingVars, cronVars, pickupSince, procVars>>
        /\ arrivedAt' = now /\ overlapped' \in BOOLEAN
    BY <1>6 DEF RecordDriverArrival, Request, Begin, HeldInv, TypeOK, Idle
  <2>2. TypeOK'
    BY <2>1 DEF HeldInv, TypeOK, jobVars, ratingVars, cronVars, procVars
  <2>3. OperatorShown' /\ \A q \in Procs : Holds(q)'
    BY <2>1 DEF HeldInv, OperatorShown, Holds, jobVars, procVars
  <2>4. QED BY <2>2, <2>3 DEF HeldInv
<1>7. CASE RecordPassengerPickup(p)
  <2> DEFINE v == WaitingCharges(now - arrivedAt)
             a == [NoArg EXCEPT !.value = v]
  <2>1. now \in Nat /\ arrivedAt \in Nat
    BY <1>7 DEF RecordPassengerPickup, HeldInv, TypeOK
  <2>2. v \in Nat BY <2>1 DEF WaitingCharges
  <2> HIDE DEF v
  <2>3. a \in Arg BY <1>1, <2>2 DEF Arg
  <2>4. Start(p, "pickup", "pickup", a) BY <1>7 DEF RecordPassengerPickup, v
  <2> HIDE DEF a
  <2>5. QED BY <1>2, <2>3, <2>4, StartKeepsHeld DEF CancelPCs
<1>8. CASE AssignJob(p)
  <2>1. /\ UNCHANGED <<now, pickup, arrivedAt, waiting, refund, ratingVars,
                       cronVars, pickupSince, procVars>>
        /\ jobStatus' = "ASSIGNED" /\ status' = "ASSIGNED" /\ assigned' = TRUE
        /\ overlapped' \in BOOLEAN
    BY <1>8 DEF AssignJob, Request, Begin, HeldInv, TypeOK, Idle
  <2>2. TypeOK'
    BY <2>1 DEF HeldInv, TypeOK, BookingStatus, JobStatus, ratingVars, cronVars, procVars
  <2>3. OperatorShown' /\ \A q \in Procs : Holds(q)'
    BY <2>1 DEF HeldInv, OperatorShown, Holds, procVars
  <2>4. QED BY <2>2, <2>3 DEF HeldInv
<1>9. CASE SubmitDriverDetails(p) \/ CompleteJob(p) \/ ReviewCompletion(p)
  <2>1. assigned BY <1>9 DEF SubmitDriverDetails, CompleteJob, ReviewCompletion,
                          HeldInv, OperatorShown
  <2>2. PICK step \in {"details", "complete", "confirm", "reject"} :
            Start(p, step, step, NoArg)
    BY <1>9 DEF SubmitDriverDetails, CompleteJob, ReviewCompletion
  <2>3. QED BY <1>1, <1>2, <2>1, <2>2, StartKeepsHeld DEF CancelPCs
<1>10. ASSUME NEW j \in Jobs, NEW r \in Ratings, RateJob(p, j, r)
       PROVE  HeldInv'
  <2> DEFINE a == [NoArg EXCEPT !.job = j, !.value = r]
  <2>1. a \in Arg /\ a.value = r BY <1>1 DEF Arg
  <2>2. Start(p, "rate", "rate", a) BY <1>10 DEF RateJob
  <2> HIDE DEF a
  <2>3. QED BY <1>2, <2>1, <2>2, StartKeepsHeld DEF CancelPCs
<1>11. QED
  BY <1>3, <1>4, <1>5, <1>6, <1>7, <1>8, <1>9, <1>10 DEF StartRequest

\* A handler that goes on or returns: what the other handlers hold depends
\* on the time and on the operator only.
LEMMA OthersHold ==
    ASSUME HeldInv, NEW p \in Procs, NEW step, NEW a, GotoWith(p, step, a),
           now' = now, assigned' = assigned, Holds(p)'
    PROVE  \A q \in Procs : Holds(q)'
<1> SUFFICES ASSUME NEW q \in Procs, q # p PROVE Holds(q)' OBVIOUS
<1>1. pc'[q] = pc[q] /\ arg'[q] = arg[q] BY DEF GotoWith, HeldInv, TypeOK
<1>2. QED BY <1>1 DEF HeldInv, Holds

\* The process variables after a step to another pc.
LEMMA GotoTypes ==
    ASSUME HeldInv, NEW p \in Procs, NEW step \in PC, NEW a \in Arg,
           GotoWith(p, step, a)
    PROVE  /\ pc' \in [Procs -> PC] /\ arg' \in [Procs -> Arg]
           /\ pc'[p] = step /\ arg'[p] = a
BY DEF GotoWith, HeldInv, TypeOK

\* A request that goes on.
LEMMA ContinueKeepsHeld ==
    ASSUME HeldInv, NEW p \in Clients, Continue(p)
    PROVE  HeldInv'
<1>1. NoArg \in Arg BY EmptySeq DEF NoArg, Arg, Jobs
<1>2. {"idle", "cancel.booking", "rate.read", "rate.score"} \subseteq PC BY DEF PC
<1>3. arg[p] \in Arg /\ Holds(p) /\ p \in Procs BY DEF HeldInv, TypeOK
<1>4. ASSUME Return(p), now' = now, assigned' = assigned
      PROVE  /\ pc' \in [Procs -> PC] /\ arg' \in [Procs -> Arg]
             /\ \A q \in Procs : Holds(q)'
  <2>1. GotoWith(p, "idle", NoArg) BY <1>4 DEF Return
  <2>2. /\ pc' \in [Procs -> PC] /\ arg' \in [Procs -> Arg] /\ pc'[p] = "idle"
    BY <1>1, <1>2, <1>3, <2>1, GotoTypes
  <2>3. Holds(p)' BY <2>2 DEF Holds, CancelPCs
  <2>4. QED BY <1>3, <1>4, <2>1, <2>2, <2>3, OthersHold
<1>5. CASE WriteUpdate(p)
  <2>1. pickup' \in Pickups BY <1>3, <1>5 DEF WriteUpdate, Holds
  <2>2. /\ UNCHANGED <<now, status, arrivedAt, waiting, refund, jobVars,
                       ratingVars, cronVars, overlapped>>
        /\ pickupSince' = now /\ Return(p)
    BY <1>5 DEF WriteUpdate
  <2>3. TypeOK' BY <1>4, <2>1, <2>2 DEF HeldInv, TypeOK, jobVars, ratingVars, cronVars
  <2>4. QED BY <1>4, <2>2, <2>3 DEF HeldInv, OperatorShown, jobVars
<1>6. CASE WriteJobCancelled(p)
  <2>1. /\ UNCHANGED <<now, bookingVars, assigned, ratingVars, cronVars, historyVars>>
        /\ jobStatus' = "CANCELLED" /\ GotoWith(p, "cancel.booking", arg[p])
        /\ pc[p] = "cancel.job"
    BY <1>6 DEF WriteJobCancelled, Goto
  <2>2. /\ pc' \in [Procs -> PC] /\ arg' \in [Procs -> Arg]
        /\ pc'[p] = "cancel.booking" /\ arg'[p] = arg[p]
    BY <1>2, <1>3, <2>1, GotoTypes
  <2>3. Holds(p)' BY <1>3, <2>1, <2>2 DEF Holds, CancelPCs
  <2>4. \A q \in Procs : Holds(q)' BY <1>3, <2>1, <2>3, OthersHold
  <2>5. TypeOK' BY <2>1, <2>2 DEF HeldInv, TypeOK, JobStatus, bookingVars,
                                   ratingVars, cronVars, historyVars
  <2>6. OperatorShown' BY <2>1 DEF HeldInv, OperatorShown, bookingVars
  <2>7. QED BY <2>4, <2>5, <2>6 DEF HeldInv
<1>7. CASE WriteCancelled(p)
  <2>1. /\ UNCHANGED <<now, pickup, arrivedAt, waiting, jobVars, ratingVars,
                       cronVars, historyVars>>
        /\ status' = "CANCELLED" /\ refund' = arg[p].value /\ Return(p)
        /\ pc[p] = "cancel.booking"
    BY <1>7 DEF WriteCancelled
  <2>2. arg[p].at - now \in Nat
    <3>1. arg[p].at \in Pickups /\ now < arg[p].at
      BY <1>3, <2>1 DEF Holds, CancelPCs
    <3>2. now \in Nat BY DEF HeldInv, TypeOK
    <3>3. Pickups \subseteq Nat OBVIOUS
    <3>4. arg[p].at \in Nat BY <3>1, <3>3
    <3>5. QED BY <3>1, <3>2, <3>4
  <2>3. refund' \in 0 .. 100
    <3>1. arg[p].value = CancellationRefund(arg[p].at - now)
      BY <1>3, <2>1 DEF Holds, CancelPCs
    <3>2. CancellationRefund(arg[p].at - now) \in 0 .. 100 BY <2>2, TierIsPercent
    <3>3. QED BY <2>1, <3>1, <3>2
  <2>4. TypeOK' BY <1>4, <2>1, <2>3 DEF HeldInv, TypeOK, BookingStatus, jobVars,
                                         ratingVars, cronVars, historyVars
  <2>5. OperatorShown' BY <2>1 DEF HeldInv, OperatorShown, jobVars
  <2>6. QED BY <1>4, <2>1, <2>4, <2>5 DEF HeldInv, jobVars
<1>8. CASE WriteNoShow(p) \/ WriteRefunded(p)
  <2>1. /\ UNCHANGED <<now, pickup, arrivedAt, waiting, refund, jobVars,
                       ratingVars, cronVars, historyVars>>
        /\ status' \in {"NO_SHOW", "REFUNDED"} /\ Return(p)
    BY <1>8 DEF WriteNoShow, WriteRefunded
  <2>2. TypeOK' BY <1>4, <2>1 DEF HeldInv, TypeOK, BookingStatus, jobVars,
                                   ratingVars, cronVars, historyVars
  <2>3. OperatorShown' BY <2>1 DEF HeldInv, OperatorShown, jobVars
  <2>4. QED BY <1>4, <2>1, <2>2, <2>3 DEF HeldInv, jobVars
<1>9. CASE WritePickup(p)
  <2>1. /\ UNCHANGED <<now, pickup, arrivedAt, refund, jobVars, ratingVars,
                       cronVars, historyVars>>
        /\ status' = "IN_PROGRESS" /\ waiting' = arg[p].value /\ Return(p)
    BY <1>9 DEF WritePickup
  <2>2. arg[p].value \in Nat BY <1>3 DEF Arg
  <2>3. TypeOK' BY <1>4, <2>1, <2>2 DEF HeldInv, TypeOK, BookingStatus, jobVars,
                                         ratingVars, cronVars, historyVars
  <2>4. OperatorShown' BY <2>1 DEF HeldInv, OperatorShown, jobVars
  <2>5. QED BY <1>4, <2>1, <2>3, <2>4 DEF HeldInv, jobVars
<1>10. CASE WriteDriverDetails(p) \/ WriteJobStatus(p)
  <2>1. /\ UNCHANGED <<now, bookingVars, assigned, ratingVars, cronVars, historyVars>>
        /\ jobStatus' \in {"IN_PROGRESS", "PENDING_COMPLETION"} /\ Return(p)
        /\ pc[p] \in {"details", "complete", "reject"}
    BY <1>10 DEF WriteDriverDetails, WriteJobStatus
  <2>2. assigned BY <1>3, <2>1 DEF Holds
  <2>3. TypeOK' BY <1>4, <2>1 DEF HeldInv, TypeOK, JobStatus, bookingVars,
                                   ratingVars, cronVars, historyVars
  <2>4. OperatorShown' BY <2>1, <2>2 DEF HeldInv, OperatorShown, bookingVars
  <2>5. QED BY <1>4, <2>1, <2>3, <2>4 DEF HeldInv
<1>11. CASE WriteConfirmed(p)
  <2>1. /\ UNCHANGED <<now, pickup, arrivedAt, waiting, refund, assigned,
                       ratingVars, cronVars, historyVars>>
        /\ jobStatus' = "COMPLETED" /\ status' = "COMPLETED" /\ Return(p)
        /\ pc[p] = "confirm"
    BY <1>11 DEF WriteConfirmed
  <2>2. assigned BY <1>3, <2>1 DEF Holds
  <2>3. TypeOK' BY <1>4, <2>1 DEF HeldInv, TypeOK, JobStatus, BookingStatus,
                                   ratingVars, cronVars, historyVars
  <2>4. OperatorShown' BY <2>1, <2>2 DEF HeldInv, OperatorShown
  <2>5. QED BY <1>4, <2>1, <2>3, <2>4 DEF HeldInv
<1>12. CASE WriteRating(p)
  <2>1. /\ UNCHANGED <<now, bookingVars, jobVars, reputation, cronVars, historyVars>>
        /\ rating' = [rating EXCEPT ![arg[p].job] = arg[p].value]
        /\ GotoWith(p, "rate.read", arg[p]) /\ pc[p] = "rate"
    BY <1>12 DEF WriteRating, Goto
  <2>2. arg[p].value \in Ratings BY <1>3, <2>1 DEF Holds
  <2>3. rating' \in [Jobs -> OrNone(Ratings)] BY <2>1, <2>2 DEF HeldInv, TypeOK
  <2>4. /\ pc' \in [Procs -> PC] /\ arg' \in [Procs -> Arg]
        /\ pc'[p] = "rate.read" /\ arg'[p] = arg[p]
    BY <1>2, <1>3, <2>1, GotoTypes
  <2>5. Holds(p)' BY <2>2, <2>4 DEF Holds, CancelPCs
  <2>6. \A q \in Procs : Holds(q)' BY <1>3, <2>1, <2>5, OthersHold DEF jobVars
  <2>7. TypeOK' BY <2>1, <2>3, <2>4 DEF HeldInv, TypeOK, bookingVars, jobVars,
                                         cronVars, historyVars
  <2>8. OperatorShown' BY <2>1 DEF HeldInv, OperatorShown, bookingVars, jobVars
  <2>9. QED BY <2>6, <2>7, <2>8 DEF HeldInv
<1>13. CASE ReadScore(p)
  <2> DEFINE s == Append(reputation, arg[p].value)
             a == [arg[p] EXCEPT !.score = s]
  <2>1. /\ UNCHANGED <<now, bookingVars, jobVars, ratingVars, cronVars, historyVars>>
        /\ GotoWith(p, "rate.score", a) /\ pc[p] = "rate.read"
    BY <1>13 DEF ReadScore
  <2>2. arg[p].value \in Ratings BY <1>3, <2>1 DEF Holds
  <2>3. s \in Seq(Ratings) BY <2>2, AppendProperties DEF HeldInv, TypeOK
  <2> HIDE DEF s
  <2>4. a \in Arg BY <1>3, <2>3 DEF Arg
  <2> HIDE DEF a
  <2>5. /\ pc' \in [Procs -> PC] /\ arg' \in [Procs -> Arg]
        /\ pc'[p] = "rate.score"
    BY <1>2, <1>3, <2>1, <2>4, GotoTypes
  <2>6. Holds(p)' BY <2>5 DEF Holds, CancelPCs
  <2>7. \A q \in Procs : Holds(q)' BY <1>3, <2>1, <2>6, OthersHold DEF jobVars
  <2>8. TypeOK' BY <2>1, <2>5 DEF HeldInv, TypeOK, bookingVars, jobVars,
                                   ratingVars, cronVars, historyVars
  <2>9. OperatorShown' BY <2>1 DEF HeldInv, OperatorShown, bookingVars, jobVars
  <2>10. QED BY <2>7, <2>8, <2>9 DEF HeldInv
<1>14. CASE WriteScore(p)
  <2>1. /\ UNCHANGED <<now, bookingVars, jobVars, rating, cronVars, historyVars>>
        /\ reputation' = arg[p].score /\ Return(p)
    BY <1>14 DEF WriteScore
  <2>2. arg[p].score \in Seq(Ratings) BY <1>3 DEF Arg
  <2>3. TypeOK' BY <1>4, <2>1, <2>2 DEF HeldInv, TypeOK, bookingVars, jobVars,
                                         cronVars, historyVars
  <2>4. OperatorShown' BY <2>1 DEF HeldInv, OperatorShown, bookingVars, jobVars
  <2>5. QED BY <1>4, <2>1, <2>3, <2>4 DEF HeldInv, jobVars
<1>15. QED
  BY <1>5, <1>6, <1>7, <1>8, <1>9, <1>10, <1>11, <1>12, <1>13, <1>14 DEF Continue

\* Time passes only while no handler runs.
LEMMA TickKeepsHeld ==
    ASSUME HeldInv, Tick PROVE HeldInv'
<1>1. /\ UNCHANGED <<bookingVars, jobVars, ratingVars, reminders, historyVars, procVars>>
      /\ now' = now + 1 /\ now < Horizon /\ cronDue' \in BOOLEAN
      /\ \A p \in Procs : pc[p] = "idle"
  BY DEF Tick, Idle
<1>2. now' \in Times BY <1>1 DEF HeldInv, TypeOK
<1>3. TypeOK' BY <1>1, <1>2 DEF HeldInv, TypeOK, bookingVars, jobVars,
                                 ratingVars, historyVars, procVars
<1>4. OperatorShown' BY <1>1 DEF HeldInv, OperatorShown, bookingVars, jobVars
<1>5. \A p \in Procs : Holds(p)' BY <1>1 DEF Holds, CancelPCs, procVars
<1>6. QED BY <1>3, <1>4, <1>5 DEF HeldInv

\* The scheduler looks for the booking, or sends its reminder.
LEMMA CronKeepsHeld ==
    ASSUME HeldInv, SendReminders \/ SendJourneyReminder PROVE HeldInv'
<1>1. NoArg \in Arg BY EmptySeq DEF NoArg, Arg, Jobs
<1>2. {"idle", "remind"} \subseteq PC /\ arg[Cron] \in Arg BY DEF PC, HeldInv, TypeOK
<1>3. CASE SendReminders
  <2>1. /\ UNCHANGED <<now, bookingVars, jobVars, ratingVars, reminders, pickupSince>>
        /\ cronDue' = FALSE /\ overlapped' \in BOOLEAN
    BY <1>3 DEF SendReminders, Begin, HeldInv, TypeOK, Idle
  <2>2. GotoWith(Cron, "remind", arg[Cron]) \/ UNCHANGED procVars
    BY <1>3 DEF SendReminders, Goto
  <2>3. CASE GotoWith(Cron, "remind", arg[Cron])
    <3>1. /\ pc' \in [Procs -> PC] /\ arg' \in [Procs -> Arg] /\ pc'[Cron] = "remind"
      BY <1>2, <2>3, GotoTypes
    <3>2. Holds(Cron)' BY <3>1 DEF Holds, CancelPCs
    <3>3. \A q \in Procs : Holds(q)' BY <2>1, <2>3, <3>2, OthersHold DEF jobVars
    <3>4. TypeOK' BY <2>1, <3>1 DEF HeldInv, TypeOK, bookingVars, jobVars, ratingVars
    <3>5. OperatorShown' BY <2>1 DEF HeldInv, OperatorShown, bookingVars, jobVars
    <3>6. QED BY <3>3, <3>4, <3>5 DEF HeldInv
  <2>4. CASE UNCHANGED procVars
    <3>1. TypeOK' BY <2>1, <2>4 DEF HeldInv, TypeOK, bookingVars, jobVars,
                                     ratingVars, procVars
    <3>2. OperatorShown' /\ \A q \in Procs : Holds(q)'
      BY <2>1, <2>4 DEF HeldInv, OperatorShown, Holds, bookingVars, jobVars, procVars
    <3>3. QED BY <3>1, <3>2 DEF HeldInv
  <2>5. QED BY <2>2, <2>3, <2>4
<1>4. CASE SendJourneyReminder
  <2>1. /\ UNCHANGED <<now, bookingVars, jobVars, ratingVars, cronDue, historyVars>>
        /\ reminders' = [reminders EXCEPT ![pickup] = @ + 1]
        /\ GotoWith(Cron, "idle", NoArg)
    BY <1>4 DEF SendJourneyReminder, Return
  <2>2. reminders' \in [Pickups -> Nat] BY <2>1 DEF HeldInv, TypeOK
  <2>3. /\ pc' \in [Procs -> PC] /\ arg' \in [Procs -> Arg] /\ pc'[Cron] = "idle"
    BY <1>1, <1>2, <2>1, GotoTypes
  <2>4. Holds(Cron)' BY <2>3 DEF Holds, CancelPCs
  <2>5. \A q \in Procs : Holds(q)' BY <2>1, <2>4, OthersHold DEF jobVars
  <2>6. TypeOK' BY <2>1, <2>2, <2>3 DEF HeldInv, TypeOK, bookingVars, jobVars,
                                         ratingVars, historyVars
  <2>7. OperatorShown' BY <2>1 DEF HeldInv, OperatorShown, bookingVars, jobVars
  <2>8. QED BY <2>5, <2>6, <2>7 DEF HeldInv
<1>5. QED BY <1>3, <1>4

\* Every step keeps the types and what the handlers hold.
LEMMA NextKeepsHeld == HeldInv /\ [Next]_vars => HeldInv'
<1> SUFFICES ASSUME HeldInv, [Next]_vars PROVE HeldInv' OBVIOUS
<1>1. CASE \E p \in Clients : StartRequest(p) \/ Continue(p)
  BY <1>1, StartRequestKeepsHeld, ContinueKeepsHeld
<1>2. CASE Tick BY <1>2, TickKeepsHeld
<1>3. CASE SendReminders \/ SendJourneyReminder BY <1>3, CronKeepsHeld
<1>4. CASE UNCHANGED vars
  BY <1>4 DEF HeldInv, TypeOK, OperatorShown, Holds, vars, bookingVars,
              jobVars, ratingVars, cronVars, historyVars, procVars
<1>5. QED BY <1>1, <1>2, <1>3, <1>4 DEF Next

\* The types and what the handlers hold are invariants.
LEMMA HeldAlways == Spec => []HeldInv
BY InitHeld, NextKeepsHeld, PTL DEF Spec

\* Every variable keeps its type.  (schema.prisma:216-293.)
THEOREM TypeCorrect == Spec => []TypeOK
<1>1. HeldInv => TypeOK BY DEF HeldInv
<1>2. QED BY <1>1, HeldAlways, PTL

----------------------------------------------------------------------------
(* The refund of a cancellation *)

\* Only the last write of a cancellation leaves "cancel.booking".
LEMMA RefundStep ==
    ASSUME HeldInv, [Next]_vars, NEW p \in Clients,
           pc[p] = "cancel.booking", pc'[p] = "idle"
    PROVE  refund' = arg[p].value
<1>1. ASSUME NEW q \in Procs, q # p, NEW step, NEW a, GotoWith(q, step, a)
      PROVE  FALSE
  <2>1. pc'[p] = pc[p] BY <1>1 DEF GotoWith, HeldInv, TypeOK
  <2>2. QED BY <2>1
<1>2. ASSUME NEW q \in Clients, StartRequest(q) PROVE FALSE
  <2>1. pc[q] = "idle" /\ q # p
    BY <1>2 DEF StartRequest, Update, Cancel, MarkAsNoShow, Refund,
                RecordDriverArrival, RecordPassengerPickup, AssignJob,
                SubmitDriverDetails, CompleteJob, ReviewCompletion, RateJob,
                Start, Request, Begin
  <2>2. \/ \E step, a : GotoWith(q, step, a)
        \/ UNCHANGED procVars
    BY <1>2 DEF StartRequest, Update, Cancel, MarkAsNoShow, Refund,
                RecordDriverArrival, RecordPassengerPickup, AssignJob,
                SubmitDriverDetails, CompleteJob, ReviewCompletion, RateJob,
                Start
  <2>3. QED BY <1>1, <2>1, <2>2 DEF procVars
<1>3. ASSUME NEW q \in Clients, Continue(q) PROVE refund' = arg[p].value
  <2>1. \E step, a : GotoWith(q, step, a)
    BY <1>3 DEF Continue, WriteUpdate, WriteJobCancelled, WriteCancelled,
                WriteNoShow, WriteRefunded, WritePickup, WriteDriverDetails,
                WriteJobStatus, WriteConfirmed, WriteRating, ReadScore,
                WriteScore, Goto, Return
  <2>2. q = p BY <1>1, <2>1
  <2>3. WriteCancelled(p)
    BY <1>3, <2>2 DEF Continue, WriteUpdate, WriteJobCancelled,
                WriteNoShow, WriteRefunded, WritePickup, WriteDriverDetails,
                WriteJobStatus, WriteConfirmed, WriteRating, ReadScore, WriteScore
  <2>4. QED BY <2>3 DEF WriteCancelled
<1>4. CASE Tick \/ UNCHANGED vars BY <1>4 DEF Tick, vars, procVars
<1>5. CASE SendReminders \/ SendJourneyReminder
  <2>1. \/ \E step, a : GotoWith(Cron, step, a)
        \/ UNCHANGED procVars
    BY <1>5 DEF SendReminders, SendJourneyReminder, Goto, Return
  <2>2. QED BY <1>1, <2>1 DEF procVars
<1>6. QED BY <1>2, <1>3, <1>4, <1>5 DEF Next

\* A cancellation returns the best percentage that its notice earns, however
\* requests overlap.  (bookings.service.ts:1051-1063.)
THEOREM BestTierRefunded == Spec => RefundIsBestTier
<1>1. HeldInv /\ [Next]_vars =>
        [\A p \in Clients : pc[p] = "cancel.booking" /\ pc'[p] = "idle" =>
            refund' = Max({q.percent : q \in Applicable(arg[p].at - now)}
                            \union {0})]_vars
  <2> SUFFICES ASSUME HeldInv, [Next]_vars, NEW p \in Clients,
                      pc[p] = "cancel.booking", pc'[p] = "idle"
               PROVE  refund' = Max({q.percent : q \in Applicable(arg[p].at - now)}
                                        \union {0})
    OBVIOUS
  <2>1. /\ arg[p].at \in Pickups /\ now < arg[p].at
        /\ arg[p].value = CancellationRefund(arg[p].at - now)
    BY DEF HeldInv, Holds, CancelPCs
  <2>2. now \in Nat BY DEF HeldInv, TypeOK
  <2>3. arg[p].at - now \in Nat
    <3>1. Pickups \subseteq Nat OBVIOUS
    <3>2. arg[p].at \in Nat BY <2>1, <3>1
    <3>3. QED BY <2>1, <2>2, <3>2
  <2>4. refund' = arg[p].value BY RefundStep
  <2>5. PICK h \in Nat : h = arg[p].at - now BY <2>3
  <2>6. CancellationRefund(h) = Max({q.percent : q \in Applicable(h)} \union {0})
    BY BestTier
  <2>7. QED BY <2>1, <2>4, <2>5, <2>6
<1>2. QED BY <1>1, HeldAlways, PTL DEF Spec, RefundIsBestTier

----------------------------------------------------------------------------
(* While no two handlers overlap, at most one runs *)

Alone ==
    ~overlapped =>
        \A p, q \in Procs : pc[p] # "idle" /\ pc[q] # "idle" => p = q

AloneInv == HeldInv /\ Alone

\* What a request that starts alone finds, and leaves.
LEMMA StartsAlone ==
    ASSUME AloneInv, NEW p \in Clients, StartRequest(p), ~overlapped'
    PROVE  /\ ~overlapped
           /\ \A q \in Procs : pc[q] = "idle"
           /\ \A q \in Procs \ {p} : pc'[q] = "idle"
<1>1. Begin(p) /\ ((\E step, a : GotoWith(p, step, a)) \/ UNCHANGED procVars)
  BY DEF StartRequest, Update, Cancel, MarkAsNoShow, Refund,
         RecordDriverArrival, RecordPassengerPickup, AssignJob,
         SubmitDriverDetails, CompleteJob, ReviewCompletion, RateJob,
         Start, Request
<1>2. ~overlapped /\ Idle BY <1>1 DEF Begin, AloneInv, HeldInv, TypeOK, Idle
<1>3. \A q \in Procs \ {p} : pc'[q] = pc[q]
  BY <1>1 DEF GotoWith, procVars, AloneInv, HeldInv, TypeOK
<1>4. QED BY <1>2, <1>3 DEF Idle

\* A request that goes on alone.
LEMMA GoesOnAlone ==
    ASSUME AloneInv, NEW p \in Clients, Continue(p), ~overlapped'
    PROVE  /\ ~overlapped
           /\ \A q \in Procs \ {p} : pc[q] = "idle" /\ pc'[q] = "idle"
<1>1. /\ pc[p] # "idle" /\ \E step, a : GotoWith(p, step, a)
      /\ overlapped' = overlapped
  BY DEF Continue, WriteUpdate, WriteJobCancelled, WriteCancelled,
         WriteNoShow, WriteRefunded, WritePickup, WriteDriverDetails,
         WriteJobStatus, WriteConfirmed, WriteRating, ReadScore,
         WriteScore, Goto, Return, historyVars
<1>2. ~overlapped BY <1>1
<1>3. \A q \in Procs \ {p} : pc'[q] = pc[q]
  BY <1>1 DEF GotoWith, AloneInv, HeldInv, TypeOK
<1>4. \A q \in Procs \ {p} : pc[q] = "idle" BY <1>1, <1>2 DEF AloneInv, Alone
<1>5. QED BY <1>2, <1>3, <1>4

\* The scheduler alone.
LEMMA CronAlone ==
    ASSUME AloneInv, SendReminders \/ SendJourneyReminder, ~overlapped'
    PROVE  /\ ~overlapped
           /\ \A q \in Clients : pc[q] = "idle" /\ pc'[q] = "idle"
           /\ pc[Cron] \in {"idle", "remind"} /\ pc'[Cron] \in {"idle", "remind"}
<1>1. (\E step \in {"idle", "remind"} : \E a : GotoWith(Cron, step, a)) \/ UNCHANGED procVars
  BY DEF SendReminders, SendJourneyReminder, Goto, Return
<1>2. \A q \in Clients : pc'[q] = pc[q]
  BY <1>1 DEF GotoWith, procVars, AloneInv, HeldInv, TypeOK
<1>3. pc[Cron] \in {"idle", "remind"}
  BY DEF SendReminders, SendJourneyReminder, Begin
<1>4. pc'[Cron] \in {"idle", "remind"}
  BY <1>1, <1>3 DEF GotoWith, procVars, AloneInv, HeldInv, TypeOK
<1>5. CASE SendReminders
  <2>1. ~overlapped /\ Idle BY <1>5 DEF SendReminders, Begin, Idle, AloneInv, HeldInv, TypeOK
  <2>2. QED BY <1>2, <1>3, <1>4, <2>1 DEF Idle
<1>6. CASE SendJourneyReminder
  <2>1. ~overlapped /\ pc[Cron] # "idle"
    BY <1>6 DEF SendJourneyReminder, historyVars
  <2>2. \A q \in Clients : pc[q] = "idle" BY <2>1 DEF AloneInv, Alone
  <2>3. QED BY <1>2, <1>3, <1>4, <2>1, <2>2
<1>7. QED BY <1>5, <1>6

\* While no two handlers overlap, at most one of them runs, always.
LEMMA AloneAlways == Spec => []AloneInv
<1>1. Init => AloneInv
  <2>1. Init => Alone BY DEF Init, Alone
  <2>2. QED BY <2>1, InitHeld DEF AloneInv
<1>2. AloneInv /\ [Next]_vars => AloneInv'
  <2> SUFFICES ASSUME AloneInv, [Next]_vars PROVE AloneInv' OBVIOUS
  <2>1. HeldInv' BY NextKeepsHeld DEF AloneInv
  <2>2. ASSUME ~overlapped'
        PROVE  \A p, q \in Procs : pc'[p] # "idle" /\ pc'[q] # "idle" => p = q
    <3>1. ASSUME NEW r \in Clients, StartRequest(r) \/ Continue(r)
          PROVE  \A q \in Procs \ {r} : pc'[q] = "idle"
      BY <2>2, <3>1, StartsAlone, GoesOnAlone
    <3>2. CASE SendReminders \/ SendJourneyReminder
      BY <2>2, <3>2, CronAlone
    <3>3. CASE Tick \/ UNCHANGED vars
      BY <2>2, <3>3 DEF Tick, vars, procVars, historyVars, AloneInv, Alone
    <3>4. QED BY <3>1, <3>2, <3>3 DEF Next
  <2>3. Alone' BY <2>2 DEF Alone
  <2>4. QED BY <2>1, <2>3 DEF AloneInv
<1>3. QED BY <1>1, <1>2, PTL DEF Spec

----------------------------------------------------------------------------
(* The end of a booking *)

Over == now >= pickup + Duration - CompletionBuffer

\* What a handler's checks still say when it writes.
StillTrue(p) ==
    /\ pc[p] = "update" => status = "PAID"
    /\ pc[p] = "noShow" => now >= pickup + Grace
    /\ pc[p] \in {"complete", "confirm"} => Over

Ends ==
    ~overlapped =>
        /\ DoneAfterJourney /\ NoShowAfterGrace
        /\ \A p \in Procs : StillTrue(p)

\* A request that starts: its check is fresh.
LEMMA StartKeepsEnds ==
    ASSUME AloneInv, Ends, NEW p \in Clients, StartRequest(p) PROVE Ends'
<1> SUFFICES ASSUME ~overlapped'
             PROVE  /\ DoneAfterJourney' /\ NoShowAfterGrace'
                    /\ \A q \in Procs : StillTrue(q)'
  BY DEF Ends
<1>1. /\ ~overlapped
      /\ \A q \in Procs : pc[q] = "idle"
      /\ \A q \in Procs \ {p} : pc'[q] = "idle"
  BY StartsAlone
<1>2. DoneAfterJourney /\ NoShowAfterGrace BY <1>1 DEF Ends
<1>3. \A q \in Procs \ {p} : StillTrue(q)' BY <1>1 DEF StillTrue
<1>4. pc \in [Procs -> PC] /\ arg \in [Procs -> Arg] /\ p \in Procs
  BY DEF AloneInv, HeldInv, TypeOK
<1>5. CASE AssignJob(p)
  <2>1. pickup' = pickup /\ now' = now /\ status' = "ASSIGNED"
        /\ jobStatus' = "ASSIGNED" /\ pc' = pc
    BY <1>5 DEF AssignJob, procVars
  <2>2. StillTrue(p)' BY <1>1, <1>4, <2>1 DEF StillTrue
  <2>3. QED BY <1>3, <2>1, <2>2 DEF DoneAfterJourney, NoShowAfterGrace
<1>6. CASE RecordDriverArrival(p)
  <2>1. UNCHANGED <<pickup, now, status, jobStatus, pc>>
    BY <1>6 DEF RecordDriverArrival, procVars, jobVars
  <2>2. StillTrue(p)' BY <1>1, <1>4, <2>1 DEF StillTrue
  <2>3. QED BY <1>2, <1>3, <2>1, <2>2 DEF DoneAfterJourney, NoShowAfterGrace
<1>7. ASSUME NEW name, NEW step, NEW a, Start(p, name, step, a),
             step = "update" => status = "PAID",
             step = "noShow" => now >= pickup + Grace,
             step \in {"complete", "confirm"} => Over
      PROVE  /\ DoneAfterJourney' /\ NoShowAfterGrace'
             /\ \A q \in Procs : StillTrue(q)'
  <2>1. UNCHANGED <<pickup, now, status, jobStatus>> /\ pc'[p] = step
    BY <1>4, <1>7 DEF Start, GotoWith, bookingVars, jobVars
  <2>2. Over' <=> Over BY <2>1 DEF Over
  <2>3. StillTrue(p)' BY <1>7, <2>1, <2>2 DEF StillTrue
  <2>4. QED BY <1>2, <1>3, <2>1, <2>3 DEF DoneAfterJourney, NoShowAfterGrace
<1>8. ASSUME NEW t \in Pickups, NEW role \in {"CUSTOMER", "ADMIN"}, Update(p, t, role)
      PROVE  /\ DoneAfterJourney' /\ NoShowAfterGrace'
             /\ \A q \in Procs : StillTrue(q)'
  <2>1. status = "PAID" /\ Start(p, "update", "update", [NoArg EXCEPT !.at = t])
    BY <1>8 DEF Update
  <2>2. QED BY <1>7, <2>1
<1>9. CASE MarkAsNoShow(p)
  BY <1>7, <1>9 DEF MarkAsNoShow
<1>10. CASE CompleteJob(p)
  BY <1>7, <1>10 DEF CompleteJob, Over
<1>11. CASE ReviewCompletion(p)
  <2>1. Over BY <1>2, <1>11 DEF ReviewCompletion, DoneAfterJourney, Over
  <2>2. QED BY <1>7, <1>11, <2>1 DEF ReviewCompletion
<1>12. CASE Cancel(p) \/ Refund(p) \/ RecordPassengerPickup(p) \/ SubmitDriverDetails(p)
  <2>1. PICK name, step, a :
            Start(p, name, step, a) /\ step \in {"cancel.job", "refund", "pickup", "details"}
    BY <1>12 DEF Cancel, Refund, RecordPassengerPickup, SubmitDriverDetails
  <2>2. QED BY <1>7, <2>1
<1>13. ASSUME NEW j \in Jobs, NEW r \in Ratings, RateJob(p, j, r)
       PROVE  /\ DoneAfterJourney' /\ NoShowAfterGrace'
              /\ \A q \in Procs : StillTrue(q)'
  <2>1. PICK a : Start(p, "rate", "rate", a) BY <1>13 DEF RateJob
  <2>2. QED BY <1>7, <2>1
<1>14. QED
  BY <1>5, <1>6, <1>8, <1>9, <1>10, <1>11, <1>12, <1>13 DEF StartRequest

\* A request that goes on: alone, its check still holds when it writes.
LEMMA ContinueKeepsEnds ==
    ASSUME AloneInv, Ends, NEW p \in Clients, Continue(p) PROVE Ends'
<1> SUFFICES ASSUME ~overlapped'
             PROVE  /\ DoneAfterJourney' /\ NoShowAfterGrace'
                    /\ \A q \in Procs : StillTrue(q)'
  BY DEF Ends
<1>1. ~overlapped /\ \A q \in Procs \ {p} : pc'[q] = "idle" BY GoesOnAlone
<1>2. DoneAfterJourney /\ NoShowAfterGrace /\ StillTrue(p) BY <1>1 DEF Ends
<1>3. \A q \in Procs \ {p} : StillTrue(q)' BY <1>1 DEF StillTrue
<1>4. pc \in [Procs -> PC] /\ arg \in [Procs -> Arg] /\ p \in Procs
  BY DEF AloneInv, HeldInv, TypeOK
<1>5. pc'[p] \in {"idle", "cancel.booking", "rate.read", "rate.score"}
  BY <1>4 DEF Continue, WriteUpdate, WriteJobCancelled, WriteCancelled,
              WriteNoShow, WriteRefunded, WritePickup, WriteDriverDetails,
              WriteJobStatus, WriteConfirmed, WriteRating, ReadScore,
              WriteScore, Goto, GotoWith, Return
<1>6. StillTrue(p)' BY <1>5 DEF StillTrue
<1>7. CASE WriteUpdate(p)
  <2>1. status = "PAID" BY <1>2, <1>7 DEF WriteUpdate, StillTrue
  <2>2. jobStatus \in {"OPEN_FOR_BIDDING", "CANCELLED"}
    BY <2>1 DEF AloneInv, HeldInv, OperatorShown
  <2>3. status' = status /\ jobStatus' = jobStatus BY <1>7 DEF WriteUpdate, jobVars
  <2>4. QED BY <1>3, <1>6, <2>1, <2>2, <2>3 DEF DoneAfterJourney, NoShowAfterGrace
<1>8. CASE WriteNoShow(p)
  <2>1. now >= pickup + Grace BY <1>2, <1>8 DEF WriteNoShow, StillTrue
  <2>2. UNCHANGED <<now, pickup, jobStatus>> BY <1>8 DEF WriteNoShow, jobVars
  <2>3. QED BY <1>2, <1>3, <1>6, <2>1, <2>2 DEF DoneAfterJourney, NoShowAfterGrace
<1>9. CASE WriteJobStatus(p)
  <2>1. jobStatus' = "PENDING_COMPLETION" => Over
    BY <1>2, <1>9 DEF WriteJobStatus, StillTrue
  <2>2. /\ UNCHANGED <<now, pickup, status>>
        /\ jobStatus' \in {"PENDING_COMPLETION", "IN_PROGRESS"}
    BY <1>9 DEF WriteJobStatus, bookingVars
  <2>3. QED BY <1>2, <1>3, <1>6, <2>1, <2>2 DEF DoneAfterJourney, NoShowAfterGrace, Over
<1>10. CASE WriteConfirmed(p)
  <2>1. Over BY <1>2, <1>10 DEF WriteConfirmed, StillTrue
  <2>2. UNCHANGED <<now, pickup>> /\ status' = "COMPLETED" BY <1>10 DEF WriteConfirmed
  <2>3. QED BY <1>3, <1>6, <2>1, <2>2 DEF DoneAfterJourney, NoShowAfterGrace, Over
<1>11. CASE WriteJobCancelled(p) \/ WriteCancelled(p) \/ WriteRefunded(p)
              \/ WritePickup(p) \/ WriteDriverDetails(p) \/ WriteRating(p)
              \/ ReadScore(p) \/ WriteScore(p)
  <2>1. /\ UNCHANGED <<now, pickup>>
        /\ status' = status \/ status' \in {"CANCELLED", "REFUNDED", "IN_PROGRESS"}
        /\ jobStatus' = jobStatus \/ jobStatus' \in {"CANCELLED", "IN_PROGRESS"}
    BY <1>11 DEF WriteJobCancelled, WriteCancelled, WriteRefunded, WritePickup,
                 WriteDriverDetails, WriteRating, ReadScore, WriteScore,
                 bookingVars, jobVars
  <2>2. QED BY <1>2, <1>3, <1>6, <2>1 DEF DoneAfterJourney, NoShowAfterGrace
<1>12. QED BY <1>7, <1>8, <1>9, <1>10, <1>11 DEF Continue

\* Every step keeps the end of a booking in its time.
LEMMA NextKeepsEnds == AloneInv /\ Ends /\ [Next]_vars => Ends'
<1> SUFFICES ASSUME AloneInv, Ends, [Next]_vars PROVE Ends' OBVIOUS
<1>1. CASE \E p \in Clients : StartRequest(p) \/ Continue(p)
  BY <1>1, StartKeepsEnds, ContinueKeepsEnds
<1>2. CASE Tick
  <2>1. /\ UNCHANGED <<status, pickup, jobStatus, pc, overlapped>>
        /\ \A p \in Procs : pc[p] = "idle"
    BY <1>2 DEF Tick, Idle, bookingVars, jobVars, historyVars, procVars
  <2>2. \A p \in Procs : StillTrue(p)' BY <2>1 DEF StillTrue
  <2>3. now' = now + 1 /\ now \in Nat /\ pickup \in Nat
    <3>1. pickup \in Pickups /\ now \in Times BY DEF AloneInv, HeldInv, TypeOK
    <3>2. QED BY <1>2, <3>1 DEF Tick
  <2>4. ASSUME NEW n \in Nat, NEW m, NEW x \in Int, m = n + 1, n >= x PROVE m >= x
    BY <2>4
  <2>5. pickup + Duration - CompletionBuffer \in Int /\ pickup + Grace \in Int
    BY <2>3
  <2>6. DoneAfterJourney => DoneAfterJourney'
    BY <2>1, <2>3, <2>4, <2>5 DEF DoneAfterJourney
  <2>7. NoShowAfterGrace => NoShowAfterGrace'
    BY <2>1, <2>3, <2>4, <2>5 DEF NoShowAfterGrace
  <2>8. QED BY <2>1, <2>2, <2>6, <2>7 DEF Ends
<1>3. CASE SendReminders \/ SendJourneyReminder
  <2>1. UNCHANGED <<now, status, pickup, jobStatus>>
    BY <1>3 DEF SendReminders, SendJourneyReminder, bookingVars, jobVars
  <2>2. ASSUME ~overlapped'
        PROVE  ~overlapped /\ \A q \in Procs : StillTrue(q)'
    BY <1>3, <2>2, CronAlone DEF StillTrue
  <2>3. QED BY <2>1, <2>2 DEF Ends, DoneAfterJourney, NoShowAfterGrace
<1>4. CASE UNCHANGED vars
  BY <1>4 DEF Ends, StillTrue, Over, DoneAfterJourney, NoShowAfterGrace, vars,
              bookingVars, jobVars, historyVars, procVars
<1>5. QED BY <1>1, <1>2, <1>3, <1>4 DEF Next

\* A booking ends no sooner than its journey can, as long as no two handlers
\* overlap.  (bookings.service.ts:550-556, 1087-1096; jobs.service.ts:362-392.)
THEOREM EndsInTimeAlways == Spec => []EndsInTime
<1>1. Init => Ends
  BY DEF Init, Ends, StillTrue, DoneAfterJourney, NoShowAfterGrace
<1>2. Ends => EndsInTime BY DEF Ends, EndsInTime
<1>3. QED BY <1>1, <1>2, NextKeepsEnds, AloneAlways, PTL DEF Spec

----------------------------------------------------------------------------
(* Ratings *)

RatedJobs == {j \in Jobs : rating[j] # None}
Counted(n) == n = Cardinality(RatedJobs)

RatePCs == {"rate", "rate.read", "rate.score"}

\* How far the reputation lags behind the ratings at each step of rateJob.
RatingInHand(p) ==
    /\ pc[p] = "rate" => rating[arg[p].job] = None /\ Counted(Len(reputation))
    /\ pc[p] = "rate.read" => Counted(Len(reputation) + 1)
    /\ pc[p] = "rate.score" => Counted(Len(arg[p].score))

AllCounted ==
    (\A p \in Procs : pc[p] \notin RatePCs) => Counted(Len(reputation))

RatingsAgree == ~overlapped => AllCounted /\ \A p \in Procs : RatingInHand(p)

\* One more rating, one more in the count.
LEMMA OneMoreRated ==
    ASSUME HeldInv, NEW j \in Jobs, NEW r \in Ratings, rating[j] = None,
           rating' = [rating EXCEPT ![j] = r]
    PROVE  Cardinality(RatedJobs') = Cardinality(RatedJobs) + 1
<1>1. rating \in [Jobs -> OrNone(Ratings)] BY DEF HeldInv, TypeOK
<1>2. RatedJobs' = RatedJobs \union {j} /\ j \notin RatedJobs
  BY <1>1 DEF RatedJobs
<1>3. IsFiniteSet(Jobs)
  <2>1. IsFiniteSet({"this"}) BY FS_Singleton
  <2>2. IsFiniteSet(OtherJobs) OBVIOUS
  <2>3. QED BY <2>1, <2>2, FS_Union DEF Jobs
<1>4. IsFiniteSet(RatedJobs) BY <1>3, FS_Subset DEF RatedJobs
<1>5. QED BY <1>2, <1>4, FS_AddElement

\* A step that rates nothing and leaves the count alone.
LEMMA OtherKeepsRatings ==
    ASSUME AloneInv, RatingsAgree, NEW p \in Procs,
           ~overlapped' => /\ ~overlapped
                           /\ pc[p] \notin RatePCs /\ pc'[p] \notin RatePCs
                           /\ \A q \in Procs \ {p} : pc[q] \notin RatePCs
                                                     /\ pc'[q] \notin RatePCs,
           UNCHANGED ratingVars
    PROVE  RatingsAgree'
<1> SUFFICES ASSUME ~overlapped' PROVE AllCounted' /\ \A q \in Procs : RatingInHand(q)'
  BY DEF RatingsAgree
<1>1. AllCounted BY DEF RatingsAgree
<1>2. Counted(Len(reputation)) BY <1>1 DEF AllCounted
<1>3. AllCounted' BY <1>2 DEF AllCounted, Counted, RatedJobs, ratingVars
<1>4. \A q \in Procs : RatingInHand(q)' BY DEF RatingInHand, RatePCs
<1>5. QED BY <1>3, <1>4

\* A request that starts: rateJob has looked for an earlier rating.
LEMMA StartKeepsRatings ==
    ASSUME AloneInv, RatingsAgree, NEW p \in Clients, StartRequest(p) PROVE RatingsAgree'
<1>1. ~overlapped' =>
        /\ ~overlapped
        /\ \A q \in Procs : pc[q] = "idle"
        /\ \A q \in Procs \ {p} : pc'[q] = "idle"
  BY StartsAlone
<1>2. pc \in [Procs -> PC] /\ arg \in [Procs -> Arg] /\ p \in Procs
  BY DEF AloneInv, HeldInv, TypeOK
<1>3. ASSUME NEW j \in Jobs, NEW r \in Ratings, RateJob(p, j, r) PROVE RatingsAgree'
  <2> SUFFICES ASSUME ~overlapped'
               PROVE  AllCounted' /\ \A q \in Procs : RatingInHand(q)'
    BY DEF RatingsAgree
  <2> DEFINE a == [NoArg EXCEPT !.job = j, !.value = r]
  <2>1. /\ rating[j] = None /\ UNCHANGED ratingVars
        /\ GotoWith(p, "rate", a)
    BY <1>3 DEF RateJob, Start
  <2>2. a.job = j BY DEF NoArg
  <2> HIDE DEF a
  <2>3. pc'[p] = "rate" /\ arg'[p] = a BY <1>2, <2>1 DEF GotoWith
  <2>4. AllCounted BY <1>1 DEF RatingsAgree
  <2>5. Counted(Len(reputation)) BY <1>1, <2>4 DEF AllCounted, RatePCs
  <2>6. Counted(Len(reputation))' BY <2>1, <2>5 DEF Counted, RatedJobs, ratingVars
  <2>7. RatingInHand(p)' BY <2>1, <2>2, <2>3, <2>6 DEF RatingInHand, ratingVars
  <2>8. \A q \in Procs \ {p} : RatingInHand(q)' BY <1>1 DEF RatingInHand
  <2>9. QED BY <2>6, <2>7, <2>8 DEF AllCounted
<1>4. CASE \/ RecordDriverArrival(p) \/ AssignJob(p)
           \/ \E t \in Pickups, role \in {"CUSTOMER", "ADMIN"} : Update(p, t, role)
           \/ Cancel(p) \/ MarkAsNoShow(p) \/ Refund(p) \/ RecordPassengerPickup(p)
           \/ SubmitDriverDetails(p) \/ CompleteJob(p) \/ ReviewCompletion(p)
  <2>1. /\ UNCHANGED ratingVars
        /\ pc' = pc \/ \E step, a : step \notin RatePCs /\ GotoWith(p, step, a)
    BY <1>4 DEF RecordDriverArrival, AssignJob, Update, Cancel, MarkAsNoShow,
                Refund, RecordPassengerPickup, SubmitDriverDetails, CompleteJob,
                ReviewCompletion, Start, procVars, RatePCs
  <2>2. pc'[p] = pc[p] \/ pc'[p] \notin RatePCs BY <1>2, <2>1 DEF GotoWith
  <2>3. QED BY <1>1, <1>2, <2>1, <2>2, OtherKeepsRatings DEF RatePCs
<1>5. QED BY <1>3, <1>4 DEF StartRequest

\* A request that goes on: the three steps of rateJob close the gap.
LEMMA ContinueKeepsRatings ==
    ASSUME AloneInv, RatingsAgree, NEW p \in Clients, Continue(p) PROVE RatingsAgree'
<1>1. ~overlapped' =>
        /\ ~overlapped
        /\ \A q \in Procs \ {p} : pc[q] = "idle" /\ pc'[q] = "idle"
  BY GoesOnAlone
<1>2. /\ pc \in [Procs -> PC] /\ arg \in [Procs -> Arg] /\ p \in Procs
      /\ reputation \in Seq(Ratings) /\ arg[p] \in Arg
  BY DEF AloneInv, HeldInv, TypeOK
<1>3. CASE WriteRating(p) \/ ReadScore(p) \/ WriteScore(p)
  <2> SUFFICES ASSUME ~overlapped'
               PROVE  AllCounted' /\ \A q \in Procs : RatingInHand(q)'
    BY DEF RatingsAgree
  <2>1. RatingInHand(p) BY <1>1, <1>2 DEF RatingsAgree
  <2>2. \A q \in Procs \ {p} : RatingInHand(q)' BY <1>1 DEF RatingInHand
  <2>3. CASE WriteRating(p)
    <3>1. PICK a \in Arg : a = arg[p] BY <1>2
    <3>2. /\ rating' = [rating EXCEPT ![a.job] = a.value] /\ reputation' = reputation
          /\ pc[p] = "rate" /\ GotoWith(p, "rate.read", a)
      BY <2>3, <3>1 DEF WriteRating, Goto
    <3>3. a.job \in Jobs /\ a.value \in Ratings /\ rating[a.job] = None
          /\ Counted(Len(reputation))
      BY <1>2, <2>1, <3>1, <3>2 DEF RatingInHand, AloneInv, HeldInv, Holds, Arg
    <3>4. Cardinality(RatedJobs') = Cardinality(RatedJobs) + 1
      BY <3>2, <3>3, OneMoreRated DEF AloneInv
    <3>5. pc'[p] = "rate.read" BY <1>2, <3>2 DEF GotoWith
    <3>6. Counted(Len(reputation) + 1)' BY <3>2, <3>3, <3>4 DEF Counted
    <3>7. RatingInHand(p)' BY <3>5, <3>6 DEF RatingInHand
    <3>8. AllCounted' BY <1>2, <3>5 DEF AllCounted, RatePCs
    <3>9. QED BY <2>2, <3>7, <3>8
  <2>4. CASE ReadScore(p)
    <3> DEFINE s == Append(reputation, arg[p].value)
               a == [arg[p] EXCEPT !.score = s]
    <3>1. /\ UNCHANGED ratingVars /\ pc[p] = "rate.read" /\ GotoWith(p, "rate.score", a)
      BY <2>4 DEF ReadScore
    <3>2. arg[p].value \in Ratings
      BY <1>2, <3>1 DEF AloneInv, HeldInv, Holds
    <3>3. Len(s) = Len(reputation) + 1 BY <1>2, <3>2, AppendProperties
    <3> HIDE DEF s
    <3>4. a.score = s BY <1>2 DEF Arg
    <3> HIDE DEF a
    <3>5. pc'[p] = "rate.score" /\ arg'[p] = a BY <1>2, <3>1 DEF GotoWith
    <3>6. Counted(Len(reputation) + 1) BY <2>1, <3>1 DEF RatingInHand
    <3>7. PICK n : n = Len(reputation) + 1 OBVIOUS
    <3>8. n = Cardinality(RatedJobs) BY <3>6, <3>7 DEF Counted
    <3>9. n = Cardinality(RatedJobs') BY <3>1, <3>8 DEF RatedJobs, ratingVars
    <3>10. Len(arg'[p].score) = n BY <3>3, <3>4, <3>5, <3>7
    <3>11. RatingInHand(p)' BY <3>5, <3>9, <3>10 DEF RatingInHand, Counted
    <3>12. AllCounted' BY <1>2, <3>5 DEF AllCounted, RatePCs
    <3>13. QED BY <2>2, <3>11, <3>12
  <2>5. CASE WriteScore(p)
    <3>1. PICK a \in Arg : a = arg[p] BY <1>2
    <3>2. /\ reputation' = a.score /\ rating' = rating
          /\ pc[p] = "rate.score" /\ GotoWith(p, "idle", NoArg)
      BY <2>5, <3>1 DEF WriteScore, Return
    <3>3. Counted(Len(a.score)) BY <2>1, <3>1, <3>2 DEF RatingInHand
    <3>4. Counted(Len(reputation))' BY <3>2, <3>3 DEF Counted, RatedJobs
    <3>5. pc'[p] = "idle" BY <1>2, <3>2 DEF GotoWith
    <3>6. QED BY <2>2, <3>4, <3>5 DEF AllCounted, RatingInHand
  <2>6. QED BY <1>3, <2>3, <2>4, <2>5
<1>4. CASE \/ WriteUpdate(p) \/ WriteJobCancelled(p) \/ WriteCancelled(p)
           \/ WriteNoShow(p) \/ WriteRefunded(p) \/ WritePickup(p)
           \/ WriteDriverDetails(p) \/ WriteJobStatus(p) \/ WriteConfirmed(p)
  <2>1. /\ UNCHANGED ratingVars /\ pc[p] \notin RatePCs
        /\ \E step, a : step \notin RatePCs /\ GotoWith(p, step, a)
    BY <1>4 DEF WriteUpdate, WriteJobCancelled, WriteCancelled, WriteNoShow,
                WriteRefunded, WritePickup, WriteDriverDetails, WriteJobStatus,
                WriteConfirmed, Goto, Return, RatePCs
  <2>2. pc'[p] \notin RatePCs BY <1>2, <2>1 DEF GotoWith
  <2>3. QED BY <1>1, <1>2, <2>1, <2>2, OtherKeepsRatings DEF RatePCs
<1>5. QED BY <1>3, <1>4 DEF Continue

\* Every step keeps the count of the ratings.
LEMMA NextKeepsRatings == AloneInv /\ RatingsAgree /\ [Next]_vars => RatingsAgree'
<1> SUFFICES ASSUME AloneInv, RatingsAgree, [Next]_vars PROVE RatingsAgree' OBVIOUS
<1>1. CASE \E p \in Clients : StartRequest(p) \/ Continue(p)
  BY <1>1, StartKeepsRatings, ContinueKeepsRatings
<1>2. CASE SendReminders \/ SendJourneyReminder
  <2>1. UNCHANGED ratingVars BY <1>2 DEF SendReminders, SendJourneyReminder
  <2>2. Cron \in Procs OBVIOUS
  <2>3. QED BY <1>2, <2>1, <2>2, CronAlone, OtherKeepsRatings DEF RatePCs
<1>3. CASE Tick \/ UNCHANGED vars
  <2>1. UNCHANGED <<rating, reputation, overlapped, pc, arg>>
    BY <1>3 DEF Tick, vars, ratingVars, historyVars, procVars
  <2>2. QED BY <2>1 DEF RatingsAgree, AllCounted, RatingInHand, Counted, RatedJobs
<1>4. QED BY <1>1, <1>2, <1>3 DEF Next

\* Every rating counts once in the operator's reputation, as long as no two
\* handlers overlap.  (jobs.controller.ts:520-546.)
THEOREM RatingsCountedAlways == Spec => []RatingsCounted
<1>1. Init => RatingsAgree
  <2>1. Init => RatedJobs = {} /\ Len(reputation) = 0 BY DEF Init, RatedJobs
  <2>2. Cardinality({}) = 0 BY FS_EmptySet
  <2>3. Init => Counted(Len(reputation)) BY <2>1, <2>2 DEF Counted
  <2>4. QED BY <2>3 DEF Init, RatingsAgree, AllCounted, RatingInHand
<1>2. RatingsAgree => RatingsCounted
  BY DEF RatingsAgree, AllCounted, RatingsCounted, Idle, Counted, RatedJobs, RatePCs
<1>3. QED BY <1>1, <1>2, NextKeepsRatings, AloneAlways, PTL DEF Spec

----------------------------------------------------------------------------
(* Reminders *)

\* The callback of the full hour T looks for bookings of the pickup time t.
LooksFor(T, t) ==
    T % Hour = 0 /\ t - ReminderAhead <= T /\ T < t - ReminderAhead + Hour

\* The callback is due in the tick of a full hour and runs once.
CronOnTime ==
    /\ cronDue => now % Hour = 0 /\ pc[Cron] = "idle"
    /\ pc[Cron] = "remind" => now % Hour = 0

CronInv == AloneInv /\ CronOnTime

\* One callback looks for a pickup time.
LEMMA OneLooks ==
    ASSUME NEW t \in Pickups, NEW T \in Times, NEW U \in Times,
           LooksFor(T, t), LooksFor(U, t)
    PROVE  T = U
<1> DEFINE x == t - ReminderAhead
<1>1. x \in Int /\ T \in Nat /\ U \in Nat /\ Hour \in Nat \ {0} OBVIOUS
<1>2. T % Hour = 0 /\ x <= T /\ T < x + Hour BY DEF LooksFor
<1>3. U % Hour = 0 /\ x <= U /\ U < x + Hour BY DEF LooksFor
<1> HIDE DEF x
<1>4. ASSUME T < U PROVE FALSE
  <2>1. U - T >= Hour BY <1>1, <1>2, <1>3, <1>4, MultiplesApart
  <2>2. QED BY <1>1, <1>2, <1>3, <2>1
<1>5. ASSUME U < T PROVE FALSE
  <2>1. T - U >= Hour BY <1>1, <1>2, <1>3, <1>5, MultiplesApart
  <2>2. QED BY <1>1, <1>2, <1>3, <2>1
<1>6. QED BY <1>1, <1>4, <1>5

\* What requests leave to the scheduler.
LEMMA RequestsLeaveCron ==
    ASSUME HeldInv, NEW p \in Clients, StartRequest(p) \/ Continue(p)
    PROVE  /\ UNCHANGED <<now, reminders, cronDue>>
           /\ pc'[Cron] = pc[Cron]
           /\ status' = "PAID" => status = "PAID"
           /\ WriteUpdate(p) \/ UNCHANGED <<pickup, pickupSince>>
<1>1. pc \in [Procs -> PC] /\ Cron \in Procs /\ p # Cron /\ p \in Procs
  BY DEF HeldInv, TypeOK
<1>2. CASE StartRequest(p)
  <2>1. /\ UNCHANGED <<now, cronVars, pickup, pickupSince>>
        /\ status' = status \/ status' = "ASSIGNED"
        /\ UNCHANGED procVars \/ \E step, a : GotoWith(p, step, a)
    BY <1>2 DEF StartRequest, Update, Cancel, MarkAsNoShow, Refund,
                RecordDriverArrival, RecordPassengerPickup, AssignJob,
                SubmitDriverDetails, CompleteJob, ReviewCompletion, RateJob,
                Start, bookingVars
  <2>2. QED BY <1>1, <2>1 DEF cronVars, procVars, GotoWith
<1>3. CASE Continue(p)
  <2>1. /\ UNCHANGED <<now, cronVars>>
        /\ status' = status \/ status' \in {"CANCELLED", "NO_SHOW", "REFUNDED",
                                            "IN_PROGRESS", "COMPLETED"}
        /\ WriteUpdate(p) \/ UNCHANGED <<pickup, pickupSince>>
        /\ \E step, a : GotoWith(p, step, a)
    BY <1>3 DEF Continue, WriteUpdate, WriteJobCancelled, WriteCancelled,
                WriteNoShow, WriteRefunded, WritePickup, WriteDriverDetails,
                WriteJobStatus, WriteConfirmed, WriteRating, ReadScore,
                WriteScore, Goto, Return, bookingVars, historyVars
  <2>2. QED BY <1>1, <2>1 DEF cronVars, GotoWith
<1>4. QED BY <1>2, <1>3

\* The callback is due at full hours only.
LEMMA CronAlways == Spec => []CronInv
<1>1. Init => CronOnTime BY DEF Init, CronOnTime
<1>2. AloneInv /\ CronOnTime /\ [Next]_vars => CronOnTime'
  <2> SUFFICES ASSUME AloneInv, CronOnTime, [Next]_vars PROVE CronOnTime' OBVIOUS
  <2>0. pc \in [Procs -> PC] /\ Cron \in Procs BY DEF AloneInv, HeldInv, TypeOK
  <2>1. CASE \E p \in Clients : StartRequest(p) \/ Continue(p)
    BY <2>1, RequestsLeaveCron DEF AloneInv, CronOnTime
  <2>2. CASE Tick
    BY <2>2, <2>0 DEF Tick, Idle, CronOnTime, procVars
  <2>3. CASE SendReminders
    BY <2>3, <2>0 DEF SendReminders, CronOnTime, procVars
  <2>4. CASE SendJourneyReminder
    <3>1. cronDue' = cronDue /\ now' = now /\ pc'[Cron] = "idle" /\ pc[Cron] = "remind"
      BY <2>4, <2>0 DEF SendJourneyReminder, Return, GotoWith
    <3>2. QED BY <3>1 DEF CronOnTime
  <2>5. CASE UNCHANGED vars BY <2>5 DEF CronOnTime, vars, cronVars, procVars
  <2>6. QED BY <2>1, <2>2, <2>3, <2>4, <2>5 DEF Next
<1>3. QED BY <1>1, <1>2, AloneAlways, PTL DEF Spec, CronInv

\* A booking that is PAID with its pickup from before the reminder is due: a
\* callback that looked for this pickup and has run has sent the reminder.
Informed ==
    status = "PAID" /\ pickupSince < pickup - ReminderAhead =>
        \A T \in Times : LooksFor(T, pickup) /\ T <= now =>
            \/ reminders[pickup] > 0
            \/ T = now /\ (cronDue \/ pc[Cron] = "remind")

\* Every step keeps the bookings informed.
LEMMA NextKeepsInformed == CronInv /\ Informed /\ [Next]_vars => Informed'
<1> SUFFICES ASSUME CronInv, Informed, [Next]_vars,
                    status' = "PAID", pickupSince' < pickup' - ReminderAhead,
                    NEW T \in Times, LooksFor(T, pickup)', T <= now'
             PROVE  \/ reminders'[pickup'] > 0
                    \/ T = now' /\ (cronDue' \/ pc'[Cron] = "remind")
  BY DEF Informed
<1>1. /\ pc \in [Procs -> PC] /\ Cron \in Procs /\ now \in Times /\ pickup \in Pickups
      /\ reminders \in [Pickups -> Nat]
  BY DEF CronInv, AloneInv, HeldInv, TypeOK
<1>2. ASSUME UNCHANGED <<pickup, pickupSince>>, status = "PAID", T <= now
      PROVE  \/ reminders[pickup] > 0
             \/ T = now /\ (cronDue \/ pc[Cron] = "remind")
  <2>1. LooksFor(T, pickup) BY <1>2 DEF LooksFor
  <2>2. QED BY <1>2, <2>1 DEF Informed
<1>3. CASE \E p \in Clients : StartRequest(p) \/ Continue(p)
  <2>1. PICK p \in Clients : StartRequest(p) \/ Continue(p) BY <1>3
  <2>2. /\ UNCHANGED <<now, reminders, cronDue>> /\ pc'[Cron] = pc[Cron]
        /\ status = "PAID"
        /\ WriteUpdate(p) \/ UNCHANGED <<pickup, pickupSince>>
    BY <2>1, RequestsLeaveCron DEF CronInv, AloneInv
  <2>3. CASE UNCHANGED <<pickup, pickupSince>>
    <3>1. T <= now BY <2>2
    <3>2. \/ reminders[pickup] > 0
          \/ T = now /\ (cronDue \/ pc[Cron] = "remind")
      BY <1>2, <2>2, <2>3, <3>1
    <3>3. QED BY <2>2, <2>3, <3>2
  <2>4. CASE WriteUpdate(p)
    <3>1. pickupSince' = now BY <2>4 DEF WriteUpdate
    <3>2. pickup' - ReminderAhead <= T BY DEF LooksFor
    <3>3. pickup' \in Int
      <4>1. HeldInv' BY NextKeepsHeld DEF CronInv, AloneInv
      <4>2. pickup' \in Pickups BY <4>1 DEF HeldInv, TypeOK
      <4>3. Pickups \subseteq Int OBVIOUS
      <4>4. QED BY <4>2, <4>3
    <3>4. QED BY <1>1, <2>2, <3>1, <3>2, <3>3
  <2>5. QED BY <2>2, <2>3, <2>4
<1>4. CASE Tick
  <2>1. /\ UNCHANGED <<status, pickup, pickupSince, reminders, pc>>
        /\ ~cronDue /\ pc[Cron] = "idle"
        /\ now' = now + 1 /\ cronDue' = (now' % Hour = 0)
    BY <1>1, <1>4 DEF Tick, Idle, bookingVars, historyVars, procVars
  <2>2. CASE T <= now BY <1>2, <2>1, <2>2
  <2>3. CASE ~(T <= now)
    <3>1. T = now' BY <1>1, <2>1, <2>3
    <3>2. T % Hour = 0 BY DEF LooksFor
    <3>3. QED BY <2>1, <3>1, <3>2
  <2>4. QED BY <2>2, <2>3
<1>5. CASE SendReminders
  <2>1. /\ UNCHANGED <<now, status, pickup, pickupSince, reminders>>
        /\ pc[Cron] = "idle"
    BY <1>5 DEF SendReminders, Begin, bookingVars
  <2>2. CASE reminders[pickup] > 0 BY <2>1, <2>2
  <2>3. CASE ~(reminders[pickup] > 0)
    <3>1. T = now BY <1>2, <2>1, <2>3
    <3>2. \A late \in BOOLEAN : pickup \in ReminderWindow(late)
      <4>1. pickup - ReminderAhead <= now /\ now < pickup - ReminderAhead + Hour
        BY <2>1, <3>1 DEF LooksFor
      <4>2. now \in Int /\ pickup \in Int /\ ReminderAhead \in Int /\ Hour \in Int
        BY <1>1
      <4>3. QED BY <1>1, <4>1, <4>2 DEF ReminderWindow
    <3>3. Goto(Cron, "remind")
      BY <1>5, <2>1, <3>2 DEF SendReminders
    <3>4. pc'[Cron] = "remind" BY <1>1, <3>3 DEF Goto, GotoWith
    <3>5. QED BY <2>1, <3>1, <3>4
  <2>4. QED BY <2>2, <2>3
<1>6. CASE SendJourneyReminder
  <2>1. reminders' = [reminders EXCEPT ![pickup] = @ + 1] /\ pickup' = pickup
    BY <1>6 DEF SendJourneyReminder, bookingVars
  <2>2. reminders'[pickup] = reminders[pickup] + 1 /\ reminders[pickup] \in Nat
    BY <1>1, <2>1
  <2>3. QED BY <2>1, <2>2
<1>7. CASE UNCHANGED vars
  BY <1>2, <1>7 DEF vars, bookingVars, cronVars, historyVars, procVars
<1>8. QED BY <1>3, <1>4, <1>5, <1>6, <1>7 DEF Next

\* A booking that keeps its pickup is reminded of it in time, however
\* handlers overlap.  (journey-reminder-scheduler.service.ts:23-47.)
THEOREM RemindedInTimeAlways == Spec => []RemindedInTime
<1>1. Init => Informed
  <2> SUFFICES ASSUME Init, NEW T \in Times, LooksFor(T, pickup), T <= now,
                      pickupSince < pickup - ReminderAhead
               PROVE  FALSE
    BY DEF Informed
  <2>1. now = 0 /\ pickupSince = 0 /\ pickup \in Pickups BY DEF Init
  <2>2. pickup - ReminderAhead <= T BY DEF LooksFor
  <2>3. pickup - ReminderAhead \in Int BY <2>1
  <2>4. QED BY <2>1, <2>2, <2>3
<1>2. CronInv /\ Informed => RemindedInTime
  <2> SUFFICES ASSUME CronInv, Informed, status = "PAID",
                      pickupSince < pickup - ReminderAhead,
                      now > pickup - ReminderAhead + Hour
               PROVE  reminders[pickup] > 0
    BY DEF RemindedInTime
  <2>1. now \in Times /\ pickup \in Pickups /\ pickupSince \in Times
    BY DEF CronInv, AloneInv, HeldInv, TypeOK
  <2>2. PICK x \in Nat : x = pickup - ReminderAhead BY <2>1
  <2>3. PICK T \in Nat : T % Hour = 0 /\ x <= T /\ T < x + Hour
    BY MultipleInWindow
  <2>4. T < now /\ T \in Times BY <2>1, <2>2, <2>3
  <2>5. LooksFor(T, pickup) BY <2>2, <2>3 DEF LooksFor
  <2>6. QED BY <2>1, <2>4, <2>5 DEF Informed
<1>3. QED BY <1>1, <1>2, NextKeepsInformed, CronAlways, PTL DEF Spec

\* A reminder that was sent came from the one callback of its pickup time,
\* and that callback has run.
Ran(T) == T <= now /\ (T = now => ~cronDue /\ pc[Cron] = "idle")
SentByIts(t) ==
    /\ reminders[t] <= 1
    /\ reminders[t] = 1 => \E T \in Times : LooksFor(T, t) /\ Ran(T)

Once ==
    ~overlapped /\ ~Exactly =>
        /\ \A t \in Pickups : SentByIts(t)
        /\ pc[Cron] = "remind" =>
                reminders[pickup] = 0 /\ LooksFor(now, pickup) /\ ~cronDue

\* Every step sends at most the first reminder of a pickup time.
LEMMA NextKeepsOnce == CronInv /\ Once /\ [Next]_vars => Once'
<1> SUFFICES ASSUME CronInv, Once, [Next]_vars, ~overlapped', ~Exactly
             PROVE  /\ \A t \in Pickups : SentByIts(t)'
                    /\ pc'[Cron] = "remind" =>
                          (reminders[pickup] = 0 /\ LooksFor(now, pickup) /\ ~cronDue)'
  BY DEF Once
<1>1. /\ pc \in [Procs -> PC] /\ Cron \in Procs /\ now \in Times /\ pickup \in Pickups
      /\ reminders \in [Pickups -> Nat] /\ AloneInv /\ HeldInv
  BY DEF CronInv, AloneInv, HeldInv, TypeOK
<1>2. CASE \E p \in Clients : StartRequest(p) \/ Continue(p)
  <2>1. PICK p \in Clients : StartRequest(p) \/ Continue(p) BY <1>2
  <2>2. UNCHANGED <<now, reminders, cronDue>> /\ pc'[Cron] = pc[Cron]
    BY <1>1, <2>1, RequestsLeaveCron
  <2>3. ~overlapped /\ pc[Cron] = "idle"
    BY <1>1, <2>1, StartsAlone, GoesOnAlone
  <2>4. \A t \in Pickups : SentByIts(t) BY <2>3 DEF Once
  <2>5. \A t \in Pickups : SentByIts(t)' BY <2>2, <2>4 DEF SentByIts, Ran, LooksFor
  <2>6. QED BY <2>2, <2>3, <2>5
<1>3. CASE Tick
  <2>1. /\ UNCHANGED <<reminders, pc, overlapped>>
        /\ pc[Cron] = "idle" /\ now' = now + 1
    BY <1>1, <1>3 DEF Tick, Idle, historyVars, procVars
  <2>2. \A t \in Pickups : SentByIts(t) BY <2>1 DEF Once
  <2>3. ASSUME NEW T \in Times, Ran(T) PROVE Ran(T)'
    <3>1. T <= now BY <2>3 DEF Ran
    <3>2. T <= now' /\ T # now' BY <1>1, <2>1, <3>1
    <3>3. QED BY <3>2 DEF Ran
  <2>4. \A t \in Pickups : SentByIts(t)' BY <2>1, <2>2, <2>3 DEF SentByIts, LooksFor
  <2>5. QED BY <2>1, <2>4
<1>4. CASE SendReminders
  <2>1. /\ UNCHANGED <<now, pickup, reminders>> /\ cronDue /\ ~cronDue'
        /\ pc[Cron] = "idle"
    BY <1>4 DEF SendReminders, Begin, bookingVars
  <2>2. ~overlapped BY <1>1, <1>4, CronAlone
  <2>3. \A t \in Pickups : SentByIts(t) BY <2>2 DEF Once
  <2>4. ASSUME NEW T \in Times, Ran(T) PROVE Ran(T)' /\ T # now
    BY <2>1, <2>4 DEF Ran
  <2>5. \A t \in Pickups : SentByIts(t)' BY <2>1, <2>3, <2>4 DEF SentByIts, LooksFor
  <2>6. ASSUME pc'[Cron] = "remind"
        PROVE  reminders[pickup] = 0 /\ LooksFor(now, pickup)
    <3>1. pickup \in ReminderWindow(TRUE)
      BY <1>1, <1>4, <2>1, <2>6 DEF SendReminders, procVars
    <3>2. /\ now + ReminderAhead - Hour <= pickup
          /\ now + ReminderAhead - Hour # pickup
          /\ pickup <= now + ReminderAhead
      BY <3>1 DEF ReminderWindow
    <3>3. now \in Int /\ pickup \in Int /\ ReminderAhead \in Int /\ Hour \in Int
      BY <1>1
    <3>4. pickup - ReminderAhead <= now /\ now < pickup - ReminderAhead + Hour
      BY <3>2, <3>3
    <3>5. LooksFor(now, pickup)
      BY <2>1, <3>4 DEF LooksFor, CronInv, CronOnTime
    <3>6. ASSUME reminders[pickup] = 1 PROVE FALSE
      <4>1. PICK T \in Times : LooksFor(T, pickup) /\ Ran(T)
        BY <1>1, <2>3, <3>6 DEF SentByIts
      <4>2. T = now BY <1>1, <3>5, <4>1, OneLooks
      <4>3. QED BY <2>4, <4>1, <4>2
    <3>7. reminders[pickup] \in Nat /\ reminders[pickup] <= 1
      BY <1>1, <2>3 DEF SentByIts
    <3>8. QED BY <3>5, <3>6, <3>7
  <2>7. QED BY <2>1, <2>5, <2>6 DEF LooksFor
<1>5. CASE SendJourneyReminder
  <2>1. /\ UNCHANGED <<now, pickup, cronDue>> /\ pc[Cron] = "remind"
        /\ reminders' = [reminders EXCEPT ![pickup] = @ + 1]
        /\ pc'[Cron] = "idle"
    BY <1>1, <1>5 DEF SendJourneyReminder, Return, GotoWith, bookingVars
  <2>2. ~overlapped BY <1>1, <1>5, CronAlone
  <2>3. /\ \A t \in Pickups : SentByIts(t)
        /\ reminders[pickup] = 0 /\ LooksFor(now, pickup) /\ ~cronDue
    BY <2>1, <2>2 DEF Once
  <2>4. Ran(now)'
    <3>1. now' <= now' BY <1>1, <2>1
    <3>2. QED BY <2>1, <2>3, <3>1 DEF Ran
  <2>5. ASSUME NEW T, Ran(T) PROVE Ran(T)' BY <2>1, <2>3, <2>5 DEF Ran
  <2>6. ASSUME NEW t \in Pickups PROVE SentByIts(t)'
    <3>1. CASE t = pickup
      <4>1. reminders'[t] = 1 BY <1>1, <2>1, <2>3, <3>1
      <4>2. LooksFor(now, t)' BY <2>1, <2>3, <3>1 DEF LooksFor
      <4>3. now' \in Times BY <1>1, <2>1
      <4>4. Ran(now)' /\ now' = now BY <2>1, <2>4
      <4>5. QED BY <1>1, <4>1, <4>2, <4>4 DEF SentByIts, LooksFor, Ran
    <3>2. CASE t # pickup
      <4>1. reminders'[t] = reminders[t] BY <1>1, <2>1, <3>2
      <4>2. SentByIts(t) BY <2>3
      <4>3. QED BY <2>5, <4>1, <4>2 DEF SentByIts, LooksFor
    <3>3. QED BY <3>1, <3>2
  <2>7. QED BY <2>1, <2>6
<1>6. CASE UNCHANGED vars
  BY <1>6 DEF Once, SentByIts, Ran, LooksFor, vars, bookingVars, cronVars,
              historyVars, procVars
<1>7. QED BY <1>2, <1>3, <1>4, <1>5, <1>6 DEF Next

\* One reminder about one pickup time, as long as no two handlers overlap and
\* the callback never runs in the millisecond of the hour.
\* (journey-reminder-scheduler.service.ts:30.)
THEOREM RemindedOnceAlways == Spec => []RemindedOnce
<1>1. Init => Once
  BY DEF Init, Once, SentByIts
<1>2. Once => RemindedOnce BY DEF Once, SentByIts, RemindedOnce
<1>3. QED BY <1>1, <1>2, NextKeepsOnce, CronAlways, PTL DEF Spec

\* The customer hears of a journey once, and in time.
\* (journey-reminder-scheduler.service.ts:20-94.)
THEOREM RemindedAlways == Spec => []Reminded
<1>1. RemindedOnce /\ RemindedInTime => Reminded BY DEF Reminded
<1>2. QED BY <1>1, RemindedOnceAlways, RemindedInTimeAlways, PTL
=============================================================================
