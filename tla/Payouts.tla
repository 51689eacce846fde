------------------------------ MODULE Payouts ------------------------------
(***************************************************************************)
(* From the assigned job to the operator's money: the operator submits     *)
(* driver details and reports completion, an administrator confirms or     *)
(* rejects it, the weekly scheduler (or an administrator) selects the jobs *)
(* to pay and marks them PROCESSING, and an administrator records the bank *)
(* transfer.                                                               *)
(*                                                                         *)
(* Handlers are sequences of awaits as in Auction.  Days are counted up to *)
(* the hold period, and a week has WeekLength days.  Abstractions: the     *)
(* operators are approved and have bank details; every driver and vehicle  *)
(* is active; completeJob may be called at any time, since a call before   *)
(* the end of the journey changes nothing; amounts are left out, because a *)
(* job is always paid its winning bid, and the transactions that pay a job *)
(* are counted.  completedAt is the rank of the time among the confirmed   *)
(* completions: no two have the same, and orderBy completedAt is its order.*)
(***************************************************************************)
EXTENDS Naturals, FiniteSets

CONSTANTS
    Jobs,         \* assigned jobs
    Operators,
    Owner,        \* job.assignedOperatorId
    HeldBack,     \* JOBS_HELD_FOR_NEXT_PAYOUT
    DelayDays,    \* INITIAL_PAYOUT_DELAY_DAYS
    WeekLength,   \* days in a week
    CronDay,      \* day of the week of the cron expression
    PayoutDay,    \* PAYOUT_DAY_OF_WEEK
    Offices,      \* concurrent requests of operators
    Admins,       \* concurrent requests of administrators
    Cron,         \* the scheduler
    Requests,     \* the requests that are issued
    Overlap,      \* may a handler run between two awaits of another?
    MaxCompletions, \* bound on confirmed completions of an operator
    None          \* null

Procs == Offices \union Admins \union {Cron}

ASSUME PayoutsAssumption ==
    /\ IsFiniteSet(Jobs)
    /\ Owner \in [Jobs -> Operators]
    /\ HeldBack \in Nat /\ DelayDays \in Nat
    /\ WeekLength \in Nat \ {0}
    /\ CronDay \in 0 .. WeekLength - 1 /\ PayoutDay \in 0 .. WeekLength - 1
    /\ None \notin Jobs

VARIABLES
    jobStatus,      \* job.status
    bookingStatus,  \* booking.status
    payoutStatus,   \* job.payoutStatus
    completedAt,    \* job.completedAt, or 0
    clock,          \* completions confirmed so far
    age,            \* days since completedAt, counted up to DelayDays
    paid,           \* OPERATOR_PAYOUT transactions that pay the job
    completedJobs,  \* operatorProfile.completedJobs
    weekday,        \* today
    cronDue,        \* the cron expression has fired
    pc,             \* next step of each handler
    arg,            \* what the handler has read
    confirmed,      \* history: how often a job's completion was confirmed
    byHand          \* history: the jobs an administrator initiated payouts of

jobVars == <<jobStatus, bookingStatus, completedAt, clock, age, completedJobs>>
timeVars == <<weekday, cronDue>>
procVars == <<pc, arg>>
histVars == <<confirmed, byHand>>
vars == <<jobVars, payoutStatus, paid, timeVars, procVars, histVars>>

JobStatus == {"ASSIGNED", "IN_PROGRESS", "PENDING_COMPLETION", "COMPLETED"}
PayoutStatus == {"NOT_ELIGIBLE", "PENDING", "PROCESSING", "COMPLETED"}
PC == {"idle", "complete", "confirm", "reject", "summarise", "mark",
       "initiate", "payout.record", "payout.mark"}

\* job: the job of a request; jobs: the jobs collected or listed;
\* todo: the operators the scheduler has not summarised.
Arg == [job : Jobs \union {None}, jobs : SUBSET Jobs, todo : SUBSET Operators]
NoArg == [job |-> None, jobs |-> {}, todo |-> {}]

TypeOK ==
    /\ jobStatus \in [Jobs -> JobStatus]
    /\ bookingStatus \in [Jobs -> {"ASSIGNED", "COMPLETED"}]
    /\ payoutStatus \in [Jobs -> PayoutStatus]
    /\ completedAt \in [Jobs -> Nat]
    /\ clock \in Nat
    /\ age \in [Jobs -> 0 .. DelayDays]
    /\ paid \in [Jobs -> Nat]
    /\ completedJobs \in [Operators -> Nat]
    /\ weekday \in 0 .. WeekLength - 1
    /\ cronDue \in BOOLEAN
    /\ pc \in [Procs -> PC]
    /\ arg \in [Procs -> Arg]
    /\ confirmed \in [Jobs -> Nat]
    /\ byHand \subseteq Jobs

Init ==
    /\ jobStatus = [j \in Jobs |-> "ASSIGNED"]
    /\ bookingStatus = [j \in Jobs |-> "ASSIGNED"]
    /\ payoutStatus = [j \in Jobs |-> "NOT_ELIGIBLE"]
    /\ completedAt = [j \in Jobs |-> 0]
    /\ clock = 0
    /\ age = [j \in Jobs |-> 0]
    /\ paid = [j \in Jobs |-> 0]
    /\ completedJobs = [o \in Operators |-> 0]
    /\ weekday = CronDay
    /\ cronDue = FALSE
    /\ pc = [p \in Procs |-> "idle"]
    /\ arg = [p \in Procs |-> NoArg]
    /\ confirmed = [j \in Jobs |-> 0]
    /\ byHand = {}

----------------------------------------------------------------------------
(* Handlers: start at a free process, continue at pc, return to "idle" *)

Idle == \A p \in Procs : pc[p] = "idle"

Free(p) == pc[p] = "idle" /\ (Overlap \/ Idle)

Request(p, name) == name \in Requests /\ Free(p)

Goto(p, step) == pc' = [pc EXCEPT ![p] = step] /\ UNCHANGED arg

GotoWith(p, step, a) ==
    /\ pc' = [pc EXCEPT ![p] = step]
    /\ arg' = [arg EXCEPT ![p] = a]

Return(p) == GotoWith(p, "idle", NoArg)

----------------------------------------------------------------------------
(* The journey *)

\* submitDriverDetails looks at the operator, the driver and the vehicle,
\* never at the job's status.  "replaceDriver" is a call after the first.
SubmitDriverDetails(p, j) ==
    /\ p \in Offices
    /\ \/ Request(p, "submitDriverDetails") /\ jobStatus[j] = "ASSIGNED"
       \/ Request(p, "replaceDriver") /\ jobStatus[j] # "ASSIGNED"
    /\ jobStatus' = [jobStatus EXCEPT ![j] = "IN_PROGRESS"]
    /\ UNCHANGED <<bookingStatus, completedAt, clock, age, completedJobs,
                   payoutStatus, paid, timeVars, procVars, histVars>>

CompleteJob(p, j) ==
    /\ p \in Offices /\ Request(p, "completeJob")
    /\ jobStatus[j] \in {"ASSIGNED", "IN_PROGRESS"}
    /\ GotoWith(p, "complete", [NoArg EXCEPT !.job = j])
    /\ UNCHANGED <<jobVars, payoutStatus, paid, timeVars, histVars>>

WritePendingCompletion(p) ==
    /\ pc[p] = "complete"
    /\ jobStatus' = [jobStatus EXCEPT ![arg[p].job] = "PENDING_COMPLETION"]
    /\ Return(p)
    /\ UNCHANGED <<bookingStatus, completedAt, clock, age, completedJobs,
                   payoutStatus, paid, timeVars, histVars>>

\* confirmJobCompletion and rejectJobCompletion
ReviewCompletion(p, j) ==
    /\ p \in Admins /\ Request(p, "reviewCompletion")
    /\ jobStatus[j] = "PENDING_COMPLETION"
    /\ completedJobs[Owner[j]] < MaxCompletions
    /\ \E step \in {"confirm", "reject"} :
          GotoWith(p, step, [NoArg EXCEPT !.job = j])
    /\ UNCHANGED <<jobVars, payoutStatus, paid, timeVars, histVars>>

\* One transaction; completedAt is now.
WriteConfirmed(p) ==
    /\ pc[p] = "confirm"
    /\ LET j == arg[p].job IN
       /\ jobStatus' = [jobStatus EXCEPT ![j] = "COMPLETED"]
       /\ bookingStatus' = [bookingStatus EXCEPT ![j] = "COMPLETED"]
       /\ payoutStatus' = [payoutStatus EXCEPT ![j] = "PENDING"]
       /\ completedAt' = [completedAt EXCEPT ![j] = clock + 1]
       /\ age' = [age EXCEPT ![j] = 0]
       /\ completedJobs' = [completedJobs EXCEPT ![Owner[j]] = @ + 1]
       /\ confirmed' = [confirmed EXCEPT ![j] = @ + 1]
    /\ clock' = clock + 1
    /\ Return(p)
    /\ UNCHANGED <<paid, timeVars, byHand>>

WriteRejected(p) ==
    /\ pc[p] = "reject"
    /\ jobStatus' = [jobStatus EXCEPT ![arg[p].job] = "IN_PROGRESS"]
    /\ Return(p)
    /\ UNCHANGED <<bookingStatus, completedAt, clock, age, completedJobs,
                   payoutStatus, paid, timeVars, histVars>>

----------------------------------------------------------------------------
(* The jobs to pay *)

\* The jobs of S that were completed after j.
CompletedAfter(j, S) == {k \in S : completedAt[k] > completedAt[j]}

\* Seeded bug: one too few is held back.
AllButTooMany(S, n) ==
    {j \in S : Cardinality(CompletedAfter(j, S)) + 1 >= n}

\* All but the n most recent, none if there are no more than n.
AllButMostRecent(S, n) == {j \in S : Cardinality(CompletedAfter(j, S)) >= n}

JobsOf(o) == {j \in Jobs : Owner[j] = o}

Payable(j) == jobStatus[j] = "COMPLETED" /\ payoutStatus[j] = "PENDING"

\* Seeded bug: no hold period.
EligibleAtOnce(o) == AllButMostRecent({j \in JobsOf(o) : Payable(j)}, HeldBack)

\* getEligibleJobsForOperator: of the jobs past the hold period, all but the
\* HeldBack most recent.
EligibleJobs(o) ==
    AllButMostRecent({j \in JobsOf(o) : Payable(j) /\ age[j] >= DelayDays},
                     HeldBack)

\* The completed jobs for which no payout has started.
Unpaid(o) ==
    {j \in JobsOf(o) : /\ jobStatus[j] = "COMPLETED"
                       /\ payoutStatus[j] \notin {"PROCESSING", "COMPLETED"}}

\* Seeded bug: the last day of the hold period is not over.
ForecastADayLate(o) ==
    {j \in AllButMostRecent(Unpaid(o), HeldBack) :
        HeldBack > 0 /\ age[j] > DelayDays}

\* getPayoutsForecast shows an administrator the jobs "eligible now": of all
\* completed jobs all but the HeldBack most recent, if past the hold period.
\* slice(-n) with n = 0 is the whole list.
ForecastEligible(o) ==
    {j \in AllButMostRecent(Unpaid(o), HeldBack) :
        HeldBack > 0 /\ age[j] >= DelayDays}

----------------------------------------------------------------------------
(* The scheduler *)

\* handleWeeklyPayoutProcessing
RunPayouts ==
    /\ cronDue /\ Free(Cron)
    /\ cronDue' = FALSE
    /\ IF weekday = PayoutDay
       THEN GotoWith(Cron, "summarise", [NoArg EXCEPT !.todo = Operators])
       ELSE UNCHANGED procVars
    /\ UNCHANGED <<jobVars, payoutStatus, paid, weekday, histVars>>

\* Seeded bug: the first operator without eligible jobs ends the run.
SummariseUntilNone(o) ==
    /\ pc[Cron] = "summarise" /\ o \in arg[Cron].todo
    /\ LET jobs == arg[Cron].jobs \union EligibleJobs(o)
           todo == IF EligibleJobs(o) = {} THEN {} ELSE arg[Cron].todo \ {o}
       IN IF todo # {}
          THEN GotoWith(Cron, "summarise",
                        [arg[Cron] EXCEPT !.jobs = jobs, !.todo = todo])
          ELSE IF jobs = {} THEN Return(Cron)
          ELSE GotoWith(Cron, "mark", [NoArg EXCEPT !.jobs = jobs])
    /\ UNCHANGED <<jobVars, payoutStatus, paid, timeVars, histVars>>

\* calculatePayoutSummaries: one query per operator.
Summarise(o) ==
    /\ pc[Cron] = "summarise" /\ o \in arg[Cron].todo
    /\ LET jobs == arg[Cron].jobs \union EligibleJobs(o)
           todo == arg[Cron].todo \ {o}
       IN \/ todo # {} /\ GotoWith(Cron, "summarise",
                            [arg[Cron] EXCEPT !.jobs = jobs, !.todo = todo])
          \/ todo = {} /\ jobs = {} /\ Return(Cron)
          \/ todo = {} /\ jobs # {} /\ GotoWith(Cron, "mark",
                            [NoArg EXCEPT !.jobs = jobs])
    /\ UNCHANGED <<jobVars, payoutStatus, paid, timeVars, histVars>>

\* markJobsAsProcessing: no condition on the status.
MarkJobsAsProcessing(p) ==
    /\ pc[p] \in {"mark", "initiate"}
    /\ payoutStatus' = [j \in Jobs |-> IF j \in arg[p].jobs THEN "PROCESSING"
                                       ELSE payoutStatus[j]]
    /\ Return(p)
    /\ UNCHANGED <<jobVars, paid, timeVars, histVars>>

----------------------------------------------------------------------------
(* Administrators *)

\* An administrator looks at the pending payouts of an operator and then
\* initiates some of them by hand.
InitiatePayouts(p, o, S) ==
    /\ p \in Admins /\ Request(p, "initiatePayouts")
    /\ S # {} /\ S \subseteq EligibleJobs(o)
    /\ GotoWith(p, "initiate", [NoArg EXCEPT !.jobs = S])
    /\ byHand' = byHand \union S
    /\ UNCHANGED <<jobVars, payoutStatus, paid, timeVars, confirmed>>

\* Seeded bug: the payout status is not checked.
CompleteAnyPayout(p, o, S) ==
    /\ p \in Admins /\ Request(p, "completePayout")
    /\ S # {} /\ \A j \in S : Owner[j] = o /\ jobStatus[j] = "COMPLETED"
    /\ GotoWith(p, "payout.record", [NoArg EXCEPT !.jobs = S])
    /\ UNCHANGED <<jobVars, payoutStatus, paid, timeVars, histVars>>

\* completePayout: every job must be PROCESSING ...
CompletePayout(p, o, S) ==
    /\ p \in Admins /\ Request(p, "completePayout")
    /\ S # {} /\ \A j \in S : Owner[j] = o /\ payoutStatus[j] = "PROCESSING"
    /\ GotoWith(p, "payout.record", [NoArg EXCEPT !.jobs = S])
    /\ UNCHANGED <<jobVars, payoutStatus, paid, timeVars, histVars>>

\* ... when it was read: the transaction, then the status, whatever it is.
RecordPayout(p) ==
    /\ pc[p] = "payout.record"
    /\ paid' = [j \in Jobs |-> IF j \in arg[p].jobs THEN paid[j] + 1 ELSE paid[j]]
    /\ Goto(p, "payout.mark")
    /\ UNCHANGED <<jobVars, payoutStatus, timeVars, histVars>>

MarkPayoutCompleted(p) ==
    /\ pc[p] = "payout.mark"
    /\ payoutStatus' = [j \in Jobs |-> IF j \in arg[p].jobs THEN "COMPLETED"
                                       ELSE payoutStatus[j]]
    /\ Return(p)
    /\ UNCHANGED <<jobVars, paid, timeVars, histVars>>

----------------------------------------------------------------------------
(* The specification *)

DayPasses ==
    /\ ~cronDue
    /\ weekday' = (weekday + 1) % WeekLength
    /\ cronDue' = (weekday' = CronDay)
    /\ age' = [j \in Jobs |-> IF jobStatus[j] = "COMPLETED" /\ age[j] < DelayDays
                              THEN age[j] + 1 ELSE age[j]]
    /\ UNCHANGED <<jobStatus, bookingStatus, completedAt, clock, completedJobs,
                   payoutStatus, paid, procVars, histVars>>

StartRequest(p) ==
    \/ \E j \in Jobs :
          SubmitDriverDetails(p, j) \/ CompleteJob(p, j) \/ ReviewCompletion(p, j)
    \/ \E o \in Operators, S \in SUBSET Jobs :
          InitiatePayouts(p, o, S) \/ CompletePayout(p, o, S)

Continue(p) ==
    \/ WritePendingCompletion(p)
    \/ WriteConfirmed(p)
    \/ WriteRejected(p)
    \/ MarkJobsAsProcessing(p)
    \/ RecordPayout(p)
    \/ MarkPayoutCompleted(p)

SummariseNext == \E o \in Operators : Summarise(o)

Next ==
    \/ \E p \in Procs : StartRequest(p) \/ Continue(p)
    \/ RunPayouts
    \/ SummariseNext
    \/ DayPasses

Spec == Init /\ [][Next]_vars

\* Days pass, the scheduler runs, a started handler goes on; no operator or
\* administrator has to act.
Fairness ==
    /\ WF_vars(DayPasses)
    /\ WF_vars(RunPayouts)
    /\ WF_vars(SummariseNext)
    /\ \A p \in Procs : WF_vars(Continue(p))

FairSpec == Spec /\ Fairness

----------------------------------------------------------------------------
(* What holds however handlers overlap *)

\* However often a job is reopened and completed again, it is not paid more
\* often than its completion was confirmed, if only the scheduler starts its
\* payouts and one administrator completes them: the statuses that the
\* scheduler and completePayout write blindly cannot be stale
\* (payouts.service.ts:199-284, admin.service.ts:2476-2499).
PaidWithinConfirmed ==
    (\A a, b \in Admins : a = b) =>
        \A j \in Jobs \ byHand : paid[j] <= confirmed[j]

\* No job of the operator was opened again after its completion.
Steady(o) ==
    \A j \in JobsOf(o) :
        confirmed[j] > 0 => confirmed[j] = 1 /\ jobStatus[j] = "COMPLETED"

Completed(o) == {j \in JobsOf(o) : jobStatus[j] = "COMPLETED"}

\* The platform keeps back HeldBack jobs of an operator, or all of them if
\* there are fewer: runs of the scheduler that overlap with administrators'
\* choices do not eat into them (payouts.service.ts:113-120).
HeldBackUnpaid ==
    \A o \in Operators :
        LET unpaid == {j \in Completed(o) : payoutStatus[j] = "PENDING"} IN
        Steady(o) => Cardinality(unpaid) >= HeldBack \/ unpaid = Completed(o)

\* No payout starts within the hold period after the first completion
\* (payouts.service.ts:82-94): a selection made earlier and written after
\* other awaits is not out of date.
HeldForDelay ==
    \A j \in Jobs :
        confirmed[j] = 1 /\ payoutStatus[j] \in {"PROCESSING", "COMPLETED"} =>
            age[j] = DelayDays

\* Every job the scheduler would pay is shown as eligible in the forecast
\* (payouts.service.ts:405-406).
EligibleInForecast == \A o \in Operators : EligibleJobs(o) \subseteq ForecastEligible(o)

\* A completed job with HeldBack later ones is paid out by the scheduler,
\* without anybody's help ("weekly", data.md:186).
CompletedIsPaid ==
    \A j \in Jobs :
        j \in AllButMostRecent({k \in JobsOf(Owner[j]) : Payable(k)}, HeldBack)
            ~> payoutStatus[j] \in {"PROCESSING", "COMPLETED"}

----------------------------------------------------------------------------
(* What the documentation says and the code does not do *)

\* "Payout amount = Winning Bid Amount" (docs/FEATURES.md:184): a job is paid
\* once.
PaidOut == \A j \in Jobs : paid[j] <= 1

\* "For assigned jobs: submit driver details" (docs/FEATURES.md:103): a
\* completed job stays completed.
CompletedForGood ==
    [][\A j \in Jobs : jobStatus[j] = "COMPLETED" => jobStatus'[j] = "COMPLETED"]_vars

\* The forecast gives "admin visibility into: eligible now"
\* (payouts.service.ts:406): those are the jobs the scheduler would pay.
ForecastIsExact == \A o \in Operators : ForecastEligible(o) \subseteq EligibleJobs(o)
=============================================================================
