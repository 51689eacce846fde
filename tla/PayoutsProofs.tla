--------------------------- MODULE PayoutsProofs ---------------------------
(***************************************************************************)
(* Proofs about Payouts, for any number of jobs, operators and concurrent  *)
(* requests, any settings, with or without overlapping handlers, and for   *)
(* any requests, those that open completed jobs again included: types, the *)
(* hold period, the jobs held back, the payments of a job, and that the    *)
(* forecast shows what the scheduler pays.                                 *)
(***************************************************************************)
EXTENDS Payouts, FiniteSetTheorems, WellFoundedInduction, TLAPS

----------------------------------------------------------------------------
(* Lemmas about numbers, sets and the helpers *)

\* A set of natural numbers that is not empty has a least element.
LEMMA LeastNat ==
    ASSUME NEW T, T \subseteq Nat, T # {}
    PROVE  \E n \in T : \A m \in T : n <= m
  <1> DEFINE Less == OpToRel(<, Nat)
  <1>1. IsWellFoundedOn(Less, Nat)
    BY NatLessThanWellFounded
  <1>2. \E x \in T : \A y \in T : ~ (<<y, x>> \in Less)
    <2> HIDE DEF Less
    <2>1. QED BY <1>1, WFMin
  <1>3. \A x, y \in Nat : x < y => <<x, y>> \in Less
    BY DEF OpToRel
  <1> HIDE DEF Less
  <1>4. PICK n \in T : \A y \in T : ~ (<<y, n>> \in Less)
    BY <1>2
  <1>5. ASSUME NEW m \in T PROVE n <= m
    <2>1. n \in Nat /\ m \in Nat OBVIOUS
    <2>2. ~ (m < n) BY <1>3, <1>4, <2>1
    <2>3. QED BY <2>1, <2>2
  <1>6. QED BY <1>5

\* Sets of jobs are finite, and a larger one has no fewer elements.
LEMMA JobSets ==
    ASSUME NEW S, NEW T, S \subseteq T, T \subseteq Jobs
    PROVE  /\ Cardinality(S) \in Nat /\ Cardinality(T) \in Nat
           /\ Cardinality(S) <= Cardinality(T)
  <1>1. IsFiniteSet(Jobs)
    BY PayoutsAssumption DEF PayoutsAssumption
  <1>2. IsFiniteSet(T)
    BY <1>1, FS_Subset
  <1>3. IsFiniteSet(S) /\ Cardinality(S) <= Cardinality(T)
    BY <1>2, FS_Subset
  <1>4. QED BY <1>2, <1>3, FS_CardinalityType

\* A job that is not among the n most recent of a set is not among the n most
\* recent of a larger one.
LEMMA MoreRecentInLarger ==
    ASSUME NEW S, NEW T, S \subseteq T, T \subseteq Jobs,
           NEW n \in Nat, NEW j \in AllButMostRecent(S, n)
    PROVE  j \in S /\ j \in AllButMostRecent(T, n)
  <1>1. j \in S /\ Cardinality(CompletedAfter(j, S)) >= n
    BY DEF AllButMostRecent
  <1>2. /\ CompletedAfter(j, S) \subseteq CompletedAfter(j, T)
        /\ CompletedAfter(j, T) \subseteq Jobs
    BY DEF CompletedAfter
  <1>3. Cardinality(CompletedAfter(j, T)) >= n
    BY <1>1, <1>2, JobSets
  <1>4. QED BY <1>1, <1>3 DEF AllButMostRecent

\* What moving a handler to another step does.
LEMMA GotoWithType ==
    ASSUME TypeOK, NEW p \in Procs, NEW step \in PC, NEW a \in Arg,
           GotoWith(p, step, a)
    PROVE  /\ pc' \in [Procs -> PC] /\ arg' \in [Procs -> Arg]
           /\ pc'[p] = step /\ arg'[p] = a
           /\ \A q \in Procs : q # p => pc'[q] = pc[q] /\ arg'[q] = arg[q]
  <1>1. pc \in [Procs -> PC] /\ arg \in [Procs -> Arg]
    BY DEF TypeOK
  <1>2. pc' = [pc EXCEPT ![p] = step] /\ arg' = [arg EXCEPT ![p] = a]
    BY DEF GotoWith
  <1>3. QED BY <1>1, <1>2

\* The arguments of a handler that starts.
LEMMA NoArgType ==
    /\ NoArg \in Arg /\ NoArg.jobs = {}
    /\ \A j \in Jobs : LET a == [NoArg EXCEPT !.job = j] IN
          a \in Arg /\ a.jobs = {}
    /\ \A S \in SUBSET Jobs : LET a == [NoArg EXCEPT !.jobs = S] IN
          a \in Arg /\ a.jobs = S
    /\ LET a == [NoArg EXCEPT !.todo = Operators] IN a \in Arg /\ a.jobs = {}
  BY DEF NoArg, Arg

\* What returning does.
LEMMA ReturnType ==
    ASSUME TypeOK, NEW p \in Procs, Return(p)
    PROVE  /\ pc' \in [Procs -> PC] /\ arg' \in [Procs -> Arg]
           /\ pc'[p] = "idle" /\ arg'[p].jobs = {}
           /\ \A q \in Procs : q # p => pc'[q] = pc[q] /\ arg'[q] = arg[q]
  <1>1. GotoWith(p, "idle", NoArg) /\ "idle" \in PC
    BY DEF Return, PC
  <1>2. QED BY <1>1, NoArgType, GotoWithType

\* What starting a request about a job, about a set of jobs, or the weekly run
\* does.
LEMMA GotoJob ==
    ASSUME TypeOK, NEW p \in Procs, NEW step \in PC, NEW k \in Jobs,
           GotoWith(p, step, [NoArg EXCEPT !.job = k])
    PROVE  /\ pc' \in [Procs -> PC] /\ arg' \in [Procs -> Arg]
           /\ pc'[p] = step /\ arg'[p].jobs = {}
           /\ \A q \in Procs : q # p => pc'[q] = pc[q] /\ arg'[q] = arg[q]
  <1> DEFINE a == [NoArg EXCEPT !.job = k]
  <1>1. a \in Arg /\ a.jobs = {}
    BY NoArgType
  <1>2. GotoWith(p, step, a)
    OBVIOUS
  <1> HIDE DEF a
  <1>3. QED BY <1>1, <1>2, GotoWithType

LEMMA GotoJobs ==
    ASSUME TypeOK, NEW p \in Procs, NEW step \in PC, NEW S \in SUBSET Jobs,
           GotoWith(p, step, [NoArg EXCEPT !.jobs = S])
    PROVE  /\ pc' \in [Procs -> PC] /\ arg' \in [Procs -> Arg]
           /\ pc'[p] = step /\ arg'[p].jobs = S
           /\ \A q \in Procs : q # p => pc'[q] = pc[q] /\ arg'[q] = arg[q]
  <1> DEFINE a == [NoArg EXCEPT !.jobs = S]
  <1>1. a \in Arg /\ a.jobs = S
    BY NoArgType
  <1>2. GotoWith(p, step, a)
    OBVIOUS
  <1> HIDE DEF a
  <1>3. QED BY <1>1, <1>2, GotoWithType

LEMMA RunType ==
    ASSUME TypeOK, RunPayouts
    PROVE  /\ pc' \in [Procs -> PC] /\ arg' \in [Procs -> Arg]
           /\ \/ pc'[Cron] = "summarise" /\ arg'[Cron].jobs = {}
              \/ pc' = pc /\ arg' = arg
           /\ \A q \in Procs : q # Cron => pc'[q] = pc[q] /\ arg'[q] = arg[q]
  <1>0. Cron \in Procs /\ "summarise" \in PC
    BY DEF Procs, PC
  <1>1. CASE weekday = PayoutDay
    <2> DEFINE a == [NoArg EXCEPT !.todo = Operators]
    <2>1. a \in Arg /\ a.jobs = {}
      BY NoArgType
    <2>2. GotoWith(Cron, "summarise", a)
      BY <1>1 DEF RunPayouts
    <2> HIDE DEF a
    <2>3. QED BY <1>0, <2>1, <2>2, GotoWithType
  <1>2. CASE weekday # PayoutDay
    BY <1>2 DEF RunPayouts, procVars, TypeOK
  <1>3. QED BY <1>1, <1>2

\* What the scheduler does with one operator's eligible jobs.
LEMMA SummariseType ==
    ASSUME TypeOK, NEW o \in Operators, Summarise(o)
    PROVE  /\ pc[Cron] = "summarise"
           /\ pc' \in [Procs -> PC] /\ arg' \in [Procs -> Arg]
           /\ pc'[Cron] \in {"summarise", "mark", "idle"}
           /\ arg'[Cron].jobs \subseteq arg[Cron].jobs \union EligibleJobs(o)
           /\ \A q \in Procs : q # Cron => pc'[q] = pc[q] /\ arg'[q] = arg[q]
  <1> DEFINE jobs == arg[Cron].jobs \union EligibleJobs(o)
             todo == arg[Cron].todo \ {o}
  <1>1. Cron \in Procs /\ {"summarise", "mark", "idle"} \subseteq PC
    BY DEF Procs, PC
  <1>2. arg[Cron] \in Arg
    BY <1>1 DEF TypeOK
  <1>3. jobs \subseteq Jobs /\ todo \subseteq Operators
    BY <1>2 DEF Arg, EligibleJobs, AllButMostRecent, JobsOf
  <1>4. pc[Cron] = "summarise"
    BY DEF Summarise
  <1>5. \/ GotoWith(Cron, "summarise", [arg[Cron] EXCEPT !.jobs = jobs, !.todo = todo])
        \/ Return(Cron)
        \/ GotoWith(Cron, "mark", [NoArg EXCEPT !.jobs = jobs])
    BY DEF Summarise
  <1> HIDE DEF jobs, todo
  <1>6. CASE GotoWith(Cron, "summarise",
                      [arg[Cron] EXCEPT !.jobs = jobs, !.todo = todo])
    <2> DEFINE a == [arg[Cron] EXCEPT !.jobs = jobs, !.todo = todo]
    <2>1. a \in Arg /\ a.jobs = jobs
      BY <1>2, <1>3 DEF Arg
    <2> HIDE DEF a
    <2>2. GotoWith(Cron, "summarise", a)
      BY <1>6 DEF a
    <2>3. QED BY <1>1, <1>4, <2>1, <2>2, GotoWithType DEF jobs
  <1>7. CASE Return(Cron)
    BY <1>1, <1>4, <1>7, ReturnType
  <1>8. CASE GotoWith(Cron, "mark", [NoArg EXCEPT !.jobs = jobs])
    <2> DEFINE a == [NoArg EXCEPT !.jobs = jobs]
    <2>1. a \in Arg /\ a.jobs = jobs
      BY <1>3, NoArgType
    <2> HIDE DEF a
    <2>2. GotoWith(Cron, "mark", a)
      BY <1>8 DEF a
    <2>3. QED BY <1>1, <1>4, <2>1, <2>2, GotoWithType DEF jobs
  <1>9. QED BY <1>5, <1>6, <1>7, <1>8

\* What the eligible jobs of an operator are.
LEMMA EligibleAre ==
    ASSUME NEW o \in Operators, NEW j \in EligibleJobs(o)
    PROVE  /\ j \in Jobs /\ Owner[j] = o
           /\ jobStatus[j] = "COMPLETED" /\ payoutStatus[j] = "PENDING"
           /\ age[j] >= DelayDays
           /\ Cardinality(CompletedAfter(j, Completed(o))) >= HeldBack
  <1> DEFINE S == {k \in JobsOf(o) : Payable(k) /\ age[k] >= DelayDays}
  <1>1. j \in AllButMostRecent(S, HeldBack)
    BY DEF EligibleJobs
  <1>2. S \subseteq Completed(o) /\ Completed(o) \subseteq Jobs
    BY DEF Completed, JobsOf, Payable
  <1> HIDE DEF S
  <1>3. j \in S /\ j \in AllButMostRecent(Completed(o), HeldBack)
    BY <1>1, <1>2, MoreRecentInLarger, PayoutsAssumption DEF PayoutsAssumption
  <1>4. QED BY <1>3 DEF S, JobsOf, Payable, AllButMostRecent

----------------------------------------------------------------------------
(* Types *)

\* Every variable keeps its type in every step: a handler's selection is a set
\* of jobs, and the ages stay within the hold period.
LEMMA TypeStep == TypeOK /\ [Next]_vars => TypeOK'
  <1> SUFFICES ASSUME TypeOK, [Next]_vars PROVE TypeOK'
    OBVIOUS
  <1> USE DEF jobVars, timeVars, procVars, histVars
  <1>1. ASSUME NEW p \in Procs, NEW j \in Jobs, SubmitDriverDetails(p, j) PROVE TypeOK'
    BY <1>1 DEF SubmitDriverDetails, TypeOK, JobStatus
  <1>2. ASSUME NEW p \in Procs, NEW j \in Jobs, CompleteJob(p, j) PROVE TypeOK'
    <2>1. "complete" \in PC BY DEF PC
    <2>2. pc' \in [Procs -> PC] /\ arg' \in [Procs -> Arg]
      BY <1>2, <2>1, GotoJob DEF CompleteJob
    <2>3. QED BY <1>2, <2>2 DEF CompleteJob, TypeOK
  <1>3. ASSUME NEW p \in Procs, NEW j \in Jobs, ReviewCompletion(p, j) PROVE TypeOK'
    <2>1. {"confirm", "reject"} \subseteq PC BY DEF PC
    <2>2. pc' \in [Procs -> PC] /\ arg' \in [Procs -> Arg]
      BY <1>3, <2>1, GotoJob DEF ReviewCompletion
    <2>3. QED BY <1>3, <2>2 DEF ReviewCompletion, TypeOK
  <1>4. ASSUME NEW p \in Procs, NEW o \in Operators, NEW S \in SUBSET Jobs,
               InitiatePayouts(p, o, S) PROVE TypeOK'
    <2>1. "initiate" \in PC BY DEF PC
    <2>2. pc' \in [Procs -> PC] /\ arg' \in [Procs -> Arg]
      BY <1>4, <2>1, GotoJobs DEF InitiatePayouts
    <2>3. QED BY <1>4, <2>2 DEF InitiatePayouts, TypeOK
  <1>5. ASSUME NEW p \in Procs, NEW o \in Operators, NEW S \in SUBSET Jobs,
               CompletePayout(p, o, S) PROVE TypeOK'
    <2>1. "payout.record" \in PC BY DEF PC
    <2>2. pc' \in [Procs -> PC] /\ arg' \in [Procs -> Arg]
      BY <1>5, <2>1, GotoJobs DEF CompletePayout
    <2>3. QED BY <1>5, <2>2 DEF CompletePayout, TypeOK
  <1>6. ASSUME NEW p \in Procs, WritePendingCompletion(p) PROVE TypeOK'
    <2>1. pc' \in [Procs -> PC] /\ arg' \in [Procs -> Arg]
      BY <1>6, ReturnType DEF WritePendingCompletion
    <2>2. QED BY <1>6, <2>1 DEF WritePendingCompletion, TypeOK, JobStatus
  <1>7. ASSUME NEW p \in Procs, WriteConfirmed(p) PROVE TypeOK'
    <2>1. pc' \in [Procs -> PC] /\ arg' \in [Procs -> Arg]
      BY <1>7, ReturnType DEF WriteConfirmed
    <2>2. "COMPLETED" \in JobStatus /\ "PENDING" \in PayoutStatus
      BY DEF JobStatus, PayoutStatus
    <2>3. /\ jobStatus' \in [Jobs -> JobStatus]
          /\ bookingStatus' \in [Jobs -> {"ASSIGNED", "COMPLETED"}]
          /\ payoutStatus' \in [Jobs -> PayoutStatus]
      BY <1>7, <2>2 DEF WriteConfirmed, TypeOK
    <2> DEFINE j == arg[p].job
    <2>a. /\ completedAt' = [completedAt EXCEPT ![j] = clock + 1]
          /\ clock' = clock + 1
          /\ confirmed' = [confirmed EXCEPT ![j] = @ + 1]
          /\ completedJobs' = [completedJobs EXCEPT ![Owner[j]] = @ + 1]
      BY <1>7 DEF WriteConfirmed
    <2> HIDE DEF j
    <2>b. /\ completedAt \in [Jobs -> Nat] /\ clock \in Nat
          /\ confirmed \in [Jobs -> Nat] /\ completedJobs \in [Operators -> Nat]
      BY DEF TypeOK
    <2>4. completedAt' \in [Jobs -> Nat] /\ clock' \in Nat
      <3>1. clock + 1 \in Nat
        BY <2>b
      <3>2. QED BY <2>a, <2>b, <3>1
    <2>5. confirmed' \in [Jobs -> Nat] /\ completedJobs' \in [Operators -> Nat]
      <3>1. \A n \in Nat : n + 1 \in Nat
        OBVIOUS
      <3>2. confirmed' \in [Jobs -> Nat]
        BY <2>a, <2>b, <3>1
      <3>3. completedJobs' \in [Operators -> Nat]
        BY <2>a, <2>b, <3>1
      <3>4. QED BY <3>2, <3>3
    <2>6. age' \in [Jobs -> 0 .. DelayDays]
      <3>1. 0 \in 0 .. DelayDays
        BY PayoutsAssumption DEF PayoutsAssumption
      <3>2. QED BY <1>7, <3>1 DEF WriteConfirmed, TypeOK
    <2>7. UNCHANGED <<paid, weekday, cronDue, byHand>>
      BY <1>7 DEF WriteConfirmed
    <2>8. QED BY <2>1, <2>3, <2>4, <2>5, <2>6, <2>7 DEF TypeOK
  <1>8. ASSUME NEW p \in Procs, WriteRejected(p) PROVE TypeOK'
    <2>1. pc' \in [Procs -> PC] /\ arg' \in [Procs -> Arg]
      BY <1>8, ReturnType DEF WriteRejected
    <2>2. QED BY <1>8, <2>1 DEF WriteRejected, TypeOK, JobStatus
  <1>9. ASSUME NEW p \in Procs, MarkJobsAsProcessing(p) PROVE TypeOK'
    <2>1. pc' \in [Procs -> PC] /\ arg' \in [Procs -> Arg]
      BY <1>9, ReturnType DEF MarkJobsAsProcessing
    <2>2. QED BY <1>9, <2>1 DEF MarkJobsAsProcessing, TypeOK, PayoutStatus
  <1>10. ASSUME NEW p \in Procs, RecordPayout(p) PROVE TypeOK'
    BY <1>10 DEF RecordPayout, Goto, TypeOK, PC
  <1>11. ASSUME NEW p \in Procs, MarkPayoutCompleted(p) PROVE TypeOK'
    <2>1. pc' \in [Procs -> PC] /\ arg' \in [Procs -> Arg]
      BY <1>11, ReturnType DEF MarkPayoutCompleted
    <2>2. QED BY <1>11, <2>1 DEF MarkPayoutCompleted, TypeOK, PayoutStatus
  <1>12. ASSUME RunPayouts PROVE TypeOK'
    <2>2. pc' \in [Procs -> PC] /\ arg' \in [Procs -> Arg]
      BY <1>12, RunType
    <2>3. QED BY <1>12, <2>2 DEF RunPayouts, TypeOK
  <1>13. ASSUME NEW o \in Operators, Summarise(o) PROVE TypeOK'
    <2>1. pc' \in [Procs -> PC] /\ arg' \in [Procs -> Arg]
      BY <1>13, SummariseType
    <2>2. UNCHANGED <<jobVars, payoutStatus, paid, timeVars, histVars>>
      BY <1>13 DEF Summarise
    <2>3. QED BY <2>1, <2>2 DEF TypeOK
  <1>14. ASSUME DayPasses PROVE TypeOK'
    <2>1. weekday' \in 0 .. WeekLength - 1 /\ cronDue' \in BOOLEAN
      BY <1>14, PayoutsAssumption DEF DayPasses, TypeOK, PayoutsAssumption
    <2>2. age' \in [Jobs -> 0 .. DelayDays]
      BY <1>14, PayoutsAssumption DEF DayPasses, TypeOK, PayoutsAssumption
    <2>3. QED BY <1>14, <2>1, <2>2 DEF DayPasses, TypeOK
  <1>15. CASE UNCHANGED vars
    BY <1>15 DEF vars, TypeOK
  <1>16. QED
    BY <1>1, <1>2, <1>3, <1>4, <1>5, <1>6, <1>7, <1>8, <1>9, <1>10, <1>11,
       <1>12, <1>13, <1>14, <1>15
       DEF Next, StartRequest, Continue, SummariseNext

\* Types, for every value of the constants.
THEOREM PayoutsTypeCorrect == Spec => []TypeOK
  <1>1. Init => TypeOK
    <2> SUFFICES ASSUME Init PROVE TypeOK
      OBVIOUS
    <2>1. "idle" \in PC /\ "ASSIGNED" \in JobStatus /\ "NOT_ELIGIBLE" \in PayoutStatus
      BY DEF PC, JobStatus, PayoutStatus
    <2>2. 0 \in 0 .. DelayDays /\ CronDay \in 0 .. WeekLength - 1
      BY PayoutsAssumption DEF PayoutsAssumption
    <2>3. pc \in [Procs -> PC] /\ arg \in [Procs -> Arg]
      BY <2>1, NoArgType DEF Init
    <2>4. QED BY <2>1, <2>2, <2>3 DEF Init, TypeOK
  <1>2. QED BY <1>1, TypeStep, PTL DEF Spec
----------------------------------------------------------------------------
(* The jobs chosen for a payout *)

Started(j) == payoutStatus[j] \in {"PROCESSING", "COMPLETED"}

\* A payout of the job has started, or a handler holds it and will start one.
Chosen(j) == Started(j) \/ \E p \in Procs : j \in arg[p].jobs

\* The completed jobs of the same operator that were completed after it.
Later(j) == CompletedAfter(j, Completed(Owner[j]))

StatusInv ==
    \A j \in Jobs :
        /\ jobStatus[j] = "COMPLETED" => confirmed[j] > 0
        /\ payoutStatus[j] = "NOT_ELIGIBLE" <=> confirmed[j] = 0
        /\ completedAt[j] <= clock

ChosenInv ==
    \A j \in Jobs :
        Chosen(j) =>
            /\ confirmed[j] > 0
            /\ confirmed[j] = 1 => age[j] = DelayDays
            /\ Steady(Owner[j]) => Cardinality(Later(j)) >= HeldBack

\* The steps that touch the journey: a day passes, a completion is confirmed,
\* or a job gets a status other than COMPLETED.
LEMMA JourneySteps ==
    ASSUME [Next]_vars
    PROVE  \/ UNCHANGED <<jobStatus, completedAt, clock, age, confirmed>>
           \/ DayPasses
           \/ \E p \in Procs : WriteConfirmed(p)
           \/ /\ UNCHANGED <<completedAt, clock, age, confirmed>>
              /\ \E k : \E s \in JobStatus \ {"COMPLETED"} :
                    jobStatus' = [jobStatus EXCEPT ![k] = s]
  <1> USE DEF jobVars, timeVars, procVars, histVars
  <1> DEFINE Same == UNCHANGED <<jobStatus, completedAt, clock, age, confirmed>>
             Other == /\ UNCHANGED <<completedAt, clock, age, confirmed>>
                      /\ \E k : \E s \in JobStatus \ {"COMPLETED"} :
                            jobStatus' = [jobStatus EXCEPT ![k] = s]
  <1>0. {"IN_PROGRESS", "PENDING_COMPLETION"} \subseteq JobStatus \ {"COMPLETED"}
    BY DEF JobStatus
  <1>1. ASSUME NEW p \in Procs, StartRequest(p) PROVE Same \/ Other
    <2>1. ASSUME NEW j \in Jobs, SubmitDriverDetails(p, j) PROVE Other
      BY <1>0, <2>1 DEF SubmitDriverDetails
    <2>2. ASSUME NEW j \in Jobs, CompleteJob(p, j) \/ ReviewCompletion(p, j)
          PROVE  Same
      BY <2>2 DEF CompleteJob, ReviewCompletion
    <2>3. ASSUME NEW o \in Operators, NEW S \in SUBSET Jobs,
                 InitiatePayouts(p, o, S) \/ CompletePayout(p, o, S)
          PROVE  Same
      BY <2>3 DEF InitiatePayouts, CompletePayout
    <2> HIDE DEF Same, Other
    <2>4. QED BY <1>1, <2>1, <2>2, <2>3 DEF StartRequest
  <1>2. ASSUME NEW p \in Procs, Continue(p)
        PROVE  Same \/ Other \/ WriteConfirmed(p)
    <2>1. ASSUME WritePendingCompletion(p) PROVE Other
      BY <1>0, <2>1 DEF WritePendingCompletion
    <2>2. ASSUME WriteRejected(p) PROVE Other
      BY <1>0, <2>2 DEF WriteRejected
    <2>3. ASSUME \/ MarkJobsAsProcessing(p) \/ RecordPayout(p)
                 \/ MarkPayoutCompleted(p)
          PROVE  Same
      BY <2>3 DEF MarkJobsAsProcessing, RecordPayout, MarkPayoutCompleted
    <2> HIDE DEF Same, Other
    <2>4. QED BY <1>2, <2>1, <2>2, <2>3 DEF Continue
  <1>3. ASSUME RunPayouts PROVE Same
    BY <1>3 DEF RunPayouts
  <1>4. ASSUME NEW o \in Operators, Summarise(o) PROVE Same
    BY <1>4 DEF Summarise
  <1>5. ASSUME UNCHANGED vars PROVE Same
    BY <1>5 DEF vars
  <1>6. Same \/ Other \/ DayPasses \/ \E p \in Procs : WriteConfirmed(p)
    <2> HIDE DEF Same, Other
    <2>1. QED BY <1>1, <1>2, <1>3, <1>4, <1>5 DEF Next, SummariseNext
  <1>7. QED BY <1>6

\* A job becomes chosen only when it is eligible.
LEMMA ChosenAnew ==
    ASSUME TypeOK, [Next]_vars, NEW j \in Jobs, Chosen(j)', ~ Chosen(j)
    PROVE  /\ UNCHANGED <<jobStatus, completedAt, clock, age, confirmed>>
           /\ \E o \in Operators : j \in EligibleJobs(o)
  <1> USE DEF jobVars, timeVars, procVars, histVars
  <1> DEFINE Anew == /\ UNCHANGED <<jobStatus, completedAt, clock, age, confirmed>>
                     /\ \E o \in Operators : j \in EligibleJobs(o)
  <1>0. /\ ~ Started(j) /\ \A q \in Procs : j \notin arg[q].jobs
        /\ Started(j)' \/ \E q \in Procs : j \in arg'[q].jobs
    BY DEF Chosen
  <1>a. ASSUME UNCHANGED payoutStatus, \A q \in Procs : j \notin arg'[q].jobs
        PROVE  FALSE
    BY <1>0, <1>a DEF Started
  <1>1. ASSUME NEW p \in Procs, NEW k \in Jobs, SubmitDriverDetails(p, k) PROVE FALSE
    BY <1>0, <1>1 DEF SubmitDriverDetails, Started
  <1>2. ASSUME NEW p \in Procs, NEW k \in Jobs, CompleteJob(p, k) PROVE FALSE
    <2>1. "complete" \in PC BY DEF PC
    <2>2. \A q \in Procs : j \notin arg'[q].jobs
      BY <1>0, <1>2, <2>1, GotoJob DEF CompleteJob
    <2>3. QED BY <1>2, <2>2, <1>a DEF CompleteJob
  <1>3. ASSUME NEW p \in Procs, NEW k \in Jobs, ReviewCompletion(p, k) PROVE FALSE
    <2>1. {"confirm", "reject"} \subseteq PC BY DEF PC
    <2>2. \A q \in Procs : j \notin arg'[q].jobs
      BY <1>0, <1>3, <2>1, GotoJob DEF ReviewCompletion
    <2>3. QED BY <1>3, <2>2, <1>a DEF ReviewCompletion
  <1>4. ASSUME NEW p \in Procs, NEW o \in Operators, NEW S \in SUBSET Jobs,
               InitiatePayouts(p, o, S) PROVE Anew
    <2>1. "initiate" \in PC BY DEF PC
    <2>2. \A q \in Procs : j \in arg'[q].jobs => j \in S
      <3>1. GotoWith(p, "initiate", [NoArg EXCEPT !.jobs = S])
        BY <1>4 DEF InitiatePayouts
      <3>2. /\ arg'[p].jobs = S
            /\ \A q \in Procs : q # p => arg'[q] = arg[q]
        BY <2>1, <3>1, GotoJobs
      <3>3. QED BY <1>0, <3>2
    <2>3. j \in S
      BY <1>0, <1>4, <2>2 DEF InitiatePayouts, Started
    <2>4. QED BY <1>4, <2>3 DEF InitiatePayouts
  <1>5. ASSUME NEW p \in Procs, NEW o \in Operators, NEW S \in SUBSET Jobs,
               CompletePayout(p, o, S) PROVE FALSE
    <2>1. "payout.record" \in PC BY DEF PC
    <2>2. \A q \in Procs : j \in arg'[q].jobs => j \in S
      <3>1. GotoWith(p, "payout.record", [NoArg EXCEPT !.jobs = S])
        BY <1>5 DEF CompletePayout
      <3>2. /\ arg'[p].jobs = S
            /\ \A q \in Procs : q # p => arg'[q] = arg[q]
        BY <2>1, <3>1, GotoJobs
      <3>3. QED BY <1>0, <3>2
    <2>3. j \notin S
      BY <1>0, <1>5 DEF CompletePayout, Started
    <2>4. QED BY <1>5, <2>2, <2>3, <1>a DEF CompletePayout
  <1>6. ASSUME NEW p \in Procs, \/ WritePendingCompletion(p) \/ WriteRejected(p)
        PROVE  FALSE
    <2>1. Return(p) /\ UNCHANGED payoutStatus
      BY <1>6 DEF WritePendingCompletion, WriteRejected
    <2>2. QED BY <2>1, <1>0, <1>a, ReturnType
  <1>7. ASSUME NEW p \in Procs, WriteConfirmed(p) PROVE FALSE
    <2>1. \A q \in Procs : j \notin arg'[q].jobs
      BY <1>0, <1>7, ReturnType DEF WriteConfirmed
    <2>2. ~ Started(j)'
      BY <1>0, <1>7 DEF WriteConfirmed, Started, TypeOK
    <2>3. QED BY <1>0, <2>1, <2>2
  <1>8. ASSUME NEW p \in Procs, \/ MarkJobsAsProcessing(p)
                                \/ MarkPayoutCompleted(p)
        PROVE  FALSE
    <2>1. \A q \in Procs : j \notin arg'[q].jobs
      BY <1>0, <1>8, ReturnType DEF MarkJobsAsProcessing, MarkPayoutCompleted
    <2>2. ~ Started(j)'
      BY <1>0, <1>8 DEF MarkJobsAsProcessing, MarkPayoutCompleted, Started
    <2>3. QED BY <1>0, <2>1, <2>2
  <1>9. ASSUME NEW p \in Procs, RecordPayout(p) PROVE FALSE
    BY <1>0, <1>9 DEF RecordPayout, Goto, Started
  <1>10. ASSUME RunPayouts PROVE FALSE
    <2>1. Cron \in Procs BY DEF Procs
    <2>2. \A q \in Procs : j \notin arg'[q].jobs
      BY <1>0, <1>10, <2>1, RunType
    <2>3. QED BY <1>10, <2>2, <1>a DEF RunPayouts
  <1>11. ASSUME NEW o \in Operators, Summarise(o) PROVE Anew
    <2>1. UNCHANGED <<jobVars, payoutStatus, histVars>>
      BY <1>11 DEF Summarise
    <2>2. \A q \in Procs : j \in arg'[q].jobs => j \in EligibleJobs(o)
      <3>1. Cron \in Procs BY DEF Procs
      <3>2. QED BY <1>0, <1>11, <3>1, SummariseType
    <2>3. j \in EligibleJobs(o)
      BY <1>0, <2>1, <2>2 DEF Started
    <2>4. QED BY <2>1, <2>3
  <1>12. ASSUME DayPasses PROVE FALSE
    BY <1>0, <1>12 DEF DayPasses, Started
  <1>13. ASSUME UNCHANGED vars PROVE FALSE
    BY <1>0, <1>13 DEF vars, Started
  <1> HIDE DEF Anew
  <1>14. Anew
    BY <1>1, <1>2, <1>3, <1>4, <1>5, <1>6, <1>7, <1>8, <1>9, <1>10, <1>11,
       <1>12, <1>13 DEF Next, StartRequest, Continue, SummariseNext
  <1>15. QED BY <1>14 DEF Anew

\* What the confirmation of a completion does to the job and to the others.
LEMMA ConfirmedStep ==
    ASSUME TypeOK, NEW p \in Procs, WriteConfirmed(p), NEW j \in Jobs
    PROVE  /\ clock' = clock + 1
           /\ \/ /\ j = arg[p].job
                 /\ jobStatus'[j] = "COMPLETED" /\ payoutStatus'[j] = "PENDING"
                 /\ completedAt'[j] = clock + 1
                 /\ confirmed'[j] = confirmed[j] + 1
              \/ /\ j # arg[p].job
                 /\ jobStatus'[j] = jobStatus[j] /\ payoutStatus'[j] = payoutStatus[j]
                 /\ completedAt'[j] = completedAt[j] /\ age'[j] = age[j]
                 /\ confirmed'[j] = confirmed[j]
  <1>1. /\ jobStatus \in [Jobs -> JobStatus] /\ payoutStatus \in [Jobs -> PayoutStatus]
        /\ completedAt \in [Jobs -> Nat] /\ confirmed \in [Jobs -> Nat]
        /\ age \in [Jobs -> 0 .. DelayDays]
    BY DEF TypeOK
  <1> DEFINE k == arg[p].job
  <1>2. /\ jobStatus' = [jobStatus EXCEPT ![k] = "COMPLETED"]
        /\ payoutStatus' = [payoutStatus EXCEPT ![k] = "PENDING"]
        /\ completedAt' = [completedAt EXCEPT ![k] = clock + 1]
        /\ age' = [age EXCEPT ![k] = 0]
        /\ confirmed' = [confirmed EXCEPT ![k] = @ + 1]
        /\ clock' = clock + 1
    BY DEF WriteConfirmed
  <1> HIDE DEF k
  <1>3. CASE j = k
    <2>1. /\ jobStatus'[j] = "COMPLETED" /\ payoutStatus'[j] = "PENDING"
          /\ completedAt'[j] = clock + 1
      BY <1>1, <1>2, <1>3
    <2>2. confirmed'[j] = confirmed[j] + 1
      BY <1>1, <1>2, <1>3
    <2>3. QED BY <1>2, <1>3, <2>1, <2>2 DEF k
  <1>4. CASE j # k
    <2>1. /\ jobStatus'[j] = jobStatus[j] /\ payoutStatus'[j] = payoutStatus[j]
          /\ completedAt'[j] = completedAt[j] /\ age'[j] = age[j]
      BY <1>1, <1>2, <1>4
    <2>2. confirmed'[j] = confirmed[j]
      BY <1>1, <1>2, <1>4
    <2>3. QED BY <1>2, <1>4, <2>1, <2>2 DEF k
  <1>5. QED BY <1>3, <1>4

\* Where no completed job has been opened again, none was before, and the jobs
\* completed after a confirmed one remain so.
LEMMA LaterGrows ==
    ASSUME TypeOK, StatusInv, [Next]_vars, NEW j \in Jobs, confirmed[j] > 0,
           Steady(Owner[j])'
    PROVE  Steady(Owner[j]) /\ Later(j) \subseteq Later(j)'
  <1> DEFINE o == Owner[j]
  <1>0. /\ \A k \in JobsOf(o) :
              confirmed'[k] > 0 => confirmed'[k] = 1 /\ jobStatus'[k] = "COMPLETED"
        /\ JobsOf(o) \subseteq Jobs /\ j \in JobsOf(o)
    BY DEF Steady, JobsOf
  <1>t. /\ jobStatus \in [Jobs -> JobStatus] /\ confirmed \in [Jobs -> Nat]
        /\ completedAt \in [Jobs -> Nat] /\ clock \in Nat
    BY DEF TypeOK
  <1> HIDE DEF o
  <1>g. ASSUME \A k \in JobsOf(o) :
                  /\ confirmed[k] > 0 =>
                        confirmed[k] = 1 /\ jobStatus[k] = "COMPLETED"
                  /\ jobStatus[k] = "COMPLETED" => jobStatus'[k] = "COMPLETED"
                  /\ completedAt[k] > completedAt[j] /\ jobStatus[k] = "COMPLETED"
                        => completedAt'[k] > completedAt'[j]
        PROVE  Steady(Owner[j]) /\ Later(j) \subseteq Later(j)'
    BY <1>g DEF o, Steady, Later, Completed, CompletedAfter
  <1>1. CASE UNCHANGED <<jobStatus, completedAt, clock, age, confirmed>>
    BY <1>0, <1>1, <1>g
  <1>2. CASE DayPasses
    BY <1>0, <1>2, <1>g DEF DayPasses, histVars
  <1>3. ASSUME NEW p \in Procs, WriteConfirmed(p)
        PROVE  Steady(Owner[j]) /\ Later(j) \subseteq Later(j)'
    <2>1. ASSUME NEW k \in JobsOf(o)
          PROVE  /\ confirmed[k] > 0 => k # arg[p].job
                 /\ k # arg[p].job => /\ confirmed'[k] = confirmed[k]
                                      /\ completedAt'[k] = completedAt[k]
                                      /\ jobStatus'[k] = jobStatus[k]
                 /\ jobStatus[k] = "COMPLETED" => confirmed[k] > 0
      <3>1. k \in Jobs /\ confirmed[k] \in Nat BY <1>0, <1>t
      <3>2. confirmed[k] > 0 => k # arg[p].job
        BY <1>0, <1>3, <3>1, ConfirmedStep
      <3>3. jobStatus[k] = "COMPLETED" => confirmed[k] > 0
        BY <3>1 DEF StatusInv
      <3>4. QED BY <1>3, <3>1, <3>2, <3>3, ConfirmedStep
    <2>2. QED BY <1>0, <1>g, <2>1
  <1>4. ASSUME UNCHANGED <<completedAt, clock, age, confirmed>>,
               NEW k0, NEW s \in JobStatus \ {"COMPLETED"},
               jobStatus' = [jobStatus EXCEPT ![k0] = s]
        PROVE  Steady(Owner[j]) /\ Later(j) \subseteq Later(j)'
    <2>1. ASSUME NEW k \in JobsOf(o)
          PROVE  jobStatus'[k] = "COMPLETED" <=> jobStatus[k] = "COMPLETED" /\ k # k0
      BY <1>0, <1>t, <1>4
    <2>2. ASSUME NEW k \in JobsOf(o), jobStatus[k] = "COMPLETED" PROVE k # k0
      <3>1. confirmed[k] > 0
        BY <1>0, <2>2 DEF StatusInv
      <3>2. QED BY <1>0, <1>4, <2>1, <2>2, <3>1
    <2>3. QED BY <1>0, <1>4, <1>g, <2>1, <2>2
  <1>5. QED BY <1>1, <1>2, <1>3, <1>4, JourneySteps

\* The hold period of a job confirmed once does not start again.
LEMMA DelayKept ==
    ASSUME TypeOK, [Next]_vars, NEW j \in Jobs,
           confirmed[j] > 0, confirmed[j] = 1 => age[j] = DelayDays
    PROVE  confirmed'[j] > 0 /\ (confirmed'[j] = 1 => age'[j] = DelayDays)
  <1>t. /\ confirmed \in [Jobs -> Nat] /\ age \in [Jobs -> 0 .. DelayDays]
        /\ DelayDays \in Nat
    BY PayoutsAssumption DEF TypeOK, PayoutsAssumption
  <1>1. CASE UNCHANGED <<jobStatus, completedAt, clock, age, confirmed>>
    BY <1>1
  <1>2. CASE DayPasses
    <2>1. confirmed' = confirmed
      BY <1>2 DEF DayPasses, histVars
    <2>2. age[j] = DelayDays => age'[j] = DelayDays
      <3>1. age'[j] = IF jobStatus[j] = "COMPLETED" /\ age[j] < DelayDays
                      THEN age[j] + 1 ELSE age[j]
        BY <1>2 DEF DayPasses
      <3>2. QED BY <1>t, <3>1
    <2>3. QED BY <2>1, <2>2
  <1>3. ASSUME NEW p \in Procs, WriteConfirmed(p)
        PROVE  confirmed'[j] > 0 /\ (confirmed'[j] = 1 => age'[j] = DelayDays)
    <2>1. confirmed[j] \in Nat BY <1>t
    <2>2. CASE j = arg[p].job
      <3>1. confirmed'[j] = confirmed[j] + 1
        BY <1>3, <2>2, ConfirmedStep
      <3>2. QED BY <2>1, <3>1
    <2>3. CASE j # arg[p].job
      <3>1. confirmed'[j] = confirmed[j] /\ age'[j] = age[j]
        BY <1>3, <2>3, ConfirmedStep
      <3>2. QED BY <3>1
    <2>4. QED BY <2>2, <2>3
  <1>4. CASE UNCHANGED <<age, confirmed>>
    BY <1>4
  <1>5. QED BY <1>1, <1>2, <1>3, <1>4, JourneySteps

\* A job is chosen when it is eligible, and what it waited for stays true.
LEMMA ChosenStep ==
    ASSUME TypeOK, StatusInv, ChosenInv, [Next]_vars
    PROVE  ChosenInv'
  <1> SUFFICES ASSUME NEW j \in Jobs, Chosen(j)'
               PROVE  /\ confirmed'[j] > 0
                      /\ confirmed'[j] = 1 => age'[j] = DelayDays
                      /\ Steady(Owner[j])' => Cardinality(Later(j)') >= HeldBack
    BY DEF ChosenInv
  <1>0. HeldBack \in Nat /\ DelayDays \in Nat
    BY PayoutsAssumption DEF PayoutsAssumption
  <1>1. /\ confirmed[j] > 0
        /\ confirmed[j] = 1 => age[j] = DelayDays
        /\ Steady(Owner[j]) => Cardinality(Later(j)) >= HeldBack
    <2>1. CASE Chosen(j)
      BY <2>1 DEF ChosenInv
    <2>2. CASE ~ Chosen(j)
      <3>1. PICK o \in Operators : j \in EligibleJobs(o)
        BY <2>2, ChosenAnew
      <3>2. /\ Owner[j] = o /\ jobStatus[j] = "COMPLETED" /\ age[j] >= DelayDays
            /\ Cardinality(CompletedAfter(j, Completed(o))) >= HeldBack
        BY <3>1, EligibleAre
      <3>3. confirmed[j] > 0
        BY <3>2 DEF StatusInv
      <3>4. age[j] = DelayDays
        BY <1>0, <3>2 DEF TypeOK
      <3>5. Cardinality(Later(j)) >= HeldBack
        BY <3>2 DEF Later
      <3>6. QED BY <3>3, <3>4, <3>5
    <2>3. QED BY <2>1, <2>2
  <1>2. confirmed'[j] > 0 /\ (confirmed'[j] = 1 => age'[j] = DelayDays)
    BY <1>1, DelayKept
  <1>3. ASSUME Steady(Owner[j])' PROVE Cardinality(Later(j)') >= HeldBack
    <2>1. Steady(Owner[j]) /\ Later(j) \subseteq Later(j)'
      BY <1>1, <1>3, LaterGrows
    <2>2. Later(j)' \subseteq Jobs
      BY DEF Later, CompletedAfter, Completed, JobsOf
    <2>3. /\ Cardinality(Later(j)) \in Nat /\ Cardinality(Later(j)') \in Nat
          /\ Cardinality(Later(j)) <= Cardinality(Later(j)')
      BY <2>1, <2>2, JobSets
    <2>4. QED BY <1>0, <1>1, <2>1, <2>3
  <1>4. QED BY <1>2, <1>3

\* A confirmed job has a payout status, whatever happens to it later.
LEMMA StatusStep ==
    ASSUME TypeOK, StatusInv, ChosenInv, [Next]_vars
    PROVE  StatusInv'
  <1> SUFFICES ASSUME NEW j \in Jobs
               PROVE  /\ jobStatus'[j] = "COMPLETED" => confirmed'[j] > 0
                      /\ payoutStatus'[j] = "NOT_ELIGIBLE" <=> confirmed'[j] = 0
                      /\ completedAt'[j] <= clock'
    BY DEF StatusInv
  <1>t. /\ confirmed[j] \in Nat /\ completedAt[j] \in Nat /\ clock \in Nat
        /\ payoutStatus[j] \in PayoutStatus /\ jobStatus[j] \in JobStatus
        /\ jobStatus \in [Jobs -> JobStatus]
    BY DEF TypeOK
  <1>i. /\ jobStatus[j] = "COMPLETED" => confirmed[j] > 0
        /\ payoutStatus[j] = "NOT_ELIGIBLE" <=> confirmed[j] = 0
        /\ completedAt[j] <= clock
    BY DEF StatusInv
  <1>p. ASSUME confirmed' = confirmed
        PROVE  payoutStatus'[j] = "NOT_ELIGIBLE" <=> confirmed'[j] = 0
    <2>1. \/ payoutStatus' = payoutStatus
          \/ \E p \in Procs : \E s \in {"PROCESSING", "COMPLETED"} :
                payoutStatus' = [k \in Jobs |-> IF k \in arg[p].jobs THEN s
                                                ELSE payoutStatus[k]]
          \/ \E p \in Procs : WriteConfirmed(p)
      <3> USE DEF jobVars, timeVars, procVars, histVars
      <3>1. ASSUME NEW p \in Procs, StartRequest(p) PROVE payoutStatus' = payoutStatus
        BY <3>1 DEF StartRequest, SubmitDriverDetails, CompleteJob,
                    ReviewCompletion, InitiatePayouts, CompletePayout
      <3>2. ASSUME NEW p \in Procs, Continue(p)
            PROVE  \/ payoutStatus' = payoutStatus \/ WriteConfirmed(p)
                   \/ \E s \in {"PROCESSING", "COMPLETED"} :
                         payoutStatus' = [k \in Jobs |-> IF k \in arg[p].jobs THEN s
                                                         ELSE payoutStatus[k]]
        <4>1. CASE WritePendingCompletion(p) \/ WriteRejected(p) \/ RecordPayout(p)
          BY <4>1 DEF WritePendingCompletion, WriteRejected, RecordPayout
        <4>2. CASE MarkJobsAsProcessing(p) \/ MarkPayoutCompleted(p)
          BY <4>2 DEF MarkJobsAsProcessing, MarkPayoutCompleted
        <4>3. QED BY <3>2, <4>1, <4>2 DEF Continue
      <3>3. ASSUME RunPayouts \/ SummariseNext \/ DayPasses \/ UNCHANGED vars
            PROVE  payoutStatus' = payoutStatus
        BY <3>3 DEF RunPayouts, SummariseNext, Summarise, DayPasses, vars
      <3>4. QED BY <3>1, <3>2, <3>3 DEF Next
    <2>2. CASE payoutStatus' = payoutStatus
      BY <1>p, <1>i, <2>2
    <2>3. ASSUME NEW p \in Procs, NEW s \in {"PROCESSING", "COMPLETED"},
                 payoutStatus' = [k \in Jobs |-> IF k \in arg[p].jobs THEN s
                                                 ELSE payoutStatus[k]]
          PROVE  payoutStatus'[j] = "NOT_ELIGIBLE" <=> confirmed'[j] = 0
      <3>1. CASE j \in arg[p].jobs
        <4>1. confirmed[j] > 0
          BY <3>1 DEF ChosenInv, Chosen
        <4>2. QED BY <1>p, <1>t, <2>3, <3>1, <4>1
      <3>2. CASE j \notin arg[p].jobs
        BY <1>p, <1>i, <2>3, <3>2
      <3>3. QED BY <3>1, <3>2
    <2>4. ASSUME NEW p \in Procs, WriteConfirmed(p)
          PROVE  payoutStatus'[j] = "NOT_ELIGIBLE" <=> confirmed'[j] = 0
      <3>1. j # arg[p].job
        BY <1>p, <1>t, <2>4, ConfirmedStep
      <3>2. QED BY <1>i, <2>4, <3>1, ConfirmedStep
    <2>5. QED BY <2>1, <2>2, <2>3, <2>4
  <1>1. CASE UNCHANGED <<jobStatus, completedAt, clock, age, confirmed>>
    BY <1>1, <1>i, <1>p
  <1>2. CASE DayPasses
    BY <1>2, <1>i, <1>p DEF DayPasses, histVars
  <1>3. ASSUME NEW p \in Procs, WriteConfirmed(p)
        PROVE  /\ jobStatus'[j] = "COMPLETED" => confirmed'[j] > 0
               /\ payoutStatus'[j] = "NOT_ELIGIBLE" <=> confirmed'[j] = 0
               /\ completedAt'[j] <= clock'
    <2>1. CASE j = arg[p].job
      <3>1. /\ confirmed'[j] = confirmed[j] + 1 /\ payoutStatus'[j] = "PENDING"
            /\ completedAt'[j] = clock + 1 /\ clock' = clock + 1
        BY <1>3, <2>1, ConfirmedStep
      <3>2. QED BY <1>t, <3>1
    <2>2. CASE j # arg[p].job
      <3>1. /\ confirmed'[j] = confirmed[j] /\ payoutStatus'[j] = payoutStatus[j]
            /\ completedAt'[j] = completedAt[j] /\ clock' = clock + 1
            /\ jobStatus'[j] = jobStatus[j]
        BY <1>3, <2>2, ConfirmedStep
      <3>2. QED BY <1>t, <1>i, <3>1
    <2>3. QED BY <2>1, <2>2
  <1>4. ASSUME UNCHANGED <<completedAt, clock, age, confirmed>>,
               NEW k, NEW s \in JobStatus \ {"COMPLETED"},
               jobStatus' = [jobStatus EXCEPT ![k] = s]
        PROVE  /\ jobStatus'[j] = "COMPLETED" => confirmed'[j] > 0
               /\ payoutStatus'[j] = "NOT_ELIGIBLE" <=> confirmed'[j] = 0
               /\ completedAt'[j] <= clock'
    <2>1. jobStatus'[j] = "COMPLETED" => jobStatus[j] = "COMPLETED"
      BY <1>t, <1>4
    <2>2. QED BY <1>4, <1>i, <1>p, <2>1
  <1>5. QED BY <1>1, <1>2, <1>3, <1>4, JourneySteps

PayoutsInv == TypeOK /\ StatusInv /\ ChosenInv

\* The inductive invariant of the hold period and the jobs held back.
LEMMA PayoutsInvHolds == Spec => []PayoutsInv
  <1>1. Init => StatusInv /\ ChosenInv
    BY DEF Init, StatusInv, ChosenInv, Chosen, Started, NoArg
  <1>2. StatusInv /\ ChosenInv /\ TypeOK /\ [Next]_vars => StatusInv' /\ ChosenInv'
    BY StatusStep, ChosenStep
  <1>3. QED BY <1>1, <1>2, PayoutsTypeCorrect, PTL DEF Spec, PayoutsInv

\* No payout starts within the hold period after the first completion, whoever
\* starts it and however long the handler that chose the job takes to write
\* (payouts.service.ts:82-94, 199-210): a job that is chosen has waited, and a
\* second confirmation is the only thing that lets it wait again.
THEOREM NoPayoutBeforeDelay == Spec => []HeldForDelay
  <1>1. PayoutsInv => HeldForDelay
    BY DEF PayoutsInv, ChosenInv, Chosen, Started, HeldForDelay
  <1>2. QED BY <1>1, PayoutsInvHolds, PTL

\* The most recent completions of an operator stay unpaid, however the
\* scheduler and the administrators' own choices overlap
\* (payouts.service.ts:113-120): of the jobs whose payout has started take the
\* one completed last; HeldBack jobs were completed after it, and none of those
\* has started.
THEOREM HeldBackStaysUnpaid == Spec => []HeldBackUnpaid
  <1>1. PayoutsInv => HeldBackUnpaid
    <2> SUFFICES ASSUME PayoutsInv, NEW o \in Operators, Steady(o)
                 PROVE  LET unpaid == {j \in Completed(o) : payoutStatus[j] = "PENDING"}
                        IN  Cardinality(unpaid) >= HeldBack \/ unpaid = Completed(o)
      BY DEF HeldBackUnpaid
    <2> DEFINE unpaid == {j \in Completed(o) : payoutStatus[j] = "PENDING"}
               started == Completed(o) \ unpaid
    <2>0. HeldBack \in Nat
      BY PayoutsAssumption DEF PayoutsAssumption
    <2>1. Completed(o) \subseteq Jobs /\ unpaid \subseteq Jobs
      BY DEF Completed, JobsOf
    <2>2. ASSUME started # {} PROVE Cardinality(unpaid) >= HeldBack
      <3>t. /\ clock \in Nat /\ \A j \in Jobs : completedAt[j] \in Nat
            /\ \A j \in Jobs : completedAt[j] <= clock
            /\ payoutStatus \in [Jobs -> PayoutStatus]
        BY DEF PayoutsInv, TypeOK, StatusInv
      <3> DEFINE T == {clock - completedAt[j] : j \in started}
      <3>1. T \subseteq Nat /\ T # {}
        BY <2>1, <2>2, <3>t
      <3> HIDE DEF T
      <3>2. PICK n \in T : \A m \in T : n <= m
        BY <3>1, LeastNat
      <3> USE DEF T
      <3>3. PICK j \in started : n = clock - completedAt[j]
        BY <3>2
      <3>4. \A k \in started : completedAt[k] <= completedAt[j]
        <4>1. ASSUME NEW k \in started PROVE completedAt[k] <= completedAt[j]
          <5>1. clock - completedAt[j] <= clock - completedAt[k]
            BY <3>2, <3>3
          <5>2. completedAt[k] \in Nat /\ completedAt[j] \in Nat
            BY <2>1, <3>t, <3>3
          <5>3. QED BY <3>t, <5>1, <5>2
        <4>2. QED BY <4>1
      <3>5. j \in Jobs /\ Owner[j] = o /\ Later(j) = CompletedAfter(j, Completed(o))
        BY <3>3 DEF Later, Completed, JobsOf
      <3>6. Started(j)
        <4>1. jobStatus[j] = "COMPLETED" /\ payoutStatus[j] # "PENDING"
          BY <3>3 DEF Completed
        <4>2. payoutStatus[j] # "NOT_ELIGIBLE"
          BY <3>5, <4>1 DEF PayoutsInv, TypeOK, StatusInv
        <4>3. QED BY <3>t, <3>5, <4>1, <4>2 DEF Started, PayoutStatus
      <3>7. Cardinality(Later(j)) >= HeldBack
        BY <3>5, <3>6 DEF PayoutsInv, ChosenInv, Chosen
      <3>8. Later(j) \subseteq unpaid
        <4>1. ASSUME NEW k \in Later(j) PROVE k \in unpaid
          <5>1. k \in Completed(o) /\ completedAt[k] > completedAt[j]
            BY <3>5 DEF CompletedAfter
          <5>2. completedAt[k] \in Nat /\ completedAt[j] \in Nat
            BY <2>1, <3>t, <3>5, <5>1
          <5>3. k \notin started
            BY <3>4, <5>1, <5>2
          <5>4. QED BY <5>1, <5>3
        <4>2. QED BY <4>1
      <3>9. /\ Cardinality(Later(j)) \in Nat /\ Cardinality(unpaid) \in Nat
            /\ Cardinality(Later(j)) <= Cardinality(unpaid)
        BY <2>1, <3>8, JobSets
      <3>10. QED BY <2>0, <3>7, <3>9
    <2>3. QED BY <2>2
  <1>2. QED BY <1>1, PayoutsInvHolds, PTL

\* The forecast shows every job the scheduler would pay
\* (payouts.service.ts:405-406), if the platform holds back any job at all: the
\* forecast takes the most recent ones from a larger list.
THEOREM ForecastShowsEligible ==
    ASSUME HeldBack > 0
    PROVE  EligibleInForecast
  <1> SUFFICES ASSUME NEW o \in Operators, NEW j \in EligibleJobs(o)
               PROVE  j \in ForecastEligible(o)
    BY DEF EligibleInForecast
  <1> DEFINE S == {k \in JobsOf(o) : Payable(k) /\ age[k] >= DelayDays}
  <1>1. j \in AllButMostRecent(S, HeldBack)
    BY DEF EligibleJobs
  <1>2. S \subseteq Unpaid(o) /\ Unpaid(o) \subseteq Jobs
    BY DEF Unpaid, JobsOf, Payable
  <1> HIDE DEF S
  <1>3. j \in S /\ j \in AllButMostRecent(Unpaid(o), HeldBack)
    BY <1>1, <1>2, MoreRecentInLarger, PayoutsAssumption DEF PayoutsAssumption
  <1>4. age[j] >= DelayDays
    BY <1>3 DEF S
  <1>5. QED BY <1>3, <1>4 DEF ForecastEligible

----------------------------------------------------------------------------
(* Payments and confirmed completions *)

OneAdmin == \A a, b \in Admins : a = b

\* The statuses a handler relies on when it writes blindly, for jobs that no
\* administrator chose by hand.
HandlerOK(p) ==
    /\ pc[p] \in {"confirm", "payout.record", "payout.mark"} => p \in Admins
    /\ pc[p] \in {"summarise", "mark"} => p = Cron
    /\ \A j \in arg[p].jobs \ byHand :
          /\ pc[p] # "initiate"
          /\ pc[p] \in {"summarise", "mark"} => payoutStatus[j] = "PENDING"
          /\ pc[p] \in {"payout.record", "payout.mark"} =>
                payoutStatus[j] = "PROCESSING"

HandlersOK == \A p \in Procs : HandlerOK(p)

\* The transaction of the running payout is recorded.
Recorded(j) == \E p \in Procs : pc[p] = "payout.mark" /\ j \in arg[p].jobs

\* A job that will be paid, or is being paid and not yet recorded, has a
\* confirmed completion that no transaction has paid.
DueInv ==
    \A j \in Jobs \ byHand :
        /\ paid[j] <= confirmed[j]
        /\ payoutStatus[j] = "PENDING" => paid[j] < confirmed[j]
        /\ payoutStatus[j] = "PROCESSING" /\ ~ Recorded(j) => paid[j] < confirmed[j]

\* Steps of one handler that leave the payout status, the transactions and the
\* confirmations alone.
LEMMA QuietStep ==
    ASSUME TypeOK, HandlersOK, DueInv,
           UNCHANGED <<payoutStatus, paid, confirmed>>, byHand \subseteq byHand',
           NEW p \in Procs, pc[p] # "payout.mark",
           \A q \in Procs : q # p => pc'[q] = pc[q] /\ arg'[q] = arg[q],
           HandlerOK(p)'
    PROVE  HandlersOK' /\ DueInv'
  <1>1. HandlersOK'
    <2> SUFFICES ASSUME NEW q \in Procs, q # p PROVE HandlerOK(q)'
      BY DEF HandlersOK
    <2>1. HandlerOK(q) /\ pc'[q] = pc[q] /\ arg'[q] = arg[q]
      BY DEF HandlersOK
    <2>2. QED BY <2>1 DEF HandlerOK
  <1>2. ASSUME NEW j, Recorded(j) PROVE Recorded(j)'
    <2>1. PICK q \in Procs : pc[q] = "payout.mark" /\ j \in arg[q].jobs
      BY <1>2 DEF Recorded
    <2>2. pc'[q] = "payout.mark" /\ j \in arg'[q].jobs
      BY <2>1
    <2>3. QED BY <2>2 DEF Recorded
  <1>3. DueInv'
    <2> SUFFICES ASSUME NEW j \in Jobs \ byHand'
                 PROVE  /\ paid'[j] <= confirmed'[j]
                        /\ payoutStatus'[j] = "PENDING" => paid'[j] < confirmed'[j]
                        /\ payoutStatus'[j] = "PROCESSING" /\ ~ Recorded(j)' =>
                              paid'[j] < confirmed'[j]
      BY DEF DueInv
    <2>1. j \in Jobs \ byHand
      OBVIOUS
    <2>2. QED BY <1>2, <2>1 DEF DueInv
  <1>4. QED BY <1>1, <1>3

\* A request that starts relies on no more than it has read.
LEMMA StartPaid ==
    ASSUME TypeOK, HandlersOK, DueInv, NEW p \in Procs, StartRequest(p)
    PROVE  HandlersOK' /\ DueInv'
  <1> USE DEF jobVars, timeVars, procVars, histVars
  <1>1. ASSUME NEW j \in Jobs, SubmitDriverDetails(p, j)
        PROVE  HandlersOK' /\ DueInv'
    <2>1. /\ pc' = pc /\ arg' = arg /\ byHand' = byHand
          /\ UNCHANGED <<payoutStatus, paid, confirmed>>
      BY <1>1 DEF SubmitDriverDetails
    <2>2. QED BY <2>1 DEF HandlersOK, HandlerOK, DueInv, Recorded
  <1>2. ASSUME NEW j \in Jobs, CompleteJob(p, j)
        PROVE  HandlersOK' /\ DueInv'
    <2>1. "complete" \in PC BY DEF PC
    <2>2. /\ pc[p] = "idle" /\ byHand' = byHand
          /\ GotoWith(p, "complete", [NoArg EXCEPT !.job = j])
          /\ UNCHANGED <<payoutStatus, paid, confirmed>>
      BY <1>2 DEF CompleteJob, Request, Free
    <2>3. /\ pc'[p] = "complete" /\ arg'[p].jobs = {}
          /\ \A q \in Procs : q # p => pc'[q] = pc[q] /\ arg'[q] = arg[q]
      BY <2>1, <2>2, GotoJob
    <2>4. HandlerOK(p)'
      BY <2>3 DEF HandlerOK
    <2>5. QED BY <2>2, <2>3, <2>4, QuietStep
  <1>3. ASSUME NEW j \in Jobs, ReviewCompletion(p, j)
        PROVE  HandlersOK' /\ DueInv'
    <2>1. {"confirm", "reject"} \subseteq PC BY DEF PC
    <2>2. PICK step \in {"confirm", "reject"} :
             /\ pc[p] = "idle" /\ p \in Admins /\ byHand' = byHand
             /\ GotoWith(p, step, [NoArg EXCEPT !.job = j])
             /\ UNCHANGED <<payoutStatus, paid, confirmed>>
      BY <1>3 DEF ReviewCompletion, Request, Free
    <2>3. /\ pc'[p] = step /\ arg'[p].jobs = {}
          /\ \A q \in Procs : q # p => pc'[q] = pc[q] /\ arg'[q] = arg[q]
      BY <2>1, <2>2, GotoJob
    <2>4. HandlerOK(p)'
      BY <2>2, <2>3 DEF HandlerOK
    <2>5. QED BY <2>2, <2>3, <2>4, QuietStep
  <1>4. ASSUME NEW o \in Operators, NEW S \in SUBSET Jobs, InitiatePayouts(p, o, S)
        PROVE  HandlersOK' /\ DueInv'
    <2>1. "initiate" \in PC BY DEF PC
    <2>2. /\ pc[p] = "idle" /\ p \in Admins /\ byHand' = byHand \union S
          /\ GotoWith(p, "initiate", [NoArg EXCEPT !.jobs = S])
          /\ UNCHANGED <<payoutStatus, paid, confirmed>>
      BY <1>4 DEF InitiatePayouts, Request, Free
    <2>3. /\ pc'[p] = "initiate" /\ arg'[p].jobs = S
          /\ \A q \in Procs : q # p => pc'[q] = pc[q] /\ arg'[q] = arg[q]
      BY <2>1, <2>2, GotoJobs
    <2>4. HandlerOK(p)'
      BY <2>2, <2>3 DEF HandlerOK
    <2>5. QED BY <2>2, <2>3, <2>4, QuietStep
  <1>5. ASSUME NEW o \in Operators, NEW S \in SUBSET Jobs, CompletePayout(p, o, S)
        PROVE  HandlersOK' /\ DueInv'
    <2>1. "payout.record" \in PC BY DEF PC
    <2>2. /\ pc[p] = "idle" /\ p \in Admins /\ byHand' = byHand
          /\ \A j \in S : payoutStatus[j] = "PROCESSING"
          /\ GotoWith(p, "payout.record", [NoArg EXCEPT !.jobs = S])
          /\ UNCHANGED <<payoutStatus, paid, confirmed>>
      BY <1>5 DEF CompletePayout, Request, Free
    <2>3. /\ pc'[p] = "payout.record" /\ arg'[p].jobs = S
          /\ \A q \in Procs : q # p => pc'[q] = pc[q] /\ arg'[q] = arg[q]
      BY <2>1, <2>2, GotoJobs
    <2>4. HandlerOK(p)'
      BY <2>2, <2>3 DEF HandlerOK
    <2>5. QED BY <2>2, <2>3, <2>4, QuietStep
  <1>6. QED BY <1>1, <1>2, <1>3, <1>4, <1>5 DEF StartRequest

\* The scheduler selects pending jobs.
LEMMA SchedulerPaid ==
    ASSUME TypeOK, HandlersOK, DueInv,
           RunPayouts \/ SummariseNext \/ DayPasses \/ UNCHANGED vars
    PROVE  HandlersOK' /\ DueInv'
  <1> USE DEF jobVars, timeVars, procVars, histVars
  <1>0. Cron \in Procs
    BY DEF Procs
  <1>1. CASE RunPayouts
    <2>1. /\ pc[Cron] = "idle" /\ byHand' = byHand
          /\ UNCHANGED <<payoutStatus, paid, confirmed>>
      BY <1>1 DEF RunPayouts, Free
    <2>2. /\ \/ pc'[Cron] = "summarise" /\ arg'[Cron].jobs = {}
             \/ pc' = pc /\ arg' = arg
          /\ \A q \in Procs : q # Cron => pc'[q] = pc[q] /\ arg'[q] = arg[q]
      BY <1>1, RunType
    <2>3. HandlerOK(Cron)
      BY <1>0 DEF HandlersOK
    <2>4. HandlerOK(Cron)'
      BY <2>1, <2>2, <2>3 DEF HandlerOK
    <2>5. QED BY <1>0, <2>1, <2>2, <2>4, QuietStep
  <1>2. ASSUME NEW o \in Operators, Summarise(o)
        PROVE  HandlersOK' /\ DueInv'
    <2>1. byHand' = byHand /\ UNCHANGED <<payoutStatus, paid, confirmed>>
      BY <1>2 DEF Summarise
    <2>2. /\ pc[Cron] = "summarise"
          /\ pc'[Cron] \in {"summarise", "mark", "idle"}
          /\ arg'[Cron].jobs \subseteq arg[Cron].jobs \union EligibleJobs(o)
          /\ \A q \in Procs : q # Cron => pc'[q] = pc[q] /\ arg'[q] = arg[q]
      BY <1>2, SummariseType
    <2>3. \A j \in arg[Cron].jobs \ byHand : payoutStatus[j] = "PENDING"
      BY <1>0, <2>2 DEF HandlersOK, HandlerOK
    <2>4. \A j \in EligibleJobs(o) : payoutStatus[j] = "PENDING"
      BY EligibleAre
    <2>5. HandlerOK(Cron)'
      BY <2>1, <2>2, <2>3, <2>4 DEF HandlerOK
    <2>6. QED BY <1>0, <2>1, <2>2, <2>5, QuietStep
  <1>3. CASE DayPasses \/ UNCHANGED vars
    <2>1. /\ pc' = pc /\ arg' = arg /\ byHand' = byHand
          /\ UNCHANGED <<payoutStatus, paid, confirmed>>
      BY <1>3 DEF DayPasses, vars
    <2>2. QED BY <2>1 DEF HandlersOK, HandlerOK, DueInv, Recorded
  <1>4. QED BY <1>1, <1>2, <1>3 DEF SummariseNext

\* The steps of a running request.
LEMMA ContinuePaid ==
    ASSUME OneAdmin, TypeOK, HandlersOK, DueInv, NEW p \in Procs, Continue(p)
    PROVE  HandlersOK' /\ DueInv'
  <1> USE DEF jobVars, timeVars, procVars, histVars
  <1>t. /\ payoutStatus \in [Jobs -> PayoutStatus]
        /\ paid \in [Jobs -> Nat] /\ confirmed \in [Jobs -> Nat]
        /\ pc \in [Procs -> PC] /\ arg \in [Procs -> Arg]
    BY DEF TypeOK
  <1>1. CASE WritePendingCompletion(p) \/ WriteRejected(p)
    <2>1. /\ pc[p] \in {"complete", "reject"} /\ byHand' = byHand /\ Return(p)
          /\ UNCHANGED <<payoutStatus, paid, confirmed>>
      BY <1>1 DEF WritePendingCompletion, WriteRejected
    <2>2. /\ pc'[p] = "idle" /\ arg'[p].jobs = {}
          /\ \A q \in Procs : q # p => pc'[q] = pc[q] /\ arg'[q] = arg[q]
      BY <2>1, ReturnType
    <2>3. HandlerOK(p)'
      BY <2>2 DEF HandlerOK
    <2>4. QED BY <2>1, <2>2, <2>3, QuietStep
  \* The one administrator confirms: no payout is being completed.
  <1>2. CASE WriteConfirmed(p)
    <2>1. /\ pc[p] = "confirm" /\ byHand' = byHand /\ paid' = paid /\ Return(p)
      BY <1>2 DEF WriteConfirmed
    <2>2. /\ pc'[p] = "idle" /\ arg'[p].jobs = {}
          /\ \A q \in Procs : q # p => pc'[q] = pc[q] /\ arg'[q] = arg[q]
      BY <2>1, ReturnType
    <2>3. \A q \in Procs : pc[q] \notin {"payout.record", "payout.mark"}
      BY <2>1 DEF HandlersOK, HandlerOK, OneAdmin
    <2>4. ASSUME NEW j \in Jobs
          PROVE  \/ /\ payoutStatus'[j] = "PENDING"
                    /\ confirmed'[j] = confirmed[j] + 1
                 \/ /\ payoutStatus'[j] = payoutStatus[j]
                    /\ confirmed'[j] = confirmed[j]
      BY <1>2, ConfirmedStep
    <2>5. HandlersOK'
      <3> SUFFICES ASSUME NEW q \in Procs PROVE HandlerOK(q)'
        BY DEF HandlersOK
      <3>1. CASE q = p
        BY <2>2, <3>1 DEF HandlerOK
      <3>2. CASE q # p
        <4>1. HandlerOK(q) /\ pc'[q] = pc[q] /\ arg'[q] = arg[q]
          BY <2>2, <3>2 DEF HandlersOK
        <4>2. arg[q].jobs \subseteq Jobs
          BY <1>t DEF Arg
        <4>3. \A j \in arg[q].jobs :
                 payoutStatus[j] = "PENDING" => payoutStatus'[j] = "PENDING"
          BY <2>4, <4>2
        <4>4. QED BY <2>1, <2>3, <4>1, <4>3 DEF HandlerOK
      <3>3. QED BY <3>1, <3>2
    <2>6. DueInv'
      <3> SUFFICES ASSUME NEW j \in Jobs \ byHand
                   PROVE  /\ paid'[j] <= confirmed'[j]
                          /\ payoutStatus'[j] = "PENDING" => paid'[j] < confirmed'[j]
                          /\ payoutStatus'[j] = "PROCESSING" => paid'[j] < confirmed'[j]
        BY <2>1 DEF DueInv
      <3>1. paid[j] \in Nat /\ confirmed[j] \in Nat
        BY <1>t
      <3>2. ~ Recorded(j)
        BY <2>3 DEF Recorded
      <3>3. /\ paid[j] <= confirmed[j]
            /\ payoutStatus[j] = "PENDING" => paid[j] < confirmed[j]
            /\ payoutStatus[j] = "PROCESSING" => paid[j] < confirmed[j]
        BY <3>2 DEF DueInv
      <3>4. QED BY <2>1, <2>4, <3>1, <3>3
    <2>7. QED BY <2>5, <2>6
  \* The scheduler's jobs are pending, and none of them is being completed.
  <1>3. CASE MarkJobsAsProcessing(p)
    <2>1. /\ pc[p] \in {"mark", "initiate"} /\ UNCHANGED <<byHand, paid, confirmed>>
          /\ Return(p)
          /\ payoutStatus' = [j \in Jobs |-> IF j \in arg[p].jobs THEN "PROCESSING"
                                             ELSE payoutStatus[j]]
      BY <1>3 DEF MarkJobsAsProcessing
    <2>2. /\ pc'[p] = "idle" /\ arg'[p].jobs = {}
          /\ \A q \in Procs : q # p => pc'[q] = pc[q] /\ arg'[q] = arg[q]
      BY <2>1, ReturnType
    <2>3. \A j \in arg[p].jobs \ byHand : payoutStatus[j] = "PENDING" /\ pc[p] = "mark"
      BY <2>1 DEF HandlersOK, HandlerOK
    <2>4. HandlersOK'
      <3> SUFFICES ASSUME NEW q \in Procs PROVE HandlerOK(q)'
        BY DEF HandlersOK
      <3>1. CASE q = p
        BY <2>2, <3>1 DEF HandlerOK
      <3>2. CASE q # p
        <4>1. HandlerOK(q) /\ HandlerOK(p) /\ pc'[q] = pc[q] /\ arg'[q] = arg[q]
          BY <2>2, <3>2 DEF HandlersOK
        <4>2. arg[q].jobs \subseteq Jobs
          BY <1>t DEF Arg
        <4>3. ASSUME NEW j \in arg[q].jobs \ byHand
              PROVE  /\ payoutStatus[j] = "PROCESSING" => payoutStatus'[j] = "PROCESSING"
                     /\ pc[q] \in {"summarise", "mark"} =>
                           payoutStatus'[j] = payoutStatus[j]
          <5>1. j \in arg[p].jobs => pc[p] = "mark"
            BY <2>3
          <5>2. pc[q] \in {"summarise", "mark"} => j \notin arg[p].jobs
            BY <3>2, <4>1, <5>1 DEF HandlerOK
          <5>3. QED BY <2>1, <4>2, <5>2
        <4>4. QED BY <2>1, <4>1, <4>3 DEF HandlerOK
      <3>3. QED BY <3>1, <3>2
    <2>5. ASSUME NEW j, Recorded(j) PROVE Recorded(j)'
      <3>1. PICK q \in Procs : pc[q] = "payout.mark" /\ j \in arg[q].jobs
        BY <2>5 DEF Recorded
      <3>2. q # p /\ pc'[q] = "payout.mark" /\ j \in arg'[q].jobs
        BY <2>1, <2>2, <3>1
      <3>3. QED BY <3>2 DEF Recorded
    <2>6. DueInv'
      <3> SUFFICES ASSUME NEW j \in Jobs \ byHand
                   PROVE  /\ paid[j] <= confirmed[j]
                          /\ payoutStatus'[j] = "PENDING" => paid[j] < confirmed[j]
                          /\ payoutStatus'[j] = "PROCESSING" /\ ~ Recorded(j)' =>
                                paid[j] < confirmed[j]
        BY <2>1 DEF DueInv
      <3>1. CASE j \in arg[p].jobs
        <4>1. payoutStatus[j] = "PENDING"
          BY <2>3, <3>1
        <4>2. QED BY <4>1 DEF DueInv
      <3>2. CASE j \notin arg[p].jobs
        <4>1. payoutStatus'[j] = payoutStatus[j]
          BY <2>1, <3>2
        <4>2. QED BY <2>5, <4>1 DEF DueInv
      <3>3. QED BY <3>1, <3>2
    <2>7. QED BY <2>4, <2>6
  \* Nobody else completes a payout: the transaction is the first of this one.
  <1>4. CASE RecordPayout(p)
    <2>1. /\ pc[p] = "payout.record" /\ pc' = [pc EXCEPT ![p] = "payout.mark"]
          /\ arg' = arg /\ UNCHANGED <<byHand, payoutStatus, confirmed>>
          /\ paid' = [j \in Jobs |-> IF j \in arg[p].jobs THEN paid[j] + 1
                                     ELSE paid[j]]
      BY <1>4 DEF RecordPayout, Goto
    <2>2. pc'[p] = "payout.mark" /\ \A q \in Procs : q # p => pc'[q] = pc[q]
      BY <1>t, <2>1
    <2>3. HandlerOK(p) /\ p \in Admins
      BY <2>1 DEF HandlersOK, HandlerOK
    <2>4. \A q \in Procs : pc[q] # "payout.mark"
      BY <2>1, <2>3 DEF HandlersOK, HandlerOK, OneAdmin
    <2>5. HandlersOK'
      <3> SUFFICES ASSUME NEW q \in Procs PROVE HandlerOK(q)'
        BY DEF HandlersOK
      <3>1. HandlerOK(q) /\ arg'[q] = arg[q]
        BY <2>1 DEF HandlersOK
      <3>2. CASE q = p
        BY <2>1, <2>2, <2>3, <3>2 DEF HandlerOK
      <3>3. CASE q # p
        BY <2>1, <2>2, <3>1, <3>3 DEF HandlerOK
      <3>4. QED BY <3>2, <3>3
    <2>6. DueInv'
      <3> SUFFICES ASSUME NEW j \in Jobs \ byHand
                   PROVE  /\ paid'[j] <= confirmed[j]
                          /\ payoutStatus[j] = "PENDING" => paid'[j] < confirmed[j]
                          /\ payoutStatus[j] = "PROCESSING" /\ ~ Recorded(j)' =>
                                paid'[j] < confirmed[j]
        BY <2>1 DEF DueInv
      <3>1. paid[j] \in Nat /\ confirmed[j] \in Nat /\ ~ Recorded(j)
        BY <1>t, <2>4 DEF Recorded
      <3>2. CASE j \in arg[p].jobs
        <4>1. payoutStatus[j] = "PROCESSING"
          BY <2>1, <2>3, <3>2 DEF HandlerOK
        <4>2. paid[j] < confirmed[j]
          BY <3>1, <4>1 DEF DueInv
        <4>3. paid'[j] = paid[j] + 1
          BY <2>1, <3>2
        <4>4. Recorded(j)'
          BY <2>1, <2>2, <3>2 DEF Recorded
        <4>5. QED BY <3>1, <4>1, <4>2, <4>3, <4>4
      <3>3. CASE j \notin arg[p].jobs
        <4>1. paid'[j] = paid[j]
          BY <2>1, <3>3
        <4>2. QED BY <3>1, <4>1 DEF DueInv
      <3>4. QED BY <3>2, <3>3
    <2>7. QED BY <2>5, <2>6
  <1>5. CASE MarkPayoutCompleted(p)
    <2>1. /\ pc[p] = "payout.mark" /\ UNCHANGED <<byHand, paid, confirmed>>
          /\ Return(p)
          /\ payoutStatus' = [j \in Jobs |-> IF j \in arg[p].jobs THEN "COMPLETED"
                                             ELSE payoutStatus[j]]
      BY <1>5 DEF MarkPayoutCompleted
    <2>2. /\ pc'[p] = "idle" /\ arg'[p].jobs = {}
          /\ \A q \in Procs : q # p => pc'[q] = pc[q] /\ arg'[q] = arg[q]
      BY <2>1, ReturnType
    <2>3. /\ p \in Admins
          /\ \A j \in arg[p].jobs \ byHand : payoutStatus[j] = "PROCESSING"
      BY <2>1 DEF HandlersOK, HandlerOK
    <2>4. HandlersOK'
      <3> SUFFICES ASSUME NEW q \in Procs PROVE HandlerOK(q)'
        BY DEF HandlersOK
      <3>1. CASE q = p
        BY <2>2, <3>1 DEF HandlerOK
      <3>2. CASE q # p
        <4>1. HandlerOK(q) /\ pc'[q] = pc[q] /\ arg'[q] = arg[q]
          BY <2>2, <3>2 DEF HandlersOK
        <4>2. pc[q] \notin {"payout.record", "payout.mark"}
          BY <2>3, <3>2, <4>1 DEF HandlerOK, OneAdmin
        <4>3. arg[q].jobs \subseteq Jobs
          BY <1>t DEF Arg
        <4>4. ASSUME NEW j \in arg[q].jobs \ byHand, payoutStatus[j] = "PENDING"
              PROVE  payoutStatus'[j] = "PENDING"
          <5>1. j \notin arg[p].jobs
            BY <2>3, <4>4
          <5>2. QED BY <2>1, <4>3, <4>4, <5>1
        <4>5. QED BY <2>1, <4>1, <4>2, <4>4 DEF HandlerOK
      <3>3. QED BY <3>1, <3>2
    <2>5. DueInv'
      <3> SUFFICES ASSUME NEW j \in Jobs \ byHand
                   PROVE  /\ paid[j] <= confirmed[j]
                          /\ payoutStatus'[j] = "PENDING" => paid[j] < confirmed[j]
                          /\ payoutStatus'[j] = "PROCESSING" /\ ~ Recorded(j)' =>
                                paid[j] < confirmed[j]
        BY <2>1 DEF DueInv
      <3>1. CASE j \in arg[p].jobs
        <4>1. payoutStatus'[j] = "COMPLETED"
          BY <2>1, <3>1
        <4>2. QED BY <4>1 DEF DueInv
      <3>2. CASE j \notin arg[p].jobs
        <4>1. payoutStatus'[j] = payoutStatus[j]
          BY <2>1, <3>2
        <4>2. Recorded(j) => Recorded(j)'
          BY <2>2, <3>2 DEF Recorded
        <4>3. QED BY <4>1, <4>2 DEF DueInv
      <3>3. QED BY <3>1, <3>2
    <2>6. QED BY <2>4, <2>5
  <1>6. QED BY <1>1, <1>2, <1>3, <1>4, <1>5 DEF Continue

\* However often a completed job is opened again, it is not paid more often
\* than its completion was confirmed, if one administrator completes the
\* payouts that the scheduler started (payouts.service.ts:199-284,
\* admin.service.ts:2476-2499): what a handler holds keeps the status it read
\* until the handler writes, because the scheduler's jobs are PENDING, the
\* administrator's are PROCESSING, and only she confirms.
THEOREM PaidForConfirmed == Spec => []PaidWithinConfirmed
  <1>1. ASSUME OneAdmin PROVE Spec => []PaidWithinConfirmed
    <2>1. Init => HandlersOK /\ DueInv
      BY DEF Init, HandlersOK, HandlerOK, DueInv, NoArg
    <2>2. TypeOK /\ HandlersOK /\ DueInv /\ [Next]_vars => HandlersOK' /\ DueInv'
      <3>1. CASE TypeOK /\ HandlersOK /\ DueInv /\ [Next]_vars
        BY <1>1, <3>1, StartPaid, ContinuePaid, SchedulerPaid DEF Next
      <3>2. QED BY <3>1
    <2>3. DueInv => PaidWithinConfirmed
      BY DEF DueInv, PaidWithinConfirmed
    <2>4. QED BY <2>1, <2>2, <2>3, PayoutsTypeCorrect, PTL DEF Spec
  <1>2. ASSUME ~ OneAdmin PROVE Spec => []PaidWithinConfirmed
    <2>1. PaidWithinConfirmed
      BY <1>2 DEF OneAdmin, PaidWithinConfirmed
    <2>2. QED BY <2>1, PTL
  <1>3. QED BY <1>1, <1>2

=============================================================================
