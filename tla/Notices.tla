------------------------------ MODULE Notices ------------------------------
(***************************************************************************)
(* What the system tells its users: the methods of NotificationsService,   *)
(* each a sequence of awaits that mail, text and log, and the check at     *)
(* midnight for documents of operators and vehicles that expire.           *)
(*                                                                         *)
(* A sender's plan is what it has still to do, one part for each try, and  *)
(* an error drops the rest of a part.  Users and profiles are never        *)
(* deleted, so a recipient is always found unless the query throws.  The   *)
(* words of a letter are its kind and what it is about.  Days are counted  *)
(* from midnight to midnight, and expiry dates in half days, so that they  *)
(* are rounded.  A handler or a check ends before the next midnight.       *)
(***************************************************************************)
EXTENDS Integers, SequencesExt

CONSTANTS
    CustomerIds, OperatorIds, AdminMailbox,
    Callers,       \* handlers that send a notice
    Phones,        \* recipients with a telephone number
    Kinds,         \* the notices that are sent
    JobIds,        \* jobs that are broadcast
    Urgent,        \* those within URGENT_JOB_SMS_THRESHOLD_HOURS
    Recipients,    \* by job: the operators it is broadcast to, a sequence
    Papers,        \* rows of documents, and dates of vehicles
    Holder,        \* by paper: its operator
    Vehicle,       \* by paper: the vehicle whose date it is, or Nobody
    Watched,       \* the MOT and insurance dates
    Early, Soon,   \* 30 and 7 days
    LastDay,       \* bound on the days
    ExpiryDates,   \* in half days
    MaxNotices,    \* bound on notices of handlers
    MaxEdits,      \* bound on changes of papers
    MaxFaults,     \* bound on errors, outages and crashes
    Nobody

Loops == {"operatorDocuments", "vehicleDocuments"}
Senders == Callers \union Loops
Vehicles == {Vehicle[p] : p \in Papers} \ {Nobody}
Days == 0 .. LastDay

ASSUME NoticesAssumption ==
    /\ {Early, Soon, LastDay, MaxNotices, MaxEdits, MaxFaults} \subseteq Nat
    /\ 0 < Soon /\ Soon < Early /\ ExpiryDates \subseteq Nat
    /\ Callers \intersect Loops = {}
    /\ IsFiniteSet(Papers) /\ Nobody \notin ExpiryDates
    /\ Holder \in [Papers -> OperatorIds]
    /\ Watched \subseteq Papers /\ \A p \in Watched : Vehicle[p] # Nobody
    /\ Recipients \in [JobIds -> Seq(OperatorIds)]

VARIABLES
    notifications, \* the table: letters
    expiresAt,     \* by paper: the date, or Nobody
    inService,     \* by vehicle: isActive
    handed,        \* history: letters given to the mail or text service
    refused,       \* history: those it did not take
    day,
    entered,       \* history: since when a paper is checked as it is
    troubled,      \* history: days with an error or a crash
    notices, edits, faults,
    plan           \* by sender

paperVars == <<expiresAt, inService, entered>>
letterVars == <<notifications, handed, refused>>
boundVars == <<notices, edits, faults>>
noticeVars == <<letterVars, paperVars, day, troubled, boundVars, plan>>

----------------------------------------------------------------------------
(* Notices: sequences of awaits.                                           *)

Do(act, to, kind, about) ==
    [act |-> act, to |-> to, kind |-> kind, about |-> about]

Mail(to, kind, about) ==
    <<Do("find", to, kind, about), Do("mail", to, kind, about)>>
Text(to, kind, about) ==
    IF to \in Phones THEN <<Do("text", to, kind, about)>> ELSE <<>>
Log(to, kind, about) == <<Do("log", to, kind, about)>>

Logged(to, kind, about) == Mail(to, kind, about) \o Log(to, kind, about)
Texted(to, kind, about) ==
    Mail(to, kind, about) \o Text(to, kind, about) \o Log(to, kind, about)

\* Confirmations and the driver, to the customer.
CustomerTexts ==
    {"BOOKING_CONFIRMATION", "RETURN_JOURNEY_CONFIRMATION", "DRIVER_ASSIGNED"}
\* The bid and the offer, to the operator.
OperatorTexts == {"BID_WON", "JOB_OFFER"}
\* The life of an operator's account.
OperatorMails ==
    {"OPERATOR_APPROVED", "OPERATOR_REJECTED", "OPERATOR_SUSPENDED",
     "OPERATOR_REINSTATED", "OPERATOR_WELCOME"}
\* Assignment by an administrator.
ManualMails == {"MANUAL_JOB_ASSIGNMENT", "DRIVER_BEING_ASSIGNED"}
CustomerMails ==
    {"CUSTOMER_DEACTIVATED", "JOB_COMPLETED", "BOOKING_MODIFIED"}

\* Every operator of the list in turn, then the administrator.
Broadcast(j, n) ==
    LET alert(o) ==
            Mail(o, "NEW_JOB_ALERT", <<j, n>>)
            \o (IF j \in Urgent THEN Text(o, "NEW_JOB_ALERT", <<j, n>>) ELSE <<>>)
            \o Log(o, "NEW_JOB_ALERT", <<j, n>>)
    IN  <<Do("find", Nobody, "NEW_JOB_ALERT", <<j, n>>)>>
        \o FlattenSeq([i \in DOMAIN Recipients[j] |-> alert(Recipients[j][i])])
        \o Mail(AdminMailbox, "NEW_JOB", <<j, n>>)

\* The telephone number is a setting that nothing creates: getSetting throws.
Escalation(n) ==
    Mail(AdminMailbox, "JOB_ESCALATION", n)
    \o <<Do("phone", AdminMailbox, "JOB_ESCALATION", n)>>

\* To the customer, then to the operator of an assigned job.
Cancellation(c, o, n) ==
    Texted(c, "BOOKING_CANCELLATION", n)
    \o (IF o = Nobody THEN <<>> ELSE Texted(o, "JOB_CANCELLATION", n))

\* The recipient is given, and the row names a profile, which is no user.
Modification(o, n) ==
    <<Do("mail", o, "JOB_MODIFIED", n)>> \o Text(o, "JOB_MODIFIED", n)
    \o <<Do("logUnknown", o, "JOB_MODIFIED", n)>>

Registration(n) == Mail(AdminMailbox, "OPERATOR_REGISTERED", n)
Reminder(c, n) == Mail(c, "JOURNEY_REMINDER", n)

ASSUME KindsAssumption ==
    Kinds \subseteq
        CustomerTexts \union OperatorTexts \union OperatorMails
        \union CustomerMails \union ManualMails
        \union {"NEW_JOB", "JOB_ESCALATION", "BOOKING_CANCELLATION",
                "JOB_MODIFIED", "OPERATOR_REGISTERED", "JOURNEY_REMINDER"}

\* The n-th notice, of a kind.
NoticesOf(kind, n) ==
    IF kind \in CustomerTexts THEN {Texted(c, kind, n) : c \in CustomerIds}
    ELSE IF kind \in OperatorTexts THEN {Texted(o, kind, n) : o \in OperatorIds}
    ELSE IF kind \in OperatorMails THEN {Logged(o, kind, n) : o \in OperatorIds}
    ELSE IF kind \in CustomerMails THEN {Logged(c, kind, n) : c \in CustomerIds}
    ELSE IF kind \in ManualMails
         THEN {Logged(u, kind, n) : u \in CustomerIds \union OperatorIds}
    ELSE CASE kind = "NEW_JOB" -> {Broadcast(j, n) : j \in JobIds}
           [] kind = "JOB_ESCALATION" -> {Escalation(n)}
           [] kind = "BOOKING_CANCELLATION" ->
                {Cancellation(to[1], to[2], n) :
                    to \in CustomerIds \X (OperatorIds \union {Nobody})}
           [] kind = "JOB_MODIFIED" -> {Modification(o, n) : o \in OperatorIds}
           [] kind = "OPERATOR_REGISTERED" -> {Registration(n)}
           [] kind = "JOURNEY_REMINDER" -> {Reminder(c, n) : c \in CustomerIds}

----------------------------------------------------------------------------
(* Documents that expire.                                                  *)

DaysLeft(e, d) == (e - 2 * d + 1) \div 2

\* Seeded bug: the last day is not one of the seven.
WarningsDueBefore(e, d) == DaysLeft(e, d) \in 1 .. Soon - 1
WarningDue(e, d) == DaysLeft(e, d) \in (1 .. Soon) \union {Early}
Expired(e, d) == e <= 2 * d

\* What a check has to say of a paper, in one try; nothing is no part.
Warning(p) == Logged(Holder[p], "DOCUMENT_EXPIRY_WARNING", <<p, expiresAt[p]>>)
Expiry(p) ==
    Logged(Holder[p], "DOCUMENT_EXPIRED", <<p, expiresAt[p]>>)
    \o Mail(AdminMailbox, "DOCUMENT_EXPIRY", <<p, expiresAt[p]>>)

\* The rows a check reads: documents with a date, and the dates of vehicles
\* in service that have an MOT or insurance date.
Checked(loop) ==
    {p \in Papers :
        /\ expiresAt[p] # Nobody
        /\ (loop = "operatorDocuments") = (Vehicle[p] = Nobody)
        /\ Vehicle[p] # Nobody =>
             /\ inService[Vehicle[p]]
             /\ \E q \in Watched : Vehicle[q] = Vehicle[p] /\ expiresAt[q] # Nobody}

PartsOf(loop) ==
    {Expiry(p) : p \in {q \in Checked(loop) : Expired(expiresAt[q], day)}}
    \union {Warning(p) : p \in {q \in Checked(loop) :
                                  /\ ~Expired(expiresAt[q], day)
                                  /\ WarningDue(expiresAt[q], day)}}

----------------------------------------------------------------------------
(* Senders *)

Idle(s) == plan[s] = <<>>
Next1(s) == plan[s][1][1]
At(s, act) == ~Idle(s) /\ Next1(s).act = act

\* The parts that remain once the first step is done.
Rest(parts) ==
    IF Len(parts[1]) = 1 THEN Tail(parts)
    ELSE <<Tail(parts[1])>> \o Tail(parts)
\* Seeded bug: an error skips one recipient only.
NextRecipient(parts) ==
    LET steps == parts[1]
        later == {i \in 2 .. Len(steps) : steps[i].act = "find"}
    IN  IF later = {} THEN Tail(parts)
        ELSE <<SubSeq(steps, CHOOSE i \in later : \A j \in later : i <= j,
                      Len(steps))>> \o Tail(parts)
\* An error leaves the method, and the loops go on with the next paper.
AfterError(parts) == Tail(parts)

Advance(s) == plan' = [plan EXCEPT ![s] = Rest(@)]

Fault == /\ faults < MaxFaults
         /\ faults' = faults + 1
         /\ troubled' = troubled \union {day}
NoFault == UNCHANGED <<faults, troubled>>

\* A handler calls a method of NotificationsService.
Call(s, kind) ==
    /\ Idle(s) /\ notices < MaxNotices
    /\ notices' = notices + 1
    /\ \E steps \in NoticesOf(kind, notices) :
         plan' = [plan EXCEPT ![s] = <<steps>>]
    /\ UNCHANGED <<letterVars, paperVars, day, troubled, edits, faults>>

\* @Cron(EVERY_DAY_AT_MIDNIGHT) checkDocumentExpiry: both checks start.
Midnight ==
    /\ \A s \in Senders : Idle(s)
    /\ day < LastDay
    /\ day' = day + 1
    /\ plan' = [s \in Senders |->
                  IF s \in Loops
                  THEN << <<Do("read", Nobody, "DOCUMENTS", day + 1)>> >>
                  ELSE <<>>]
    /\ UNCHANGED <<letterVars, paperVars, boundVars, troubled>>

\* The process is down at midnight.
MissMidnight ==
    /\ \A s \in Senders : Idle(s)
    /\ day < LastDay /\ faults < MaxFaults
    /\ day' = day + 1
    /\ troubled' = troubled \union {day + 1}
    /\ faults' = faults + 1
    /\ UNCHANGED <<letterVars, paperVars, notices, edits, plan>>

\* findMany: the papers of the loop, in some order, which nothing depends on.
ReadPapers(s) ==
    /\ At(s, "read")
    /\ plan' = [plan EXCEPT ![s] = SetToSeq(PartsOf(s))]
    /\ NoFault
    /\ UNCHANGED <<letterVars, paperVars, day, notices, edits>>

\* findUnique of the recipient, getSettingOrDefault of the mailbox.
FindRecipient(s) ==
    /\ At(s, "find")
    /\ Advance(s)
    /\ NoFault
    /\ UNCHANGED <<letterVars, paperVars, day, notices, edits>>

\* A query throws.
QueryThrows(s) ==
    /\ At(s, "find") \/ At(s, "read")
    /\ plan' = [plan EXCEPT ![s] = AfterError(@)]
    /\ Fault
    /\ UNCHANGED <<letterVars, paperVars, day, notices, edits>>

\* getSetting('ADMIN_ESCALATION_PHONE') throws: there is no such setting.
NoPhone(s) ==
    /\ At(s, "phone")
    /\ plan' = [plan EXCEPT ![s] = AfterError(@)]
    /\ NoFault
    /\ UNCHANGED <<letterVars, paperVars, day, notices, edits>>

\* sendEmail and sendSms return false when the service does not take a letter,
\* which no caller looks at.
Hand(s) ==
    /\ At(s, "mail") \/ At(s, "text")
    /\ handed' = handed \union {<<day, Next1(s)>>}
    /\ \/ UNCHANGED <<refused, faults, troubled>>
       \/ Fault /\ refused' = refused \union {<<day, Next1(s)>>}
    /\ Advance(s)
    /\ UNCHANGED <<notifications, paperVars, day, notices, edits>>

\* logNotification: an error is swallowed.
WriteRow(s) ==
    /\ \/ /\ At(s, "log")
          /\ \/ /\ notifications' = notifications \union {<<day, Next1(s)>>}
                /\ NoFault
             \/ Fault /\ UNCHANGED notifications
       \/ At(s, "logUnknown") /\ NoFault /\ UNCHANGED notifications
    /\ Advance(s)
    /\ UNCHANGED <<handed, refused, paperVars, day, notices, edits>>

\* The process stops and is started again: what was under way is forgotten.
StopAndStart ==
    /\ \E s \in Senders : ~Idle(s)
    /\ plan' = [s \in Senders |-> <<>>]
    /\ Fault
    /\ UNCHANGED <<letterVars, paperVars, day, notices, edits>>

----------------------------------------------------------------------------
(* Papers *)

Alter(papers) ==
    /\ edits < MaxEdits
    /\ edits' = edits + 1
    /\ entered' = [p \in Papers |-> IF p \in papers THEN day ELSE entered[p]]
    /\ UNCHANGED <<letterVars, day, troubled, notices, faults, plan>>

\* A document is uploaded, in a row of its own, or deleted.
UploadPaper(p, e) ==
    /\ Vehicle[p] = Nobody /\ expiresAt[p] = Nobody
    /\ expiresAt' = [expiresAt EXCEPT ![p] = e]
    /\ Alter({p})
    /\ UNCHANGED inService
DeletePaper(p) ==
    /\ Vehicle[p] = Nobody /\ expiresAt[p] # Nobody
    /\ expiresAt' = [expiresAt EXCEPT ![p] = Nobody]
    /\ Alter({p})
    /\ UNCHANGED inService

PapersOf(v) == {p \in Papers : Vehicle[p] = v}

\* updateVehicle: a date, or isActive.
UpdateDate(p, e) ==
    /\ Vehicle[p] # Nobody
    /\ expiresAt' = [expiresAt EXCEPT ![p] = e]
    /\ Alter(PapersOf(Vehicle[p]))
    /\ UNCHANGED inService
SetInService(v, active) ==
    /\ inService' = [inService EXCEPT ![v] = active]
    /\ Alter(PapersOf(v))
    /\ UNCHANGED expiresAt

----------------------------------------------------------------------------

NoticesInit ==
    /\ notifications = {} /\ handed = {} /\ refused = {} /\ troubled = {}
    /\ expiresAt \in [Papers -> ExpiryDates \union {Nobody}]
    /\ inService = [v \in Vehicles |-> TRUE]
    /\ day = 0
    /\ entered = [p \in Papers |-> 0]
    /\ notices = 0 /\ edits = 0 /\ faults = 0
    /\ plan = [s \in Senders |-> <<>>]

NoticesNext ==
    \/ Midnight \/ MissMidnight \/ StopAndStart
    \/ \E s \in Callers, kind \in Kinds : Call(s, kind)
    \/ \E s \in Senders :
         \/ ReadPapers(s) \/ FindRecipient(s) \/ QueryThrows(s) \/ NoPhone(s)
         \/ Hand(s) \/ WriteRow(s)
    \/ \E p \in Papers :
         \/ DeletePaper(p)
         \/ \E e \in ExpiryDates : UploadPaper(p, e) \/ UpdateDate(p, e)
    \/ \E v \in Vehicles, active \in BOOLEAN : SetInService(v, active)

NoticesSpec == NoticesInit /\ [][NoticesNext]_noticeVars

----------------------------------------------------------------------------
(* Properties *)

Said(d, to, kind, about) == <<d, Do("mail", to, kind, about)>> \in handed

\* The administrator reads of a new job only when every operator of its list
\* was written to, and of an expired document only when its operator was: no
\* error, refusal or crash on the way lets the last letter out before the
\* others (notifications.service.ts:278-338,
\* document-expiry-scheduler.service.ts:102-117, :205-228).
AdminHearsLast ==
    \A d \in Days :
        /\ \A j \in JobIds, n \in 0 .. MaxNotices :
             Said(d, AdminMailbox, "NEW_JOB", <<j, n>>) =>
               \A i \in DOMAIN Recipients[j] :
                 Said(d, Recipients[j][i], "NEW_JOB_ALERT", <<j, n>>)
        /\ \A p \in Papers, e \in ExpiryDates :
             Said(d, AdminMailbox, "DOCUMENT_EXPIRY", <<p, e>>) =>
               Said(d, Holder[p], "DOCUMENT_EXPIRED", <<p, e>>)

\* An operator who reads that a document has expired was warned thirty days
\* before and on each of the last seven, save the days before the document
\* was entered and those on which the system failed: neither another
\* document's error nor a check that was missed costs a later day's warning
\* (document-expiry-scheduler.service.ts:50-67, :160-176).
Forewarned ==
    \A p \in Papers :
        LET e == expiresAt[p]
        IN  (\E d \in Days : Said(d, Holder[p], "DOCUMENT_EXPIRED", <<p, e>>)) =>
              \A d \in 1 .. LastDay :
                (/\ DaysLeft(e, d) \in (1 .. Soon) \union {Early}
                 /\ entered[p] < d /\ d \notin troubled)
                => Said(d, Holder[p], "DOCUMENT_EXPIRY_WARNING", <<p, e>>)

\* docs/FEATURES.md:249 has "Delivery tracking (sent, failed, bounced)"; a row
\* says SENT of a letter that was refused (notifications.service.ts:536-555).
SentWasAccepted ==
    \A row \in notifications : <<row[1], [row[2] EXCEPT !.act = "mail"]>> \notin refused
=============================================================================
