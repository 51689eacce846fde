---------------------------- MODULE OfficeProofs ---------------------------
(***************************************************************************)
(* Proofs about Notices and Quotes, for any recipients, papers, tariffs    *)
(* and journeys.                                                           *)
(*                                                                         *)
(* Notices: every handler's plan, however its loops interleave, is put     *)
(* together from steps in an order in which the administrator is told      *)
(* last; and of every pass of the daily check, what is told is recorded    *)
(* until the next.  So nobody is told of an expiry that was not announced. *)
(*                                                                         *)
(* Quotes: bulk updates lead to what was asked, the loop over the hundreds *)
(* of miles is a sum over the miles, and the orders of discounts and       *)
(* rounding lead to prices two pence apart at most.                        *)
(***************************************************************************)
EXTENDS MCOffice, SequenceTheorems, FiniteSetTheorems, WellFoundedInduction, TLAPS

----------------------------------------------------------------------------
(* Lemmas about numbers and sequences *)

\* Induction on the naturals, for a set of them.
LEMMA SetOfNaturals ==
    ASSUME NEW Good \in SUBSET Nat, 0 \in Good, \A n \in Good : n + 1 \in Good
    PROVE  Good = Nat
  <1> DEFINE Bad == {0 .. n : n \in Nat \ Good}
             R == StrictSubsetOrdering(Nat)
  <1>1. Bad \subseteq FiniteSubsetsOf(Nat)
    <2>1. ASSUME NEW n \in Nat PROVE 0 .. n \subseteq Nat /\ IsFiniteSet(0 .. n)
      BY FS_Interval
    <2>2. QED BY <2>1 DEF FiniteSubsetsOf
  <1>2. IsWellFoundedOn(R, FiniteSubsetsOf(Nat))
    BY FS_StrictSubsetOrderingWellFounded
  <1>3. ASSUME Bad # {} PROVE FALSE
    <2>1. PICK T \in Bad : \A U \in Bad : ~(<<U, T>> \in R)
      <3> HIDE DEF Bad, R
      <3>1. QED BY <1>1, <1>2, <1>3, WFMin
    <2>2. PICK n \in Nat \ Good : T = 0 .. n
      BY <2>1
    <2>3. n # 0 /\ n - 1 \in Nat /\ n - 1 + 1 = n
      BY <2>2
    <2>4. n - 1 \notin Good
      BY <2>2, <2>3
    <2>5. 0 .. n - 1 \in Bad
      BY <2>3, <2>4
    <2>6. 0 .. n - 1 \subseteq 0 .. n /\ 0 .. n - 1 # 0 .. n
      <3>1. n \in 0 .. n /\ n \notin 0 .. n - 1
        BY <2>3
      <3>2. QED BY <2>3, <3>1
    <2>7. <<0 .. n - 1, T>> \in R
      BY <2>2, <2>3, <2>6 DEF StrictSubsetOrdering
    <2>8. QED BY <2>1, <2>5, <2>7
  <1>4. QED BY <1>3

\* What the concatenation of many sequences is defined by, up to the n-th.
IsFlat(f, seqs, n) ==
    f = [i \in 1 .. n |-> IF i = 1 THEN seqs[i] ELSE f[i - 1] \o seqs[i]]

LEMMA FlatExists ==
    ASSUME NEW seqs, NEW n \in Nat
    PROVE  \E f : IsFlat(f, seqs, n)
  <1> DEFINE Good == {m \in Nat : \E f : IsFlat(f, seqs, m)}
  <1>1. 0 \in Good
    <2> DEFINE f == [i \in 1 .. 0 |-> 0]
    <2>1. IsFlat(f, seqs, 0)
      BY DEF IsFlat
    <2>2. QED BY <2>1
  <1>2. ASSUME NEW m \in Good PROVE m + 1 \in Good
    <2>1. PICK f : IsFlat(f, seqs, m)
      OBVIOUS
    <2> DEFINE g == [i \in 1 .. m + 1 |->
                        IF i <= m THEN f[i]
                        ELSE IF i = 1 THEN seqs[i] ELSE f[i - 1] \o seqs[i]]
    <2>2. \A i \in 1 .. m : f[i] = IF i = 1 THEN seqs[i] ELSE f[i - 1] \o seqs[i]
      BY <2>1 DEF IsFlat
    <2>3. \A i \in 1 .. m + 1 : i # 1 => i - 1 \in 1 .. m
      OBVIOUS
    <2>4. \A i \in 1 .. m + 1 : i # 1 => g[i - 1] = f[i - 1]
      BY <2>3
    <2>5. \A i \in 1 .. m + 1 :
              g[i] = IF i = 1 THEN seqs[i] ELSE f[i - 1] \o seqs[i]
      BY <2>2
    <2>6. \A i \in 1 .. m + 1 :
              g[i] = IF i = 1 THEN seqs[i] ELSE g[i - 1] \o seqs[i]
      BY <2>4, <2>5
    <2>7. g = [i \in 1 .. m + 1 |-> g[i]]
      OBVIOUS
    <2> HIDE DEF g
    <2>8. IsFlat(g, seqs, m + 1)
      BY <2>6, <2>7 DEF IsFlat
    <2>9. QED BY <2>8
  <1>3. Good = Nat
    <2>1. Good \in SUBSET Nat
      OBVIOUS
    <2> HIDE DEF Good
    <2>2. QED BY <1>1, <1>2, <2>1, SetOfNaturals
  <1>4. QED BY <1>3

\* The concatenation holds the elements of all of them.
LEMMA FlattenProperties ==
    ASSUME NEW S, NEW seqs \in Seq(Seq(S))
    PROVE  /\ FlattenSeq(seqs) \in Seq(S)
           /\ \A i \in DOMAIN seqs : Range(seqs[i]) \subseteq Range(FlattenSeq(seqs))
  <1>1. CASE Len(seqs) = 0
    <2>1. seqs = <<>> /\ DOMAIN seqs = {}
      BY <1>1, EmptySeq, LenProperties
    <2>2. FlattenSeq(seqs) = <<>>
      BY <1>1, <2>1 DEF FlattenSeq
    <2>3. <<>> \in Seq(S)
      BY EmptySeq
    <2>4. QED BY <2>1, <2>2, <2>3
  <1>2. CASE Len(seqs) # 0
    <2> DEFINE n == Len(seqs)
               f == CHOOSE f : IsFlat(f, seqs, n)
    <2>1. n \in Nat \ {0} /\ DOMAIN seqs = 1 .. n
      BY <1>2
    <2>2. \A i \in 1 .. n : seqs[i] \in Seq(S)
      BY <2>1
    <2>3. IsFlat(f, seqs, n)
      BY <2>1, FlatExists
    <2>4. FlattenSeq(seqs) = f[n]
      BY <1>2, Zenon DEF FlattenSeq, IsFlat
    <2> HIDE DEF f
    <2>5. \A i \in 1 .. n : f[i] = IF i = 1 THEN seqs[i] ELSE f[i - 1] \o seqs[i]
      BY <2>3 DEF IsFlat
    <2> HIDE DEF n
    <2> DEFINE Right(m) == f[m] \in Seq(S)
                   /\ \A i \in 1 .. m : Range(seqs[i]) \subseteq Range(f[m])
               Good == {m \in Nat : m \in 1 .. n => Right(m)}
    <2> HIDE DEF Right
    <2>6. 0 \in Good
      OBVIOUS
    <2>7. ASSUME NEW m \in Good PROVE m + 1 \in Good
      <3>1. SUFFICES ASSUME m + 1 \in 1 .. n PROVE Right(m + 1)
        BY <2>1
      <3>2. CASE m = 0
        <4>1. f[1] = seqs[1] /\ f[1] \in Seq(S)
          BY <2>2, <2>5, <3>1, <3>2
        <4>2. \A i \in 1 .. 1 : i = 1
          OBVIOUS
        <4>3. QED BY <3>2, <4>1, <4>2 DEF Right
      <3>3. CASE m # 0
        <4>1. m \in 1 .. n /\ m + 1 # 1 /\ m + 1 - 1 = m
          BY <3>1, <3>3, <2>1
        <4>2. Right(m)
          BY <4>1
        <4>3. f[m + 1] = f[m] \o seqs[m + 1] /\ seqs[m + 1] \in Seq(S)
          <5> DEFINE i == m + 1
          <5>1. i \in 1 .. n /\ i # 1 /\ i - 1 = m
            BY <3>1, <4>1
          <5> HIDE DEF i
          <5>2. f[i] = f[i - 1] \o seqs[i] /\ seqs[i] \in Seq(S)
            BY <2>2, <2>5, <5>1
          <5>3. f[i] = f[m] \o seqs[i] /\ seqs[i] \in Seq(S)
            BY <5>1, <5>2
          <5>4. QED BY <5>3 DEF i
        <4>4. /\ f[m + 1] \in Seq(S)
              /\ Range(f[m + 1]) = Range(f[m]) \union Range(seqs[m + 1])
          <5> DEFINE s == f[m]
                     t == seqs[m + 1]
          <5>1. s \in Seq(S) /\ t \in Seq(S) /\ f[m + 1] = s \o t
            BY <4>2, <4>3 DEF Right
          <5> HIDE DEF s, t
          <5>2. f[m + 1] \in Seq(S) /\ Range(f[m + 1]) = Range(s) \union Range(t)
            BY <5>1, ConcatProperties, RangeConcatenation
          <5>3. QED BY <5>2 DEF s, t
        <4>5. \A i \in 1 .. m + 1 : i \in 1 .. m \/ i = m + 1
          OBVIOUS
        <4>6. ASSUME NEW i \in 1 .. m + 1
              PROVE  Range(seqs[i]) \subseteq Range(f[m + 1])
          BY <4>2, <4>4, <4>5 DEF Right
        <4>7. QED BY <4>4, <4>6 DEF Right
      <3>4. QED BY <3>2, <3>3
    <2>8. Good = Nat
      <3>1. Good \in SUBSET Nat
        OBVIOUS
      <3> HIDE DEF Good
      <3>2. QED BY <2>6, <2>7, <3>1, SetOfNaturals
    <2>9. Right(n)
      <3>1. n \in Good /\ n \in 1 .. n
        BY <2>1, <2>8
      <3>2. QED BY <3>1
    <2>10. QED BY <2>1, <2>4, <2>9 DEF Right
  <1>3. QED BY <1>1, <1>2

\* A finite set as a sequence: of its elements, and of all of them.
LEMMA SetToSeqProperties ==
    ASSUME NEW S, IsFiniteSet(S)
    PROVE  SetToSeq(S) \in Seq(S) /\ Range(SetToSeq(S)) = S
  <1> DEFINE n == Cardinality(S)
             f == SetToSeq(S)
  <1>1. n \in Nat /\ ExistsBijection(1 .. n, S)
    BY FS_CardinalityType
  <1>2. \E g \in [1 .. n -> S] : IsInjective(g)
    BY <1>1 DEF ExistsBijection, Bijection, Injection, IsInjective
  <1>3. f \in [1 .. n -> S] /\ IsInjective(f)
    BY <1>2 DEF SetToSeq
  <1>4. f \in Injection(1 .. n, S)
    BY <1>3 DEF Injection, IsInjective
  <1>5. IsFiniteSet(1 .. n) /\ Cardinality(1 .. n) = n
    BY <1>1, FS_Interval
  <1>6. f \in Surjection(1 .. n, S)
    <2> HIDE DEF f
    <2>1. QED BY <1>4, <1>5, FS_Injection
  <1>7. Range(f) = S
    BY <1>3, <1>6 DEF Surjection, Range
  <1>8. f \in Seq(S)
    BY <1>1, <1>3
  <1>9. QED BY <1>7, <1>8----------------------------------------------------------------------------
(* Notices: the steps of a plan *)

\* Who is written to, and what a handler does.
Anyone == CustomerIds \union OperatorIds \union {AdminMailbox, Nobody}
Acts == {"find", "mail", "text", "log", "logUnknown", "phone"}

\* Steps of the kinds K, about members of A.
Steps(K, A) == [act : Acts, to : Anyone, kind : K, about : A]

\* The kinds that the properties do not speak of.
Common ==
    CustomerTexts \union OperatorTexts \union OperatorMails
    \union CustomerMails \union ManualMails
    \union {"JOB_ESCALATION", "BOOKING_CANCELLATION", "JOB_CANCELLATION",
            "JOB_MODIFIED", "OPERATOR_REGISTERED", "JOURNEY_REMINDER"}
JobKinds == {"NEW_JOB_ALERT", "NEW_JOB"}
PaperKinds == {"DOCUMENT_EXPIRY_WARNING", "DOCUMENT_EXPIRED", "DOCUMENT_EXPIRY"}

\* What the handlers do, and what the checks do: a part is of one of them.
CallStep == Steps(Common, Nat) \union Steps(JobKinds, JobIds \X Nat)
PaperStep == {x \in Steps(PaperKinds, Papers \X ExpiryDates) : x.act # "phone"}
Part == (Seq(CallStep) \union Seq(PaperStep)) \ {<<>>}

\* The pieces that notices are put together from.
LEMMA PieceType ==
    ASSUME NEW K, NEW A, NEW to \in Anyone, NEW kind \in K, NEW about \in A
    PROVE  /\ Mail(to, kind, about) \in Seq(Steps(K, A))
           /\ Text(to, kind, about) \in Seq(Steps(K, A))
           /\ Log(to, kind, about) \in Seq(Steps(K, A))
  <1>1. \A act \in Acts : Do(act, to, kind, about) \in Steps(K, A)
    BY DEF Do, Steps
  <1>2. /\ Do("find", to, kind, about) \in Steps(K, A)
        /\ Do("mail", to, kind, about) \in Steps(K, A)
        /\ Do("text", to, kind, about) \in Steps(K, A)
        /\ Do("log", to, kind, about) \in Steps(K, A)
    BY <1>1 DEF Acts
  <1> HIDE DEF Do, Steps
  <1>3. Mail(to, kind, about) \in Seq(Steps(K, A))
    BY <1>2 DEF Mail
  <1>4. Text(to, kind, about) \in Seq(Steps(K, A))
    BY <1>2, EmptySeq DEF Text
  <1>5. Log(to, kind, about) \in Seq(Steps(K, A))
    BY <1>2 DEF Log
  <1>6. QED BY <1>3, <1>4, <1>5

\* A piece holds its letter.
LEMMA MailHolds ==
    ASSUME NEW to, NEW kind, NEW about
    PROVE  Do("mail", to, kind, about) \in Range(Mail(to, kind, about))
  <1>1. Mail(to, kind, about)[2] = Do("mail", to, kind, about)
        /\ 2 \in DOMAIN Mail(to, kind, about)
    BY DEF Mail
  <1>2. QED BY <1>1 DEF Range

\* The notices of one letter and of a letter and a text.
LEMMA LetterType ==
    ASSUME NEW K, NEW A, NEW to \in Anyone, NEW kind \in K, NEW about \in A
    PROVE  /\ Logged(to, kind, about) \in Seq(Steps(K, A))
           /\ Texted(to, kind, about) \in Seq(Steps(K, A))
           /\ Logged(to, kind, about) # <<>>
           /\ Texted(to, kind, about) # <<>>
           /\ Do("mail", to, kind, about) \in Range(Logged(to, kind, about))
           /\ Do("mail", to, kind, about) \in Range(Texted(to, kind, about))
  <1> DEFINE m == Mail(to, kind, about)
             t == Text(to, kind, about)
             l == Log(to, kind, about)
             x == Do("mail", to, kind, about)
  <1>1. m \in Seq(Steps(K, A)) /\ t \in Seq(Steps(K, A)) /\ l \in Seq(Steps(K, A))
    BY PieceType
  <1>2. x \in Range(m)
    BY MailHolds
  <1>3. Logged(to, kind, about) = m \o l
    BY DEF Logged
  <1>4. Texted(to, kind, about) = m \o t \o l
    BY DEF Texted
  <1> HIDE DEF m, t, l, x
  <1>5. m \o l \in Seq(Steps(K, A)) /\ Range(m \o l) = Range(m) \union Range(l)
    BY <1>1, ConcatProperties, RangeConcatenation
  <1>6. m \o t \in Seq(Steps(K, A)) /\ Range(m \o t) = Range(m) \union Range(t)
    BY <1>1, ConcatProperties, RangeConcatenation
  <1>7. /\ m \o t \o l \in Seq(Steps(K, A))
        /\ Range(m \o t \o l) = Range(m \o t) \union Range(l)
    <2> DEFINE u == m \o t
    <2>1. u \in Seq(Steps(K, A))
      BY <1>6
    <2> HIDE DEF u
    <2>2. /\ u \o l \in Seq(Steps(K, A))
          /\ Range(u \o l) = Range(u) \union Range(l)
      BY <1>1, <2>1, ConcatProperties, RangeConcatenation
    <2>3. QED BY <2>2 DEF u
  <1>8. Range(<<>>) = {}
    <2>1. DOMAIN <<>> = {}
      OBVIOUS
    <2>2. QED BY <2>1 DEF Range
  <1>9. x \in Range(m \o l) /\ x \in Range(m \o t \o l)
    BY <1>2, <1>5, <1>6, <1>7
  <1>10. m \o l # <<>> /\ m \o t \o l # <<>>
    BY <1>8, <1>9
  <1>11. QED BY <1>3, <1>4, <1>5, <1>7, <1>9, <1>10 DEF x

\* What is put together from pieces.
LEMMA Joined ==
    ASSUME NEW S, NEW s \in Seq(S), NEW t \in Seq(S)
    PROVE  /\ s \o t \in Seq(S)
           /\ Range(s \o t) = Range(s) \union Range(t)
           /\ s # <<>> => s \o t # <<>>
  BY ConcatProperties, RangeConcatenation, ConcatEqualIffEmpty

\* No notice but the broadcast writes about new jobs or documents.
LEMMA CommonNotice ==
    ASSUME NEW kind \in Kinds, kind # "NEW_JOB", NEW n \in Nat,
           NEW w \in NoticesOf(kind, n)
    PROVE  w \in Seq(Steps(Common, Nat)) /\ w # <<>>
  <1> DEFINE Mails == OperatorMails \union CustomerMails \union ManualMails
             Texts == CustomerTexts \union OperatorTexts
             Right == w \in Seq(Steps(Common, Nat)) /\ w # <<>>
  <1>1. {AdminMailbox, Nobody} \subseteq Anyone
        /\ CustomerIds \subseteq Anyone /\ OperatorIds \subseteq Anyone
    BY DEF Anyone
  <1>2. ASSUME NEW to \in Anyone, NEW k \in Common
        PROVE  /\ Texted(to, k, n) \in Seq(Steps(Common, Nat)) /\ Texted(to, k, n) # <<>>
               /\ Logged(to, k, n) \in Seq(Steps(Common, Nat)) /\ Logged(to, k, n) # <<>>
               /\ Mail(to, k, n) \in Seq(Steps(Common, Nat)) /\ Mail(to, k, n) # <<>>
               /\ Text(to, k, n) \in Seq(Steps(Common, Nat))
               /\ \A act \in Acts : /\ <<Do(act, to, k, n)>> \in Seq(Steps(Common, Nat))
                                    /\ <<Do(act, to, k, n)>> # <<>>
    <2>1. /\ Texted(to, k, n) \in Seq(Steps(Common, Nat)) /\ Texted(to, k, n) # <<>>
          /\ Logged(to, k, n) \in Seq(Steps(Common, Nat)) /\ Logged(to, k, n) # <<>>
      BY <1>1, LetterType
    <2>2. /\ Mail(to, k, n) \in Seq(Steps(Common, Nat))
          /\ Text(to, k, n) \in Seq(Steps(Common, Nat))
      BY <1>1, PieceType
    <2>3. Mail(to, k, n) # <<>>
      BY DEF Mail
    <2>4. \A act \in Acts : Do(act, to, k, n) \in Steps(Common, Nat)
      BY <1>1 DEF Do, Steps
    <2>5. \A act \in Acts : /\ <<Do(act, to, k, n)>> \in Seq(Steps(Common, Nat))
                            /\ <<Do(act, to, k, n)>> # <<>>
      <3> HIDE DEF Do, Steps, Common
      <3>1. QED BY <2>4
    <2>6. QED BY <2>1, <2>2, <2>3, <2>5
  <1>3. CASE kind \in Texts
    <2>1. kind \in Common
      BY <1>3 DEF Common
    <2>2. \E to \in Anyone : w = Texted(to, kind, n)
      BY <1>1, <1>3 DEF NoticesOf
    <2>3. QED BY <1>2, <2>1, <2>2
  <1>4. CASE kind \in Mails /\ kind \notin Texts
    <2>1. kind \in Common
      BY <1>4 DEF Common
    <2>2. \E to \in Anyone : w = Logged(to, kind, n)
      BY <1>1, <1>4 DEF NoticesOf
    <2>3. QED BY <1>2, <2>1, <2>2
  <1>5. ASSUME kind \notin Texts, kind \notin Mails PROVE Right
    <2>1. kind \in {"JOB_ESCALATION", "BOOKING_CANCELLATION", "JOB_MODIFIED",
                    "OPERATOR_REGISTERED", "JOURNEY_REMINDER"}
      BY <1>5, KindsAssumption DEF KindsAssumption
    <2>2. {"JOB_ESCALATION", "BOOKING_CANCELLATION", "JOB_CANCELLATION",
           "JOB_MODIFIED", "OPERATOR_REGISTERED", "JOURNEY_REMINDER"}
               \subseteq Common
      BY DEF Common
    <2> USE <1>5 DEF NoticesOf
    <2>3. CASE kind = "JOB_ESCALATION"
      <3>1. w = Escalation(n)
        BY <2>3
      <3>2. w = Mail(AdminMailbox, "JOB_ESCALATION", n)
                \o <<Do("phone", AdminMailbox, "JOB_ESCALATION", n)>>
        BY <3>1 DEF Escalation
      <3>3. "phone" \in Acts
        BY DEF Acts
      <3>4. QED BY <1>1, <1>2, <2>2, <3>2, <3>3, Joined
    <2>4. CASE kind = "BOOKING_CANCELLATION"
      <3>1. PICK c \in CustomerIds, o \in OperatorIds \union {Nobody} :
                w = Cancellation(c, o, n)
        BY <2>4
      <3> DEFINE a == Texted(c, "BOOKING_CANCELLATION", n)
                 b == IF o = Nobody THEN <<>> ELSE Texted(o, "JOB_CANCELLATION", n)
      <3>2. a \in Seq(Steps(Common, Nat)) /\ a # <<>> /\ b \in Seq(Steps(Common, Nat))
        BY <1>1, <1>2, <2>2, EmptySeq
      <3>3. w = a \o b
        BY <3>1 DEF Cancellation
      <3> HIDE DEF a, b
      <3>4. QED BY <3>2, <3>3, Joined
    <2>5. CASE kind = "JOB_MODIFIED"
      <3>1. PICK o \in OperatorIds : w = Modification(o, n)
        BY <2>5
      <3> DEFINE a == <<Do("mail", o, "JOB_MODIFIED", n)>>
                 b == Text(o, "JOB_MODIFIED", n)
                 c == <<Do("logUnknown", o, "JOB_MODIFIED", n)>>
      <3>2. /\ a \in Seq(Steps(Common, Nat)) /\ a # <<>>
            /\ b \in Seq(Steps(Common, Nat)) /\ c \in Seq(Steps(Common, Nat))
        BY <1>1, <1>2, <2>2 DEF Acts
      <3>3. w = a \o b \o c
        BY <3>1 DEF Modification
      <3> HIDE DEF a, b, c
      <3>4. a \o b \in Seq(Steps(Common, Nat)) /\ a \o b # <<>>
        BY <3>2, Joined
      <3> DEFINE d == a \o b
      <3>5. d \in Seq(Steps(Common, Nat)) /\ d # <<>> /\ w = d \o c
        BY <3>3, <3>4
      <3> HIDE DEF d
      <3>6. QED BY <3>2, <3>5, Joined
    <2>6. CASE kind = "OPERATOR_REGISTERED"
      <3>1. w = Mail(AdminMailbox, "OPERATOR_REGISTERED", n)
        BY <2>6 DEF Registration
      <3>2. QED BY <1>1, <1>2, <2>2, <3>1
    <2>7. CASE kind = "JOURNEY_REMINDER"
      <3>1. PICK c \in CustomerIds : w = Mail(c, "JOURNEY_REMINDER", n)
        BY <2>7 DEF Reminder
      <3>2. QED BY <1>1, <1>2, <2>2, <3>1
    <2>8. QED BY <2>1, <2>3, <2>4, <2>5, <2>6, <2>7
  <1>6. QED BY <1>3, <1>4, <1>5

\* The broadcast: alerts, then the letter to the administrator.
LEMMA BroadcastShape ==
    ASSUME NEW j \in JobIds, NEW n \in Nat
    PROVE  \E alerts \in Seq(Steps({"NEW_JOB_ALERT"}, JobIds \X Nat)) :
             /\ Broadcast(j, n) = alerts \o Mail(AdminMailbox, "NEW_JOB", <<j, n>>)
             /\ \A i \in DOMAIN Recipients[j] :
                  Do("mail", Recipients[j][i], "NEW_JOB_ALERT", <<j, n>>)
                      \in Range(alerts)
  <1> DEFINE K == {"NEW_JOB_ALERT"}
             A == JobIds \X Nat
             S == Steps(K, A)
             to(i) == Recipients[j][i]
             Alert(o) == Mail(o, "NEW_JOB_ALERT", <<j, n>>)
                \o (IF j \in Urgent THEN Text(o, "NEW_JOB_ALERT", <<j, n>>) ELSE <<>>)
                \o Log(o, "NEW_JOB_ALERT", <<j, n>>)
             seqs == [i \in DOMAIN Recipients[j] |-> Alert(Recipients[j][i])]
             first == <<Do("find", Nobody, "NEW_JOB_ALERT", <<j, n>>)>>
  <1>1. <<j, n>> \in A
    OBVIOUS
  <1>2. Recipients[j] \in Seq(OperatorIds)
    BY NoticesAssumption DEF NoticesAssumption
  <1>3. /\ Len(Recipients[j]) \in Nat
        /\ DOMAIN Recipients[j] = 1 .. Len(Recipients[j])
        /\ \A i \in DOMAIN Recipients[j] : Recipients[j][i] \in OperatorIds
    BY <1>2
  <1>4. ASSUME NEW o \in OperatorIds
        PROVE  /\ Alert(o) \in Seq(S)
               /\ Do("mail", o, "NEW_JOB_ALERT", <<j, n>>) \in Range(Alert(o))
    <2> DEFINE m == Mail(o, "NEW_JOB_ALERT", <<j, n>>)
               t == IF j \in Urgent THEN Text(o, "NEW_JOB_ALERT", <<j, n>>) ELSE <<>>
               l == Log(o, "NEW_JOB_ALERT", <<j, n>>)
               u == m \o t
               x == Do("mail", o, "NEW_JOB_ALERT", <<j, n>>)
    <2>1. o \in Anyone /\ "NEW_JOB_ALERT" \in K
      BY DEF Anyone
    <2>2. m \in Seq(S) /\ t \in Seq(S) /\ l \in Seq(S)
      <3> HIDE DEF K, A
      <3>1. QED BY <1>1, <2>1, PieceType, EmptySeq
    <2>3. x \in Range(m)
      BY MailHolds
    <2>4. Alert(o) = u \o l
      OBVIOUS
    <2> HIDE DEF m, t, l, x, S
    <2>5. u \in Seq(S) /\ x \in Range(u)
      BY <2>2, <2>3, Joined
    <2> HIDE DEF u
    <2>6. u \o l \in Seq(S) /\ x \in Range(u \o l)
      BY <2>2, <2>5, Joined
    <2>7. QED BY <2>4, <2>6 DEF x
  <1>5. first \in Seq(S)
    <2>1. Do("find", Nobody, "NEW_JOB_ALERT", <<j, n>>) \in S
      BY <1>1 DEF Do, Steps, Acts, Anyone
    <2> HIDE DEF S
    <2>2. QED BY <2>1
  <1>6. Broadcast(j, n)
          = first \o FlattenSeq(seqs) \o Mail(AdminMailbox, "NEW_JOB", <<j, n>>)
    BY DEF Broadcast
  <1> HIDE DEF S, Alert, first
  <1>7. /\ seqs \in Seq(Seq(S))
        /\ DOMAIN seqs = DOMAIN Recipients[j]
        /\ \A i \in DOMAIN seqs : seqs[i] = Alert(Recipients[j][i])
    BY <1>3, <1>4
  <1> HIDE DEF seqs
  <1>8. /\ FlattenSeq(seqs) \in Seq(S)
        /\ \A i \in DOMAIN seqs : Range(seqs[i]) \subseteq Range(FlattenSeq(seqs))
    BY <1>7, FlattenProperties
  <1> DEFINE f == FlattenSeq(seqs)
             alerts == first \o f
  <1> HIDE DEF f
  <1>9. alerts \in Seq(S) /\ Range(f) \subseteq Range(alerts)
    BY <1>5, <1>8, Joined DEF f
  <1>10. \A i \in DOMAIN Recipients[j] :
            Do("mail", Recipients[j][i], "NEW_JOB_ALERT", <<j, n>>) \in Range(alerts)
    BY <1>3, <1>4, <1>7, <1>8, <1>9 DEF f
  <1>11. Broadcast(j, n) = alerts \o Mail(AdminMailbox, "NEW_JOB", <<j, n>>)
    BY <1>6 DEF f
  <1> HIDE DEF alerts
  <1>12. QED BY <1>9, <1>10, <1>11 DEF S

\* What has to be mailed before the letter x is.
Needs(x) ==
    IF x.kind = "NEW_JOB"
    THEN {Do("mail", Recipients[x.about[1]][i], "NEW_JOB_ALERT", x.about) :
              i \in DOMAIN Recipients[x.about[1]]}
    ELSE IF x.kind = "DOCUMENT_EXPIRY"
         THEN {Do("mail", Holder[x.about[1]], "DOCUMENT_EXPIRED", x.about)}
         ELSE {}

\* A part mails what a letter needs earlier, unless it has been sent on day d.
InOrder(steps, sent, d) ==
    \A i \in DOMAIN steps : steps[i].act = "mail" =>
        \A y \in Needs(steps[i]) :
            <<d, y>> \in sent \/ \E h \in 1 .. i - 1 : steps[h] = y
Ordered(parts, sent, d) == \A k \in DOMAIN parts : InOrder(parts[k], sent, d)

\* The steps of all parts.
Planned(parts) == UNION {Range(parts[k]) : k \in DOMAIN parts}

\* What a letter needs are letters.
LEMMA NeedsMail ==
    ASSUME NEW x, NEW y \in Needs(x)
    PROVE  y.act = "mail"
  BY DEF Needs, Do

\* The first element of a sequence and the others.
LEMMA HeadAndTail ==
    ASSUME NEW S, NEW w \in Seq(S), w # <<>>
    PROVE  /\ Len(w) \in Nat \ {0} /\ DOMAIN w = 1 .. Len(w)
           /\ w[1] \in S /\ w[1] \in Range(w)
           /\ Tail(w) \in Seq(S)
           /\ Len(Tail(w)) = Len(w) - 1 /\ DOMAIN Tail(w) = 1 .. Len(w) - 1
           /\ \A i \in 1 .. Len(w) - 1 : Tail(w)[i] = w[i + 1]
           /\ Range(w) = Range(Tail(w)) \union {w[1]}
  <1>1. Len(w) \in Nat \ {0} /\ DOMAIN w = 1 .. Len(w)
    BY EmptySeq, LenProperties
  <1>2. /\ Tail(w) \in Seq(S)
        /\ Len(Tail(w)) = Len(w) - 1 /\ DOMAIN Tail(w) = 1 .. Len(w) - 1
        /\ \A i \in 1 .. Len(w) - 1 : Tail(w)[i] = w[i + 1]
    BY <1>1, HeadTailProperties
  <1>3. w[1] \in S /\ w[1] \in Range(w)
    <2>1. 1 \in DOMAIN w
      BY <1>1
    <2>2. QED BY <2>1 DEF Range
  <1>4. ASSUME NEW x \in Range(w) PROVE x \in Range(Tail(w)) \union {w[1]}
    <2>1. PICK i \in 1 .. Len(w) : x = w[i]
      BY <1>1 DEF Range
    <2>2. CASE i # 1
      <3>1. i - 1 \in 1 .. Len(w) - 1 /\ i - 1 + 1 = i
        BY <1>1, <2>2
      <3>2. Tail(w)[i - 1] = w[i]
        BY <1>2, <3>1
      <3>3. QED BY <1>2, <2>1, <3>1, <3>2 DEF Range
    <2>3. QED BY <2>1, <2>2
  <1>5. ASSUME NEW x \in Range(Tail(w)) PROVE x \in Range(w)
    <2>1. PICK i \in 1 .. Len(w) - 1 : x = Tail(w)[i]
      BY <1>2 DEF Range
    <2>2. i + 1 \in DOMAIN w /\ x = w[i + 1]
      BY <1>1, <1>2, <2>1
    <2>3. QED BY <2>2 DEF Range
  <1>6. QED BY <1>1, <1>2, <1>3, <1>4, <1>5

\* The steps of a part that are left are a part.
LEMMA PartTail ==
    ASSUME NEW w \in Part
    PROVE  /\ Len(w) \in Nat \ {0} /\ DOMAIN w = 1 .. Len(w)
           /\ w[1] \in Range(w)
           /\ Range(w) = Range(Tail(w)) \union {w[1]}
           /\ Len(w) # 1 => Tail(w) \in Part
           /\ Len(w) = 1 => Range(w) = {w[1]}
           /\ DOMAIN Tail(w) = 1 .. Len(w) - 1
           /\ \A i \in 1 .. Len(w) - 1 : Tail(w)[i] = w[i + 1]
  <1> DEFINE Right(S) ==
           /\ Len(w) \in Nat \ {0} /\ DOMAIN w = 1 .. Len(w)
           /\ w[1] \in Range(w)
           /\ Range(w) = Range(Tail(w)) \union {w[1]}
           /\ Len(w) # 1 => Tail(w) \in Seq(S) \ {<<>>}
           /\ Len(w) = 1 => Range(w) = {w[1]}
           /\ DOMAIN Tail(w) = 1 .. Len(w) - 1
           /\ \A i \in 1 .. Len(w) - 1 : Tail(w)[i] = w[i + 1]
  <1>1. ASSUME NEW S, w \in Seq(S), w # <<>> PROVE Right(S)
    <2>1. /\ Len(w) \in Nat \ {0} /\ DOMAIN w = 1 .. Len(w)
          /\ w[1] \in S /\ w[1] \in Range(w)
          /\ Tail(w) \in Seq(S)
          /\ Len(Tail(w)) = Len(w) - 1 /\ DOMAIN Tail(w) = 1 .. Len(w) - 1
          /\ \A i \in 1 .. Len(w) - 1 : Tail(w)[i] = w[i + 1]
          /\ Range(w) = Range(Tail(w)) \union {w[1]}
      BY <1>1, HeadAndTail
    <2>2. Len(w) # 1 => Tail(w) # <<>>
      <3>1. Len(Tail(w)) = Len(w) - 1
        BY <2>1
      <3>2. Len(<<>>) = 0
        OBVIOUS
      <3>3. Tail(w) = <<>> => Len(w) - 1 = 0
        BY <3>1, <3>2
      <3>4. Len(w) \in Nat
        BY <2>1
      <3> HIDE DEF Right
      <3>5. QED BY <3>3, <3>4
    <2>3. ASSUME Len(w) = 1 PROVE Range(w) = {w[1]}
      <3>1. DOMAIN w = {1}
        BY <2>1, <2>3
      <3>2. QED BY <3>1 DEF Range
    <2>4. QED BY <2>1, <2>2, <2>3
  <1>2. w # <<>> /\ (w \in Seq(CallStep) \/ w \in Seq(PaperStep))
    BY DEF Part
  <1>3. Right(CallStep) \/ Right(PaperStep)
    BY <1>1, <1>2
  <1>4. QED BY <1>3 DEF Part

\* What is left when the first step is done, and when the first part is dropped.
LEMMA RestProperties ==
    ASSUME NEW parts \in Seq(Part), parts # <<>>
    PROVE  /\ parts[1] \in Part
           /\ Rest(parts) \in Seq(Part)
           /\ Planned(parts) = Planned(Rest(parts)) \union {parts[1][1]}
           /\ Tail(parts) \in Seq(Part)
           /\ Planned(parts) = Planned(Tail(parts)) \union Range(parts[1])
  <1>1. /\ Len(parts) \in Nat \ {0} /\ DOMAIN parts = 1 .. Len(parts)
        /\ parts[1] \in Part
        /\ Tail(parts) \in Seq(Part)
        /\ DOMAIN Tail(parts) = 1 .. Len(parts) - 1
        /\ \A i \in 1 .. Len(parts) - 1 : Tail(parts)[i] = parts[i + 1]
        /\ Range(parts) = Range(Tail(parts)) \union {parts[1]}
    BY HeadAndTail
  <1>3. Planned(parts) = Planned(Tail(parts)) \union Range(parts[1])
    <2>2. \A some : Planned(some) = UNION {Range(some[k]) : k \in DOMAIN some}
      BY DEF Planned
    <2>3. ASSUME NEW x PROVE x \in Planned(parts)
                <=> x \in Planned(Tail(parts)) \/ x \in Range(parts[1])
      <3>1. x \in Planned(parts) <=> \E k \in 1 .. Len(parts) : x \in Range(parts[k])
        BY <1>1, <2>2
      <3>2. x \in Planned(Tail(parts)) <=>
                \E k \in 1 .. Len(parts) - 1 : x \in Range(parts[k + 1])
        <4> DEFINE t == Tail(parts)
                   m == Len(parts) - 1
        <4>1. DOMAIN t = 1 .. m /\ \A k \in 1 .. m : t[k] = parts[k + 1]
          BY <1>1
        <4>2. Planned(t) = UNION {Range(t[k]) : k \in DOMAIN t}
          BY <2>2
        <4> HIDE DEF t, m
        <4>3. x \in Planned(t) <=> \E k \in 1 .. m : x \in Range(t[k])
          BY <4>1, <4>2
        <4>4. x \in Planned(t) <=> \E k \in 1 .. m : x \in Range(parts[k + 1])
          BY <4>1, <4>3
        <4>5. QED BY <4>4 DEF t, m
      <3>3. \A k \in 1 .. Len(parts) : k # 1 =>
                k - 1 \in 1 .. Len(parts) - 1 /\ k - 1 + 1 = k
        BY <1>1
      <3>4. \A k \in 1 .. Len(parts) - 1 : k + 1 \in 1 .. Len(parts)
        BY <1>1
      <3>5. 1 \in 1 .. Len(parts)
        BY <1>1
      <3>6. ASSUME NEW k \in 1 .. Len(parts), x \in Range(parts[k]), k # 1
            PROVE  x \in Planned(Tail(parts))
        <4> DEFINE i == k - 1
        <4>1. i \in 1 .. Len(parts) - 1 /\ i + 1 = k
          BY <3>3, <3>6
        <4> HIDE DEF i
        <4>2. QED BY <3>2, <3>6, <4>1
      <3>7. QED BY <3>1, <3>2, <3>4, <3>5, <3>6
    <2>4. QED BY <2>3
  <1>4. CASE Len(parts[1]) = 1
    <2>1. Rest(parts) = Tail(parts)
      BY <1>4 DEF Rest
    <2>2. Range(parts[1]) = {parts[1][1]}
      BY <1>1, <1>4, PartTail
    <2>3. QED BY <1>1, <1>3, <2>1, <2>2
  <1>5. CASE Len(parts[1]) # 1
    <2> DEFINE t == Tail(parts[1])
               others == Tail(parts)
    <2>1. t \in Part /\ Range(parts[1]) = Range(t) \union {parts[1][1]}
      BY <1>1, <1>5, PartTail
    <2>2. Rest(parts) = <<t>> \o others
      BY <1>5 DEF Rest
    <2>3. others \in Seq(Part)
      BY <1>1
    <2>4. Planned(<<t>> \o others) = Planned(others) \union Range(t)
      <3> HIDE DEF t, others
      <3>1. \A some : Planned(some) = UNION {Range(some[k]) : k \in DOMAIN some}
        BY DEF Planned
      <3> DEFINE u == <<t>> \o others
      <3>2. /\ u \in Seq(Part) /\ Len(u) = Len(others) + 1
            /\ u[1] = t
            /\ \A k \in 1 .. Len(others) : u[k + 1] = others[k]
        <4> HIDE DEF Part
        <4>1. QED BY <2>1, <2>3
      <3>3. DOMAIN u = 1 .. Len(others) + 1 /\ DOMAIN others = 1 .. Len(others)
            /\ Len(others) \in Nat
        <4> HIDE DEF u
        <4>1. QED BY <2>3, <3>2, LenProperties
      <3> HIDE DEF u
      <3>4. ASSUME NEW x PROVE x \in Planned(u)
                  <=> x \in Planned(others) \/ x \in Range(t)
        <4>1. x \in Planned(u) <=> \E k \in 1 .. Len(others) + 1 : x \in Range(u[k])
          BY <3>1, <3>3
        <4>2. x \in Planned(others) <=>
                  \E k \in 1 .. Len(others) : x \in Range(others[k])
          BY <3>1, <3>3
        <4>3. ASSUME NEW k \in 1 .. Len(others) + 1, x \in Range(u[k]), k # 1
              PROVE  x \in Planned(others)
          <5> DEFINE i == k - 1
          <5>1. i \in 1 .. Len(others) /\ i + 1 = k
            BY <3>3, <4>3
          <5> HIDE DEF i
          <5>2. QED BY <3>2, <4>2, <4>3, <5>1
        <4>4. ASSUME NEW k \in 1 .. Len(others), x \in Range(others[k])
              PROVE  x \in Planned(u)
          <5>1. k + 1 \in 1 .. Len(others) + 1
            BY <3>3
          <5>2. u[k + 1] = others[k]
            BY <3>2
          <5>3. QED BY <4>1, <4>4, <5>1, <5>2
        <4>5. 1 \in 1 .. Len(others) + 1
          BY <3>3
        <4>6. QED BY <3>2, <4>1, <4>2, <4>3, <4>4, <4>5
      <3>5. QED BY <3>4 DEF u
    <2>5. Rest(parts) \in Seq(Part)
      <3> HIDE DEF t, others, Part
      <3>1. QED BY <2>1, <2>2, <2>3
    <2>6. QED BY <1>1, <1>3, <2>1, <2>2, <2>4, <2>5
  <1>6. QED BY <1>4, <1>5

\* One more step done keeps the order, once its letter is sent.
LEMMA InOrderTail ==
    ASSUME NEW w \in Part, NEW sent, NEW later, NEW d,
           InOrder(w, sent, d), sent \subseteq later,
           w[1].act = "mail" => <<d, w[1]>> \in later
    PROVE  InOrder(Tail(w), later, d)
  <1>1. /\ Len(w) \in Nat \ {0} /\ DOMAIN w = 1 .. Len(w)
        /\ DOMAIN Tail(w) = 1 .. Len(w) - 1
        /\ \A i \in 1 .. Len(w) - 1 : Tail(w)[i] = w[i + 1]
    BY PartTail
  <1> DEFINE t == Tail(w)
             n == Len(w)
  <1>2. /\ n \in Nat \ {0} /\ DOMAIN w = 1 .. n /\ DOMAIN t = 1 .. n - 1
        /\ \A i \in 1 .. n - 1 : t[i] = w[i + 1]
    BY <1>1
  <1> HIDE DEF t, n
  <1>3. SUFFICES ASSUME NEW i \in 1 .. n - 1, t[i].act = "mail", NEW y \in Needs(t[i])
                 PROVE  <<d, y>> \in later \/ \E h \in 1 .. i - 1 : t[h] = y
    BY <1>2 DEF InOrder, t
  <1>4. i + 1 \in 1 .. n /\ t[i] = w[i + 1] /\ i + 1 - 1 = i
    BY <1>2
  <1>5. <<d, y>> \in sent \/ \E h \in 1 .. i : w[h] = y
    <2> DEFINE k == i + 1
    <2>1. k \in 1 .. n /\ w[k].act = "mail" /\ y \in Needs(w[k]) /\ k - 1 = i
      BY <1>3, <1>4
    <2> HIDE DEF k
    <2>2. <<d, y>> \in sent \/ \E h \in 1 .. k - 1 : w[h] = y
      BY <1>2, <2>1 DEF InOrder
    <2>3. QED BY <2>1, <2>2
  <1>6. ASSUME NEW h \in 1 .. i, w[h] = y
        PROVE  <<d, y>> \in later \/ \E g \in 1 .. i - 1 : t[g] = y
    <2>1. CASE h = 1
      <3>1. y.act = "mail"
        BY NeedsMail
      <3>2. QED BY <1>6, <2>1, <3>1
    <2>2. CASE h # 1
      <3> DEFINE g == h - 1
      <3>1. g \in 1 .. i - 1 /\ g \in 1 .. n - 1 /\ g + 1 = h
        BY <2>2, <1>2, <1>4
      <3> HIDE DEF g
      <3>2. t[g] = y
        BY <1>2, <1>6, <3>1
      <3>3. QED BY <3>1, <3>2
    <2>3. QED BY <2>1, <2>2
  <1>7. QED BY <1>5, <1>6

\* The parts that remain are in order.
LEMMA OrderedRest ==
    ASSUME NEW parts \in Seq(Part), parts # <<>>, NEW sent, NEW later, NEW d,
           Ordered(parts, sent, d), sent \subseteq later
    PROVE  /\ Ordered(Tail(parts), later, d)
           /\ (parts[1][1].act = "mail" => <<d, parts[1][1]>> \in later)
                => Ordered(Rest(parts), later, d)
  <1>1. /\ Len(parts) \in Nat \ {0} /\ DOMAIN parts = 1 .. Len(parts)
        /\ parts[1] \in Part
        /\ Tail(parts) \in Seq(Part)
        /\ DOMAIN Tail(parts) = 1 .. Len(parts) - 1
        /\ \A i \in 1 .. Len(parts) - 1 : Tail(parts)[i] = parts[i + 1]
    BY HeadAndTail
  <1>2. \A w : InOrder(w, sent, d) => InOrder(w, later, d)
    BY DEF InOrder
  <1>3. Ordered(Tail(parts), later, d)
    <2> DEFINE t == Tail(parts)
               n == Len(parts)
    <2>1. /\ n \in Nat \ {0} /\ DOMAIN parts = 1 .. n /\ DOMAIN t = 1 .. n - 1
          /\ \A i \in 1 .. n - 1 : t[i] = parts[i + 1]
      BY <1>1
    <2> HIDE DEF t, n
    <2>2. \A i \in 1 .. n - 1 : i + 1 \in 1 .. n
      BY <2>1
    <2>3. \A i \in 1 .. n - 1 : InOrder(t[i], later, d)
      BY <1>2, <2>1, <2>2 DEF Ordered
    <2>4. QED BY <2>1, <2>3 DEF Ordered, t
  <1>4. ASSUME parts[1][1].act = "mail" => <<d, parts[1][1]>> \in later
        PROVE  Ordered(Rest(parts), later, d)
    <2>1. CASE Len(parts[1]) = 1
      BY <1>3, <2>1 DEF Rest
    <2>2. CASE Len(parts[1]) # 1
      <3> DEFINE t == Tail(parts[1])
                 others == Tail(parts)
                 u == <<t>> \o others
      <3>1. InOrder(parts[1], sent, d)
        BY <1>1 DEF Ordered
      <3>2. InOrder(t, later, d)
        BY <1>1, <1>4, <3>1, InOrderTail
      <3>3. t \in Part /\ others \in Seq(Part)
        BY <1>1, <2>2, PartTail
      <3>4. Rest(parts) = u
        BY <2>2 DEF Rest
      <3>5. \A k \in DOMAIN others : InOrder(others[k], later, d)
        BY <1>3 DEF Ordered
      <3> HIDE DEF t, others
      <3>6. /\ u \in Seq(Part) /\ Len(u) = Len(others) + 1
            /\ u[1] = t
            /\ \A k \in 1 .. Len(others) : u[k + 1] = others[k]
        <4> HIDE DEF Part
        <4>1. QED BY <3>3
      <3> HIDE DEF u
      <3>7. DOMAIN u = 1 .. Len(others) + 1 /\ DOMAIN others = 1 .. Len(others)
            /\ Len(others) \in Nat
        BY <3>3, <3>6, LenProperties
      <3>8. ASSUME NEW k \in DOMAIN u PROVE InOrder(u[k], later, d)
        <4>1. CASE k = 1
          BY <3>2, <3>6, <4>1
        <4>2. CASE k # 1
          <5> DEFINE i == k - 1
          <5>1. i \in 1 .. Len(others) /\ i + 1 = k
            BY <3>7, <4>2
          <5> HIDE DEF i
          <5>2. u[k] = others[i]
            BY <3>6, <5>1
          <5>3. QED BY <3>5, <3>7, <5>1, <5>2
        <4>3. QED BY <4>1, <4>2
      <3>9. QED BY <3>4, <3>8 DEF Ordered
    <2>3. QED BY <2>1, <2>2
  <1>5. QED BY <1>3, <1>4

\* What needs nothing is in order.
LEMMA NoNeeds ==
    ASSUME NEW S, NEW w \in Seq(S), NEW sent, NEW d,
           \A x \in S : x.kind \notin {"NEW_JOB", "DOCUMENT_EXPIRY"}
    PROVE  InOrder(w, sent, d)
  <1>1. \A i \in DOMAIN w : w[i] \in S
    OBVIOUS
  <1>2. \A i \in DOMAIN w : Needs(w[i]) = {}
    BY <1>1 DEF Needs
  <1>3. QED BY <1>2 DEF InOrder

\* A last piece of find and mail is in order when what it needs came before.
LEMMA LastInOrder ==
    ASSUME NEW S, NEW w \in Seq(S), NEW sent, NEW d, NEW to, NEW kind, NEW about,
           InOrder(w, sent, d),
           \A y \in Needs(Do("mail", to, kind, about)) : y \in Range(w)
    PROVE  InOrder(w \o Mail(to, kind, about), sent, d)
  <1> DEFINE n == Len(w)
             f == Do("find", to, kind, about)
             x == Do("mail", to, kind, about)
             m == Mail(to, kind, about)
             u == w \o m
  <1>1. m = <<f, x>>
    BY DEF Mail
  <1>2. f.act = "find"
    BY DEF Do
  <1> HIDE DEF f, x, m
  <1>3. /\ n \in Nat /\ DOMAIN w = 1 .. n /\ DOMAIN u = 1 .. n + 2
        /\ \A i \in 1 .. n : u[i] = w[i]
        /\ u[n + 1] = f /\ u[n + 2] = x
    BY <1>1
  <1> HIDE DEF u, n
  <1>4. \A i \in 1 .. n + 2 : i \in 1 .. n \/ i = n + 1 \/ i = n + 2
    BY <1>3
  <1>5. SUFFICES ASSUME NEW i \in 1 .. n + 2, u[i].act = "mail", NEW y \in Needs(u[i])
                 PROVE  <<d, y>> \in sent \/ \E h \in 1 .. i - 1 : u[h] = y
    BY <1>3 DEF InOrder, u, m
  <1>6. CASE i \in 1 .. n
    <2>1. u[i] = w[i] /\ i \in DOMAIN w
      BY <1>3, <1>6
    <2>2. <<d, y>> \in sent \/ \E h \in 1 .. i - 1 : w[h] = y
      BY <1>5, <2>1 DEF InOrder
    <2>3. \A h \in 1 .. i - 1 : h \in 1 .. n
      BY <1>3, <1>6
    <2>4. QED BY <1>3, <2>2, <2>3
  <1>7. CASE i = n + 1
    BY <1>2, <1>3, <1>5, <1>7
  <1>8. CASE i = n + 2
    <2>1. y \in Range(w)
      BY <1>3, <1>5, <1>8 DEF x
    <2>2. PICK h \in 1 .. n : w[h] = y
      BY <1>3, <2>1 DEF Range
    <2>3. h \in 1 .. i - 1 /\ u[h] = y
      BY <1>3, <1>8, <2>2
    <2>4. QED BY <2>3
  <1>9. QED BY <1>4, <1>6, <1>7, <1>8

\* A larger set has more sequences.
LEMMA SeqMonotone ==
    ASSUME NEW S, NEW T, S \subseteq T, NEW w \in Seq(S)
    PROVE  w \in Seq(T)
  <1>1. /\ Len(w) \in Nat /\ DOMAIN w = 1 .. Len(w)
        /\ \A i \in 1 .. Len(w) : w[i] \in T
    BY LenProperties, ElementOfSeq
  <1>2. w = [i \in 1 .. Len(w) |-> w[i]]
    BY LenProperties
  <1>3. [i \in 1 .. Len(w) |-> w[i]] \in Seq(T)
    BY <1>1
  <1>4. QED BY <1>2, <1>3

\* What handlers say is not about documents, nor what checks say about jobs.
LEMMA KindsApart ==
    /\ \A x \in CallStep : x.kind \notin PaperKinds
    /\ \A x \in CallStep \union PaperStep : x.act \in Acts
    /\ \A x \in PaperStep : /\ x.act # "phone"
                            /\ x.kind \in PaperKinds
                            /\ x.about \in Papers \X ExpiryDates
    /\ \A k \in Common : k \notin JobKinds \union PaperKinds
  <1>1. \A k \in Common : k \notin JobKinds \union PaperKinds
    BY DEF Common, CustomerTexts, OperatorTexts, OperatorMails, CustomerMails,
           ManualMails, JobKinds, PaperKinds
  <1>2. \A k \in JobKinds : k \notin PaperKinds
    BY DEF JobKinds, PaperKinds
  <1>3. \A K, A : \A x \in Steps(K, A) : x.kind \in K /\ x.act \in Acts /\ x.about \in A
    BY DEF Steps
  <1>4. QED BY <1>1, <1>2, <1>3 DEF CallStep, PaperStep

\* A handler's notice is a part, in order.
LEMMA CallPart ==
    ASSUME NEW kind \in Kinds, NEW n \in Nat, NEW w \in NoticesOf(kind, n),
           NEW sent, NEW d
    PROVE  w \in Seq(CallStep) /\ w # <<>> /\ InOrder(w, sent, d)
  <1>1. CASE kind # "NEW_JOB"
    <2>1. w \in Seq(Steps(Common, Nat)) /\ w # <<>>
      BY <1>1, CommonNotice
    <2>2. \A x \in Steps(Common, Nat) : x.kind \notin {"NEW_JOB", "DOCUMENT_EXPIRY"}
      <3>1. \A x \in Steps(Common, Nat) : x.kind \in Common
        BY DEF Steps
      <3>2. QED BY <3>1, KindsApart DEF JobKinds, PaperKinds
    <2>3. Steps(Common, Nat) \subseteq CallStep
      BY DEF CallStep
    <2>4. w \in Seq(CallStep)
      <3> HIDE DEF CallStep, Steps
      <3>1. QED BY <2>1, <2>3, SeqMonotone
    <2>5. QED BY <2>1, <2>2, <2>4, NoNeeds
  <1>2. CASE kind = "NEW_JOB"
    <2>1. PICK j \in JobIds : w = Broadcast(j, n)
      BY <1>2 DEF NoticesOf, CustomerTexts, OperatorTexts, OperatorMails,
                  CustomerMails, ManualMails
    <2> DEFINE S == Steps({"NEW_JOB_ALERT"}, JobIds \X Nat)
               m == Mail(AdminMailbox, "NEW_JOB", <<j, n>>)
    <2>2. PICK alerts \in Seq(S) :
            /\ Broadcast(j, n) = alerts \o m
            /\ \A i \in DOMAIN Recipients[j] :
                 Do("mail", Recipients[j][i], "NEW_JOB_ALERT", <<j, n>>)
                     \in Range(alerts)
      BY BroadcastShape
    <2>3. S \subseteq CallStep /\ Steps(JobKinds, JobIds \X Nat) \subseteq CallStep
      BY DEF CallStep, Steps, JobKinds
    <2>4. m \in Seq(Steps(JobKinds, JobIds \X Nat))
      <3> DEFINE A == JobIds \X Nat
      <3>1. <<j, n>> \in A /\ AdminMailbox \in Anyone /\ "NEW_JOB" \in JobKinds
        BY DEF Anyone, JobKinds
      <3> HIDE DEF A
      <3>2. m \in Seq(Steps(JobKinds, A))
        BY <3>1, PieceType
      <3>3. QED BY <3>2 DEF A
    <2>5. \A x \in S : x.kind \notin {"NEW_JOB", "DOCUMENT_EXPIRY"}
      BY DEF Steps
    <2>6. m # <<>>
      BY DEF Mail
    <2>7. ASSUME NEW y \in Needs(Do("mail", AdminMailbox, "NEW_JOB", <<j, n>>))
          PROVE  y \in Range(alerts)
      <3> DEFINE x == Do("mail", AdminMailbox, "NEW_JOB", <<j, n>>)
      <3>1. x.kind = "NEW_JOB" /\ x.about = <<j, n>> /\ x.about[1] = j
        BY DEF Do
      <3> HIDE DEF x
      <3>2. y \in {Do("mail", Recipients[j][i], "NEW_JOB_ALERT", <<j, n>>) :
                       i \in DOMAIN Recipients[j]}
        BY <3>1, <2>7 DEF Needs, x
      <3>3. QED BY <2>2, <3>2
    <2>8. InOrder(alerts, sent, d)
      <3> HIDE DEF S
      <3>1. QED BY <2>5, NoNeeds
    <2>9. InOrder(w, sent, d)
      <3> HIDE DEF S
      <3>1. InOrder(alerts \o m, sent, d)
        BY <2>7, <2>8, LastInOrder
      <3>2. QED BY <2>1, <2>2, <3>1
    <2> HIDE DEF S, m
    <2>10. alerts \in Seq(CallStep) /\ m \in Seq(CallStep)
      BY <2>3, <2>4, SeqMonotone
    <2>11. alerts \o m \in Seq(CallStep)
      BY <2>10, Joined
    <2>12. alerts \o m # <<>>
      BY <2>6, <2>10, ConcatEqualIffEmpty
    <2>13. QED BY <2>1, <2>2, <2>9, <2>11, <2>12
  <1>3. QED BY <1>1, <1>2

\* What a check says of a paper p that expires at e.
LEMMA PaperPart ==
    ASSUME NEW p \in Papers, NEW e \in ExpiryDates, NEW kind \in PaperKinds,
           NEW to \in Anyone
    PROVE  LET w == Logged(to, kind, <<p, e>>)
           IN  /\ w \in Seq(PaperStep) /\ w # <<>>
               /\ Do("mail", to, kind, <<p, e>>) \in Range(w)
               /\ \A x \in Range(w) : x.kind = kind /\ x.about = <<p, e>>
  <1> DEFINE w == Logged(to, kind, <<p, e>>)
             f == Do("find", to, kind, <<p, e>>)
             x == Do("mail", to, kind, <<p, e>>)
             l == Do("log", to, kind, <<p, e>>)
  <1>1. {f, x, l} \subseteq PaperStep
    BY DEF PaperStep, Steps, Do, Acts
  <1>2. \A z \in {f, x, l} : z.kind = kind /\ z.about = <<p, e>>
    BY DEF Do
  <1>3. w = <<f, x>> \o <<l>>
    BY DEF Logged, Mail, Log
  <1> HIDE DEF f, x, l
  <1>4. w = <<f, x, l>>
    BY <1>3
  <1> HIDE DEF w
  <1>5. w \in Seq(PaperStep) /\ w # <<>>
    <2> HIDE DEF PaperStep
    <2>1. QED BY <1>1, <1>4
  <1>6. Range(w) = {f, x, l}
    <2>1. DOMAIN w = 1 .. 3 /\ w[1] = f /\ w[2] = x /\ w[3] = l
      BY <1>4
    <2>2. \A i \in 1 .. 3 : i \in {1, 2, 3}
      OBVIOUS
    <2>3. QED BY <2>1, <2>2 DEF Range
  <1>7. QED BY <1>2, <1>5, <1>6 DEF w, x

\* The same of the last piece.
LEMMA PaperLetter ==
    ASSUME NEW p \in Papers, NEW e \in ExpiryDates, NEW kind \in PaperKinds,
           NEW to \in Anyone
    PROVE  LET w == Mail(to, kind, <<p, e>>)
           IN  /\ w \in Seq(PaperStep) /\ w # <<>>
               /\ \A x \in Range(w) : x.kind = kind /\ x.about = <<p, e>>
  <1> DEFINE w == Mail(to, kind, <<p, e>>)
             f == Do("find", to, kind, <<p, e>>)
             x == Do("mail", to, kind, <<p, e>>)
  <1>1. {f, x} \subseteq PaperStep
    BY DEF PaperStep, Steps, Do, Acts
  <1>2. \A z \in {f, x} : z.kind = kind /\ z.about = <<p, e>>
    BY DEF Do
  <1>3. w = <<f, x>>
    BY DEF Mail
  <1> HIDE DEF f, x, w
  <1>4. w \in Seq(PaperStep) /\ w # <<>>
    <2> HIDE DEF PaperStep
    <2>1. QED BY <1>1, <1>3
  <1>5. Range(w) = {f, x}
    <2>1. DOMAIN w = 1 .. 2 /\ w[1] = f /\ w[2] = x
      BY <1>3
    <2>2. \A i \in 1 .. 2 : i \in {1, 2}
      OBVIOUS
    <2>3. QED BY <2>1, <2>2 DEF Range
  <1>6. QED BY <1>2, <1>4, <1>5 DEF w

----------------------------------------------------------------------------
(* Notices: what the senders, the letters and the papers have in common *)

\* A check that has not read the papers yet.
Start(d) == << <<Do("read", Nobody, "DOCUMENTS", d)>> >>

NoticesType ==
    /\ notices \in Nat /\ day \in Days
    /\ expiresAt \in [Papers -> ExpiryDates \union {Nobody}]
    /\ inService \in [Vehicles -> BOOLEAN]
    /\ entered \in [Papers -> 0 .. day]
    /\ handed \subseteq (0 .. day) \X (CallStep \union PaperStep)
    /\ plan = [s \in Senders |-> plan[s]]
    /\ \A s \in Senders : plan[s] \in Seq(Part) \/ (s \in Loops /\ plan[s] = Start(day))

\* A letter was handed over on day d, or will be today.
Told(d, x) ==
    \/ <<d, x>> \in handed
    \/ d = day /\ \E s \in Senders : x \in Planned(plan[s])

\* Nothing is handed over, or planned, before what it needs.
LettersInOrder ==
    /\ \A s \in Senders : Ordered(plan[s], handed, day)
    /\ \A l \in handed : l[2].act = "mail" =>
         \A y \in Needs(l[2]) : <<l[1], y>> \in handed

\* The check that a paper belongs to, and whether it is read by it.
LoopOf(p) == IF Vehicle[p] = Nobody THEN "operatorDocuments" ELSE "vehicleDocuments"
Watch(p) == p \in Checked(LoopOf(p))

ExpiryLetter(p, e) == Do("mail", Holder[p], "DOCUMENT_EXPIRED", <<p, e>>)
WarningLetter(p, e) == Do("mail", Holder[p], "DOCUMENT_EXPIRY_WARNING", <<p, e>>)

\* Who is told of an expired paper was told the truth, and the paper has been
\* checked since it was entered.
ExpiryTold ==
    \A p \in Papers, e \in ExpiryDates, d \in 0 .. day :
        Told(d, ExpiryLetter(p, e)) =>
            /\ Expired(e, d)
            /\ e = expiresAt[p] => d <= entered[p] \/ Watch(p)

\* Of a paper that is checked every warning that was due was given.
WarningsTold ==
    \A p \in Papers : Watch(p) => \A d \in 1 .. day :
        WarningDue(expiresAt[p], d) /\ entered[p] < d /\ d \notin troubled =>
            \/ Told(d, WarningLetter(p, expiresAt[p]))
            \/ d = day /\ plan[LoopOf(p)] = Start(day)

NoticesInv == NoticesType /\ LettersInOrder /\ ExpiryTold /\ WarningsTold

\* What needs nothing is in order.
LEMMA NoNeedsThere ==
    ASSUME NEW w, NEW sent, NEW d,
           \A x \in Range(w) : x.kind \notin {"NEW_JOB", "DOCUMENT_EXPIRY"}
    PROVE  InOrder(w, sent, d)
  <1>1. \A i \in DOMAIN w : w[i] \in Range(w)
    BY DEF Range
  <1>2. \A i \in DOMAIN w : Needs(w[i]) = {}
    BY <1>1 DEF Needs
  <1>3. QED BY <1>2 DEF InOrder

\* The two letters on an expired paper.
LEMMA ExpiryPart ==
    ASSUME NoticesType, NEW p \in Papers, expiresAt[p] # Nobody
    PROVE  /\ Expiry(p) \in Seq(PaperStep) /\ Expiry(p) # <<>>
           /\ \A sent, d : InOrder(Expiry(p), sent, d)
           /\ \A x \in Range(Expiry(p)) : x.about = <<p, expiresAt[p]>>
  <1> DEFINE e == expiresAt[p]
             a == Logged(Holder[p], "DOCUMENT_EXPIRED", <<p, e>>)
             m == Mail(AdminMailbox, "DOCUMENT_EXPIRY", <<p, e>>)
             x == Do("mail", Holder[p], "DOCUMENT_EXPIRED", <<p, e>>)
  <1>1. e \in ExpiryDates
    BY DEF NoticesType
  <1>2. Expiry(p) = a \o m
    BY DEF Expiry
  <1>3. Holder[p] \in Anyone /\ AdminMailbox \in Anyone
    BY NoticesAssumption DEF NoticesAssumption, Anyone
  <1>4. "DOCUMENT_EXPIRED" \in PaperKinds /\ "DOCUMENT_EXPIRY" \in PaperKinds
    BY DEF PaperKinds
  <1> HIDE DEF e
  <1>5. /\ a \in Seq(PaperStep) /\ a # <<>> /\ x \in Range(a)
        /\ \A z \in Range(a) : z.kind = "DOCUMENT_EXPIRED" /\ z.about = <<p, e>>
    BY <1>1, <1>3, <1>4, PaperPart
  <1>6. /\ m \in Seq(PaperStep)
        /\ \A z \in Range(m) : z.about = <<p, e>>
    BY <1>1, <1>3, <1>4, PaperLetter
  <1>7. \A y \in Needs(Do("mail", AdminMailbox, "DOCUMENT_EXPIRY", <<p, e>>)) :
            y \in Range(a)
    <2> DEFINE l == Do("mail", AdminMailbox, "DOCUMENT_EXPIRY", <<p, e>>)
    <2>1. l.kind = "DOCUMENT_EXPIRY" /\ l.about = <<p, e>> /\ l.about[1] = p
      BY DEF Do
    <2> HIDE DEF l, a
    <2>2. Needs(l) = {Do("mail", Holder[p], "DOCUMENT_EXPIRED", <<p, e>>)}
      BY <2>1 DEF Needs
    <2>3. QED BY <1>5, <2>2 DEF l
  <1>8. ASSUME NEW sent, NEW d PROVE InOrder(Expiry(p), sent, d)
    <2>1. InOrder(a, sent, d)
      <3> HIDE DEF a
      <3>1. QED BY <1>5, NoNeedsThere
    <2>2. InOrder(a \o m, sent, d)
      <3> HIDE DEF a
      <3>1. QED BY <1>5, <1>7, <2>1, LastInOrder
    <2>3. QED BY <1>2, <2>2
  <1> HIDE DEF a, m, x
  <1>9. /\ a \o m \in Seq(PaperStep) /\ a \o m # <<>>
        /\ Range(a \o m) = Range(a) \union Range(m)
    BY <1>5, <1>6, Joined
  <1>10. QED BY <1>2, <1>5, <1>6, <1>8, <1>9 DEF e

\* What a check has to say.
LEMMA ChecksSay ==
    ASSUME NoticesType, NEW s \in Loops
    PROVE  /\ IsFiniteSet(PartsOf(s))
           /\ \A w \in PartsOf(s) :
                /\ w \in Seq(PaperStep) /\ w # <<>>
                /\ \A sent, d : InOrder(w, sent, d)
                /\ \A x \in Range(w) : x.kind = "DOCUMENT_EXPIRED" =>
                     \E p \in Checked(s) : /\ x.about = <<p, expiresAt[p]>>
                                           /\ Expired(expiresAt[p], day)
           /\ \A p \in Checked(s) : WarningDue(expiresAt[p], day) =>
                \E w \in PartsOf(s) : WarningLetter(p, expiresAt[p]) \in Range(w)
  <1> DEFINE Gone == {q \in Checked(s) : Expired(expiresAt[q], day)}
             Close == {q \in Checked(s) : /\ ~Expired(expiresAt[q], day)
                                         /\ WarningDue(expiresAt[q], day)}
  <1>1. PartsOf(s) = {Expiry(p) : p \in Gone} \union {Warning(p) : p \in Close}
    BY DEF PartsOf
  <1>2. \A p \in Checked(s) : /\ p \in Papers /\ expiresAt[p] # Nobody
                              /\ expiresAt[p] \in ExpiryDates
    BY DEF Checked, NoticesType
  <1>3. IsFiniteSet(PartsOf(s))
    <2>1. IsFiniteSet(Papers) /\ Gone \subseteq Papers /\ Close \subseteq Papers
      BY <1>2, NoticesAssumption DEF NoticesAssumption
    <2>2. IsFiniteSet(Gone) /\ IsFiniteSet(Close)
      BY <2>1, FS_Subset
    <2> HIDE DEF Gone, Close
    <2> DEFINE f == [p \in Gone |-> Expiry(p)]
               g == [p \in Close |-> Warning(p)]
    <2>3. IsFiniteSet({f[p] : p \in Gone}) /\ IsFiniteSet({g[p] : p \in Close})
      <3>1. f \in [Gone -> {f[p] : p \in Gone}] /\ g \in [Close -> {g[p] : p \in Close}]
        OBVIOUS
      <3>2. /\ \A y \in {f[p] : p \in Gone} : \E p \in Gone : f[p] = y
            /\ \A y \in {g[p] : p \in Close} : \E p \in Close : g[p] = y
        OBVIOUS
      <3> HIDE DEF f, g
      <3>3. f \in Surjection(Gone, {f[p] : p \in Gone})
            /\ g \in Surjection(Close, {g[p] : p \in Close})
        BY <3>1, <3>2 DEF Surjection
      <3>4. QED BY <2>2, <3>3, FS_Surjection
    <2>4. /\ {f[p] : p \in Gone} = {Expiry(p) : p \in Gone}
          /\ {g[p] : p \in Close} = {Warning(p) : p \in Close}
      OBVIOUS
    <2> DEFINE A == {f[p] : p \in Gone}
               B == {g[p] : p \in Close}
    <2>5. IsFiniteSet(A) /\ IsFiniteSet(B)
      BY <2>3
    <2>6. PartsOf(s) = A \union B
      BY <1>1, <2>4
    <2> HIDE DEF A, B
    <2>7. QED BY <2>5, <2>6, FS_Union
  <1>4. ASSUME NEW p \in Gone
        PROVE  /\ Expiry(p) \in Seq(PaperStep) /\ Expiry(p) # <<>>
               /\ \A sent, d : InOrder(Expiry(p), sent, d)
               /\ \A x \in Range(Expiry(p)) : /\ x.about = <<p, expiresAt[p]>>
                                              /\ Expired(expiresAt[p], day)
    BY <1>2, ExpiryPart
  <1>5. ASSUME NEW p \in Close
        PROVE  /\ Warning(p) \in Seq(PaperStep) /\ Warning(p) # <<>>
               /\ WarningLetter(p, expiresAt[p]) \in Range(Warning(p))
               /\ \A x \in Range(Warning(p)) : x.kind = "DOCUMENT_EXPIRY_WARNING"
    <2>1. p \in Papers /\ expiresAt[p] \in ExpiryDates
      BY <1>2
    <2>2. Holder[p] \in Anyone /\ "DOCUMENT_EXPIRY_WARNING" \in PaperKinds
      BY <2>1, NoticesAssumption DEF NoticesAssumption, Anyone, PaperKinds
    <2>3. QED BY <2>1, <2>2, PaperPart DEF Warning, WarningLetter
  <1>6. ASSUME NEW p \in Close, NEW sent, NEW d PROVE InOrder(Warning(p), sent, d)
    BY <1>5, NoNeedsThere
  <1>7. ASSUME NEW p \in Checked(s), WarningDue(expiresAt[p], day)
        PROVE  p \in Close
    <2> DEFINE e == expiresAt[p]
    <2>1. e \in Nat /\ day \in Nat /\ Soon \in Nat /\ Early \in Nat /\ 0 < Early
      BY <1>2, NoticesAssumption DEF NoticesType, NoticesAssumption, Days
    <2>2. DaysLeft(e, day) >= 1
      BY <1>7, <2>1 DEF WarningDue
    <2> HIDE DEF e
    <2>3. ~Expired(e, day)
      BY <2>1, <2>2 DEF DaysLeft, Expired
    <2>4. QED BY <1>7, <2>3 DEF e
  <1> HIDE DEF Gone, Close, Expiry, Warning
  <1>8. \A p \in Gone : p \in Checked(s)
    BY DEF Gone
  <1>9. ASSUME NEW w \in PartsOf(s)
        PROVE  /\ w \in Seq(PaperStep) /\ w # <<>>
               /\ \A sent, d : InOrder(w, sent, d)
               /\ \A x \in Range(w) : x.kind = "DOCUMENT_EXPIRED" =>
                     \E p \in Checked(s) : /\ x.about = <<p, expiresAt[p]>>
                                           /\ Expired(expiresAt[p], day)
    <2>1. CASE \E p \in Gone : w = Expiry(p)
      BY <1>4, <1>8, <2>1
    <2>2. CASE \E p \in Close : w = Warning(p)
      BY <1>5, <1>6, <2>2
    <2>3. QED BY <1>1, <2>1, <2>2
  <1>10. QED BY <1>1, <1>3, <1>5, <1>7, <1>9

\* The steps of a part.
LEMMA PartSteps ==
    ASSUME NEW w \in Part
    PROVE  Range(w) \subseteq CallStep \union PaperStep
  <1>1. \A S : w \in Seq(S) => Range(w) \subseteq S
    BY DEF Range
  <1> HIDE DEF CallStep, PaperStep
  <1>2. QED BY <1>1 DEF Part

\* A paper's check is one of the two.
LEMMA LoopType ==
    ASSUME NEW p \in Papers PROVE LoopOf(p) \in Loops /\ LoopOf(p) \in Senders
  BY DEF LoopOf, Loops, Senders

\* Senders go on: they hand letters over, drop what they had to do or plan
\* more, while the day and the papers stay as they are.
LEMMA Moved ==
    ASSUME NoticesInv,
           plan' = [r \in Senders |-> plan'[r]],
           \A r \in Senders : \/ plan'[r] = plan[r]
                              \/ /\ plan'[r] \in Seq(Part)
                                 /\ Ordered(plan'[r], handed', day),
           notices' \in Nat, day' = day, UNCHANGED paperVars,
           troubled \subseteq troubled', handed \subseteq handed',
           \A l \in handed' : \/ l \in handed
                              \/ /\ l \in {day} \X (CallStep \union PaperStep)
                                 /\ \E r \in Senders : l[2] \in Planned(plan[r])
                                 /\ l[2].act = "mail" =>
                                      \A y \in Needs(l[2]) : <<day, y>> \in handed',
           \A r \in Senders : \A x \in Planned(plan'[r]) :
              x.kind = "DOCUMENT_EXPIRED" => x \in Planned(plan[r]),
           \/ day \in troubled'
           \/ \A r \in Senders :
                /\ plan[r] = Start(day) => plan'[r] = Start(day)
                /\ \A x \in Planned(plan[r]) :
                     x.kind = "DOCUMENT_EXPIRY_WARNING" /\ x.act = "mail" =>
                        x \in Planned(plan'[r]) \/ <<day, x>> \in handed'
    PROVE  NoticesInv'
  <1>1. NoticesType /\ LettersInOrder /\ ExpiryTold /\ WarningsTold
    BY DEF NoticesInv
  <1>2. /\ expiresAt' = expiresAt /\ inService' = inService /\ entered' = entered
    BY DEF paperVars
  <1>3. day \in Nat
    BY <1>1, NoticesAssumption DEF NoticesType, Days, NoticesAssumption
  <1>4. NoticesType'
    <2>1. handed' \subseteq (0 .. day) \X (CallStep \union PaperStep)
      <3>1. day \in 0 .. day
        BY <1>3
      <3>2. handed \subseteq (0 .. day) \X (CallStep \union PaperStep)
        BY <1>1 DEF NoticesType
      <3> DEFINE C == CallStep \union PaperStep
      <3> HIDE DEF C
      <3>3. {day} \X C \subseteq (0 .. day) \X C
        BY <3>1
      <3>4. QED BY <3>2, <3>3 DEF C
    <2>2. \A r \in Senders : plan'[r] \in Seq(Part)
              \/ (r \in Loops /\ plan'[r] = Start(day))
      BY <1>1 DEF NoticesType
    <2>3. QED BY <1>1, <1>2, <2>1, <2>2 DEF NoticesType
  <1>5. LettersInOrder'
    <2>1. \A w : InOrder(w, handed, day) => InOrder(w, handed', day)
      BY DEF InOrder
    <2>2. \A parts : Ordered(parts, handed, day) => Ordered(parts, handed', day)
      BY <2>1 DEF Ordered
    <2>3. \A r \in Senders : Ordered(plan[r], handed, day)
      BY <1>1 DEF LettersInOrder
    <2>4. \A r \in Senders : Ordered(plan'[r], handed', day)
      BY <2>2, <2>3
    <2>5. ASSUME NEW l \in handed', l[2].act = "mail", NEW y \in Needs(l[2])
          PROVE  <<l[1], y>> \in handed'
      <3>1. CASE l \in handed
        BY <1>1, <2>5, <3>1 DEF LettersInOrder
      <3>2. CASE l \notin handed
        <4>1. l[1] = day
          BY <3>2
        <4>2. QED BY <2>5, <3>2, <4>1
      <3>3. QED BY <3>1, <3>2
    <2>6. QED BY <2>4, <2>5 DEF LettersInOrder
  <1>6. \A p \in Papers : Watch(p)' <=> Watch(p)
    BY <1>2 DEF Watch, Checked
  <1>7. ASSUME NEW d, NEW x, x.kind = "DOCUMENT_EXPIRED", Told(d, x)'
        PROVE  Told(d, x)
    <2>1. CASE <<d, x>> \in handed
      BY <2>1 DEF Told
    <2>2. CASE <<d, x>> \in handed' /\ <<d, x>> \notin handed
      <3> DEFINE l == <<d, x>>
      <3>1. l[1] = d /\ l[2] = x
        OBVIOUS
      <3> HIDE DEF l
      <3>2. l[1] = day /\ \E r \in Senders : l[2] \in Planned(plan[r])
        BY <2>2 DEF l
      <3>3. QED BY <3>1, <3>2 DEF Told
    <2>3. CASE <<d, x>> \notin handed'
      <3>1. d = day /\ \E r \in Senders : x \in Planned(plan'[r])
        BY <1>7, <2>3 DEF Told
      <3>2. QED BY <1>7, <3>1 DEF Told
    <2>4. QED BY <2>1, <2>2, <2>3
  <1>8. ExpiryTold'
    <2>1. SUFFICES ASSUME NEW p \in Papers, NEW e \in ExpiryDates, NEW d \in 0 .. day,
                          Told(d, ExpiryLetter(p, e))'
                   PROVE  /\ Expired(e, d)
                          /\ e = expiresAt[p] => d <= entered[p] \/ Watch(p)
      BY <1>2, <1>6 DEF ExpiryTold
    <2> DEFINE x == ExpiryLetter(p, e)
    <2>2. x.kind = "DOCUMENT_EXPIRED"
      BY DEF ExpiryLetter, Do
    <2> HIDE DEF x
    <2>3. Told(d, x)
      <3>1. Told(d, x)'
        BY <2>1 DEF x
      <3>2. QED BY <1>7, <2>2, <3>1
    <2>4. QED BY <1>1, <2>3 DEF ExpiryTold, x
  <1>9. WarningsTold'
    <2>1. SUFFICES ASSUME NEW p \in Papers, Watch(p), NEW d \in 1 .. day,
                          WarningDue(expiresAt[p], d), entered[p] < d, d \notin troubled'
                   PROVE  \/ Told(d, WarningLetter(p, expiresAt[p]))'
                          \/ d = day /\ plan'[LoopOf(p)] = Start(day)
      BY <1>2, <1>6 DEF WarningsTold
    <2>2. PICK x : x = WarningLetter(p, expiresAt[p])
      OBVIOUS
    <2>3. x.kind = "DOCUMENT_EXPIRY_WARNING" /\ x.act = "mail"
      BY <2>2 DEF WarningLetter, Do
    <2>4. Told(d, x) \/ (d = day /\ plan[LoopOf(p)] = Start(day))
      BY <1>1, <2>1, <2>2 DEF WarningsTold
    <2>5. SUFFICES Told(d, x)' \/ (d = day /\ plan'[LoopOf(p)] = Start(day))
      BY <1>2, <2>2 DEF Told
    <2>6. LoopOf(p) \in Senders
      BY LoopType
    <2>7. CASE <<d, x>> \in handed
      BY <2>7 DEF Told
    <2>8. CASE d = day /\ <<d, x>> \notin handed
      <3>1. \A r \in Senders :
                /\ plan[r] = Start(day) => plan'[r] = Start(day)
                /\ \A z \in Planned(plan[r]) :
                     z.kind = "DOCUMENT_EXPIRY_WARNING" /\ z.act = "mail" =>
                        z \in Planned(plan'[r]) \/ <<day, z>> \in handed'
        BY <2>1, <2>8
      <3>2. CASE plan[LoopOf(p)] = Start(day)
        BY <2>6, <2>8, <3>1, <3>2
      <3>3. CASE \E r \in Senders : x \in Planned(plan[r])
        <4>1. PICK r \in Senders : x \in Planned(plan[r])
          BY <3>3
        <4>2. x \in Planned(plan'[r]) \/ <<day, x>> \in handed'
          BY <2>3, <3>1, <4>1
        <4>3. Told(d, x)'
          BY <2>8, <4>2 DEF Told
        <4>4. QED BY <4>3
      <3>4. QED BY <2>4, <2>8, <3>2, <3>3 DEF Told
    <2>9. QED BY <2>4, <2>7, <2>8 DEF Told
  <1>10. QED BY <1>4, <1>5, <1>8, <1>9 DEF NoticesInv

\* A sender that is not idle is about to read the papers, or has parts to do.
LEMMA HeadStep ==
    ASSUME NoticesType, NEW s \in Senders, NEW act, At(s, act)
    PROVE  /\ Next1(s).act = act /\ plan[s] # <<>>
           /\ act = "read" => s \in Loops /\ plan[s] = Start(day)
           /\ act # "read" => plan[s] \in Seq(Part)
  <1>1. Next1(s).act = act /\ plan[s] # <<>>
    BY DEF At, Idle
  <1>2. CASE plan[s] = Start(day)
    <2>1. plan[s][1] = <<Do("read", Nobody, "DOCUMENTS", day)>>
      BY <1>2 DEF Start
    <2>2. Next1(s) = Do("read", Nobody, "DOCUMENTS", day)
      BY <2>1 DEF Next1
    <2>3. act = "read"
      BY <1>1, <2>2 DEF Do
    <2>4. plan[s] \notin Seq(Part)
      <3>1. ASSUME plan[s] \in Seq(Part) PROVE FALSE
        <4>1. plan[s][1] \in Part /\ plan[s][1][1] \in CallStep \union PaperStep
          BY <1>1, <3>1, HeadAndTail, PartTail, PartSteps
        <4>2. plan[s][1][1].act \in Acts
          BY <4>1, KindsApart
        <4>3. "read" \notin Acts
          BY DEF Acts
        <4>4. QED BY <1>1, <2>3, <4>2, <4>3 DEF Next1
      <3>2. QED BY <3>1
    <2>5. s \in Loops
      BY <2>4 DEF NoticesType
    <2>6. QED BY <1>1, <1>2, <2>3, <2>5
  <1>3. CASE plan[s] # Start(day)
    <2>1. plan[s] \in Seq(Part)
      BY <1>3 DEF NoticesType
    <2>2. plan[s][1] \in Part /\ plan[s][1][1] \in CallStep \union PaperStep
      BY <1>1, <2>1, HeadAndTail, PartTail, PartSteps
    <2>3. plan[s][1][1].act \in Acts
      BY <2>2, KindsApart
    <2>4. "read" \notin Acts
      BY DEF Acts
    <2>5. act # "read"
      BY <1>1, <2>3, <2>4 DEF Next1
    <2>6. QED BY <1>1, <2>1, <2>5
  <1>4. QED BY <1>2, <1>3

\* The first step is done.
LEMMA StepDone ==
    ASSUME NoticesInv, NEW s \in Senders,
           plan[s] \in Seq(Part), plan[s] # <<>>, Advance(s),
           notices' = notices, day' = day, UNCHANGED paperVars,
           troubled \subseteq troubled', handed \subseteq handed',
           handed' \subseteq handed \union {<<day, Next1(s)>>},
           Next1(s).act = "mail" => <<day, Next1(s)>> \in handed'
    PROVE  NoticesInv'
  <1>1. NoticesType /\ LettersInOrder
    BY DEF NoticesInv
  <1>2. s \in DOMAIN plan /\ plan = [r \in Senders |-> plan[r]]
    BY <1>1 DEF NoticesType
  <1>3. plan' = [r \in Senders |-> IF r = s THEN Rest(plan[s]) ELSE plan[r]]
    BY <1>2 DEF Advance
  <1> DEFINE head == plan[s][1][1]
  <1>4. Next1(s) = head
    BY DEF Next1
  <1>5. /\ plan[s][1] \in Part
        /\ Rest(plan[s]) \in Seq(Part)
        /\ Planned(plan[s]) = Planned(Rest(plan[s])) \union {head}
    BY RestProperties
  <1>6. Ordered(plan[s], handed, day)
    BY <1>1 DEF LettersInOrder
  <1>7. Ordered(Rest(plan[s]), handed', day)
    BY <1>4, <1>6, OrderedRest
  <1>8. head \in CallStep \union PaperStep
    BY <1>5, PartTail, PartSteps
  <1>9. ASSUME head.act = "mail", NEW y \in Needs(head) PROVE <<day, y>> \in handed'
    <2>1. /\ Len(plan[s]) \in Nat \ {0} /\ DOMAIN plan[s] = 1 .. Len(plan[s])
      BY HeadAndTail
    <2>2. 1 \in DOMAIN plan[s]
      BY <2>1
    <2>3. InOrder(plan[s][1], handed, day)
      BY <1>6, <2>2 DEF Ordered
    <2>4. 1 \in DOMAIN plan[s][1]
      BY <1>5, PartTail
    <2>5. <<day, y>> \in handed \/ \E h \in 1 .. 1 - 1 : plan[s][1][h] = y
      BY <1>9, <2>3, <2>4 DEF InOrder
    <2>6. QED BY <2>5
  <1> HIDE DEF head
  <1>10. plan' = [r \in Senders |-> plan'[r]]
    BY <1>3
  <1>11. \A r \in Senders : \/ plan'[r] = plan[r]
                            \/ /\ plan'[r] \in Seq(Part)
                               /\ Ordered(plan'[r], handed', day)
    BY <1>3, <1>5, <1>7
  <1>12. \A l \in handed' : \/ l \in handed
                            \/ /\ l \in {day} \X (CallStep \union PaperStep)
                               /\ \E r \in Senders : l[2] \in Planned(plan[r])
                               /\ l[2].act = "mail" =>
                                    \A y \in Needs(l[2]) : <<day, y>> \in handed'
    <2>1. SUFFICES ASSUME NEW l, l = <<day, head>>
                   PROVE  /\ l \in {day} \X (CallStep \union PaperStep)
                          /\ \E r \in Senders : l[2] \in Planned(plan[r])
                          /\ l[2].act = "mail" =>
                               \A y \in Needs(l[2]) : <<day, y>> \in handed'
      BY <1>4
    <2>2. l[2] = head /\ l \in {day} \X {head}
      BY <2>1
    <2>3. QED BY <1>5, <1>8, <1>9, <2>2
  <1>13. \A r \in Senders : \A x \in Planned(plan'[r]) :
            x.kind = "DOCUMENT_EXPIRED" => x \in Planned(plan[r])
    BY <1>3, <1>5
  <1>14. \A r \in Senders :
            /\ plan[r] = Start(day) => plan'[r] = Start(day)
            /\ \A x \in Planned(plan[r]) :
                 x.kind = "DOCUMENT_EXPIRY_WARNING" /\ x.act = "mail" =>
                    x \in Planned(plan'[r]) \/ <<day, x>> \in handed'
    <2>1. ASSUME plan[s] = Start(day) PROVE FALSE
      <3>1. head.act = "read"
        BY <2>1 DEF Start, Do, head
      <3>2. head.act \in Acts
        BY <1>8, KindsApart
      <3>3. QED BY <3>1, <3>2 DEF Acts
    <2>2. \A x \in Planned(plan[s]) : x \in Planned(plan'[s]) \/ x = head
      BY <1>3, <1>5
    <2>3. head.act = "mail" => <<day, head>> \in handed'
      BY <1>4
    <2>4. QED BY <1>3, <2>1, <2>2, <2>3
  <1>15. notices' \in Nat
    BY <1>1 DEF NoticesType
  <1>16. QED
    BY <1>10, <1>11, <1>12, <1>13, <1>14, <1>15, Moved

\* A recipient is found, a letter is handed over, or a row is written.
LEMMA StepKeeps ==
    ASSUME NoticesInv, NEW s \in Senders,
           FindRecipient(s) \/ Hand(s) \/ WriteRow(s)
    PROVE  NoticesInv'
  <1>1. NoticesType
    BY DEF NoticesInv
  <1>2. \A act \in {"find", "mail", "text", "log", "logUnknown"} :
            At(s, act) => /\ Next1(s).act = act
                          /\ plan[s] \in Seq(Part) /\ plan[s] # <<>>
    BY <1>1, HeadStep
  <1>3. CASE FindRecipient(s)
    <2>1. Next1(s).act = "find" /\ plan[s] \in Seq(Part) /\ plan[s] # <<>>
      BY <1>2, <1>3 DEF FindRecipient
    <2>2. QED BY <1>3, <2>1, StepDone DEF FindRecipient, NoFault, letterVars
  <1>4. CASE Hand(s)
    <2>1. plan[s] \in Seq(Part) /\ plan[s] # <<>>
      BY <1>2, <1>4 DEF Hand
    <2>2. /\ handed' = handed \union {<<day, Next1(s)>>}
          /\ troubled \subseteq troubled' /\ Advance(s)
          /\ UNCHANGED paperVars /\ day' = day /\ notices' = notices
      BY <1>4 DEF Hand, Fault
    <2>3. <<day, Next1(s)>> \in handed' /\ handed \subseteq handed'
          /\ handed' \subseteq handed \union {<<day, Next1(s)>>}
      BY <2>2
    <2>4. QED BY <2>1, <2>2, <2>3, StepDone
  <1>5. CASE WriteRow(s)
    <2>1. /\ plan[s] \in Seq(Part) /\ plan[s] # <<>>
          /\ Next1(s).act # "mail"
      BY <1>2, <1>5 DEF WriteRow
    <2>2. /\ handed' = handed /\ troubled \subseteq troubled' /\ Advance(s)
          /\ UNCHANGED paperVars /\ day' = day /\ notices' = notices
      BY <1>5 DEF WriteRow, Fault, NoFault
    <2>3. QED BY <2>1, <2>2, StepDone
  <1>6. QED BY <1>3, <1>4, <1>5

\* A part is dropped.
LEMMA ErrorKeeps ==
    ASSUME NoticesInv, NEW s \in Senders, QueryThrows(s) \/ NoPhone(s)
    PROVE  NoticesInv'
  <1>1. NoticesType /\ LettersInOrder
    BY DEF NoticesInv
  <1>2. /\ plan' = [plan EXCEPT ![s] = Tail(plan[s])]
        /\ handed' = handed /\ troubled \subseteq troubled'
        /\ UNCHANGED paperVars /\ day' = day /\ notices' = notices
    BY DEF QueryThrows, NoPhone, AfterError, Fault, NoFault, letterVars
  <1>3. plan = [r \in Senders |-> plan[r]] /\ notices' \in Nat
    BY <1>1, <1>2 DEF NoticesType
  <1>4. plan' = [r \in Senders |-> IF r = s THEN Tail(plan[s]) ELSE plan[r]]
    BY <1>2, <1>3
  <1>5. PICK act \in {"find", "read", "phone"} :
            /\ At(s, act)
            /\ act = "phone" <=> ~QueryThrows(s)
    <2>1. CASE QueryThrows(s)
      BY <2>1 DEF QueryThrows
    <2>2. CASE ~QueryThrows(s)
      BY <2>2 DEF NoPhone
    <2>3. QED BY <2>1, <2>2
  <1>6. /\ Next1(s).act = act /\ plan[s] # <<>>
        /\ act = "read" => plan[s] = Start(day)
        /\ act # "read" => plan[s] \in Seq(Part)
    BY <1>1, <1>5, HeadStep
  <1>7. /\ Tail(plan[s]) \in Seq(Part)
        /\ Ordered(Tail(plan[s]), handed, day)
        /\ \A x \in Planned(Tail(plan[s])) : x \in Planned(plan[s])
    <2>1. CASE act = "read"
      <3>1. Tail(plan[s]) = <<>>
        <4>1. PICK w : plan[s] = <<w>>
          BY <1>6, <2>1 DEF Start
        <4>2. Tail(<<w>>) = <<>>
          OBVIOUS
        <4>3. QED BY <4>1, <4>2
      <3>2. <<>> \in Seq(Part) /\ DOMAIN <<>> = {}
        BY EmptySeq
      <3>3. QED BY <3>1, <3>2 DEF Ordered, Planned
    <2>2. CASE act # "read"
      <3>1. Ordered(plan[s], handed, day)
        BY <1>1 DEF LettersInOrder
      <3>2. Ordered(Tail(plan[s]), handed, day)
        BY <1>6, <2>2, <3>1, OrderedRest
      <3>3. Tail(plan[s]) \in Seq(Part)
            /\ Planned(plan[s]) = Planned(Tail(plan[s])) \union Range(plan[s][1])
        BY <1>6, <2>2, RestProperties
      <3>4. QED BY <3>2, <3>3
    <2>3. QED BY <2>1, <2>2
  <1>8. \/ day \in troubled'
        \/ \A r \in Senders :
                /\ plan[r] = Start(day) => plan'[r] = Start(day)
                /\ \A x \in Planned(plan[r]) :
                     x.kind = "DOCUMENT_EXPIRY_WARNING" /\ x.act = "mail" =>
                        x \in Planned(plan'[r]) \/ <<day, x>> \in handed'
    <2>1. CASE act # "phone"
      BY <1>5, <2>1 DEF QueryThrows, Fault
    <2>2. CASE act = "phone"
      <3>1. /\ plan[s] \in Seq(Part) /\ plan[s][1] \in Part
            /\ Planned(plan[s]) = Planned(Tail(plan[s])) \union Range(plan[s][1])
        BY <1>6, <2>2, RestProperties
      <3>2. plan[s][1][1].act = "phone" /\ plan[s][1][1] \in Range(plan[s][1])
        BY <1>6, <2>2, <3>1, PartTail DEF Next1
      <3>3. plan[s][1] \notin Seq(PaperStep)
        <4>1. plan[s][1] \in Seq(PaperStep) => Range(plan[s][1]) \subseteq PaperStep
          BY DEF Range
        <4>2. QED BY <3>2, <4>1, KindsApart
      <3>4. plan[s][1] \in Seq(CallStep)
        BY <3>1, <3>3 DEF Part
      <3>5. Range(plan[s][1]) \subseteq CallStep
        BY <3>4 DEF Range
      <3>6. \A x \in Range(plan[s][1]) : x.kind # "DOCUMENT_EXPIRY_WARNING"
        BY <3>5, KindsApart DEF PaperKinds
      <3>7. plan[s] # Start(day)
        <4>1. Start(day)[1][1].act = "read"
          BY DEF Start, Do
        <4>2. QED BY <3>2, <4>1
      <3>8. QED BY <1>4, <3>1, <3>6, <3>7
    <2>3. QED BY <2>1, <2>2
  <1>9. QED
    <2>1. plan' = [r \in Senders |-> plan'[r]]
      BY <1>4
    <2>2. \A r \in Senders : \/ plan'[r] = plan[r]
                             \/ /\ plan'[r] \in Seq(Part)
                                /\ Ordered(plan'[r], handed', day)
      BY <1>2, <1>4, <1>7
    <2>3. \A r \in Senders : \A x \in Planned(plan'[r]) :
              x.kind = "DOCUMENT_EXPIRED" => x \in Planned(plan[r])
      BY <1>4, <1>7
    <2>4. \A l \in handed' : l \in handed
      BY <1>2
    <2>5. handed \subseteq handed'
      BY <1>2
    <2>6. QED BY <1>2, <1>3, <1>8, <2>1, <2>2, <2>3, <2>4, <2>5, Moved

\* The process stops.
LEMMA StopKeeps ==
    ASSUME NoticesInv, StopAndStart
    PROVE  NoticesInv'
  <1>1. NoticesType
    BY DEF NoticesInv
  <1>2. /\ plan' = [r \in Senders |-> <<>>]
        /\ handed' = handed /\ troubled' = troubled \union {day}
        /\ UNCHANGED paperVars /\ day' = day /\ notices' = notices
    BY DEF StopAndStart, Fault, letterVars
  <1>3. <<>> \in Seq(Part) /\ DOMAIN <<>> = {}
    BY EmptySeq
  <1>4. Planned(<<>>) = {} /\ Ordered(<<>>, handed', day)
    BY <1>3 DEF Planned, Ordered
  <1>5. plan' = [r \in Senders |-> plan'[r]]
    BY <1>2
  <1>6. \A r \in Senders : plan'[r] \in Seq(Part) /\ Ordered(plan'[r], handed', day)
    BY <1>2, <1>3, <1>4
  <1>7. \A r \in Senders : \A x \in Planned(plan'[r]) :
            x.kind = "DOCUMENT_EXPIRED" => x \in Planned(plan[r])
    BY <1>2, <1>4
  <1>8. /\ day \in troubled' /\ troubled \subseteq troubled'
        /\ handed \subseteq handed' /\ \A l \in handed' : l \in handed
        /\ notices' \in Nat
    BY <1>1, <1>2 DEF NoticesType
  <1>9. QED BY <1>2, <1>5, <1>6, <1>7, <1>8, Moved

\* A handler calls.
LEMMA CallKeeps ==
    ASSUME NoticesInv, NEW s \in Callers, NEW kind \in Kinds, Call(s, kind)
    PROVE  NoticesInv'
  <1>1. NoticesType
    BY DEF NoticesInv
  <1>2. PICK w \in NoticesOf(kind, notices) : plan' = [plan EXCEPT ![s] = <<w>>]
    BY DEF Call
  <1>3. /\ plan[s] = <<>> /\ s \in Senders
        /\ handed' = handed /\ troubled' = troubled
        /\ UNCHANGED paperVars /\ day' = day /\ notices' = notices + 1
    BY DEF Call, Idle, letterVars, Senders
  <1>4. plan = [r \in Senders |-> plan[r]] /\ notices \in Nat
    BY <1>1 DEF NoticesType
  <1>5. plan' = [r \in Senders |-> IF r = s THEN <<w>> ELSE plan[r]]
    BY <1>2, <1>4
  <1>6. w \in Seq(CallStep) /\ w # <<>> /\ InOrder(w, handed', day)
    BY <1>4, CallPart
  <1>7. w \in Part
    BY <1>6 DEF Part
  <1> DEFINE u == <<w>>
  <1>8. /\ u \in Seq(Part) /\ DOMAIN u = {1} /\ u[1] = w
    <2> HIDE DEF Part
    <2>1. QED BY <1>7
  <1>9. u # <<>>
    OBVIOUS
  <1>10. plan' = [r \in Senders |-> IF r = s THEN u ELSE plan[r]]
    BY <1>5
  <1> HIDE DEF u
  <1>11. Ordered(u, handed', day) /\ Planned(u) = Range(w)
    BY <1>6, <1>8 DEF Ordered, Planned
  <1>12. \A x \in Range(w) : x.kind \notin PaperKinds
    <2>1. Range(w) \subseteq CallStep
      BY <1>6 DEF Range
    <2>2. QED BY <2>1, KindsApart
  <1>13. \A r \in Senders : \A x \in Planned(plan'[r]) :
            x.kind = "DOCUMENT_EXPIRED" => x \in Planned(plan[r])
    <2>1. "DOCUMENT_EXPIRED" \in PaperKinds
      BY DEF PaperKinds
    <2>2. QED BY <1>10, <1>11, <1>12, <2>1
  <1>14. \A r \in Senders :
            /\ plan[r] = Start(day) => plan'[r] = Start(day)
            /\ \A x \in Planned(plan[r]) :
                 x.kind = "DOCUMENT_EXPIRY_WARNING" /\ x.act = "mail" =>
                    x \in Planned(plan'[r]) \/ <<day, x>> \in handed'
    <2>1. Start(day) # <<>>
      BY DEF Start
    <2>2. Planned(<<>>) = {}
      BY DEF Planned
    <2>3. QED BY <1>3, <1>10, <2>1, <2>2
  <1>15. \A r \in Senders : \/ plan'[r] = plan[r]
                            \/ /\ plan'[r] \in Seq(Part)
                               /\ Ordered(plan'[r], handed', day)
    BY <1>8, <1>10, <1>11
  <1>16. /\ plan' = [r \in Senders |-> plan'[r]] /\ notices' \in Nat
         /\ handed \subseteq handed' /\ troubled \subseteq troubled'
         /\ \A l \in handed' : l \in handed
    BY <1>3, <1>4, <1>10
  <1>17. QED BY <1>3, <1>13, <1>14, <1>15, <1>16, Moved

\* The papers are read.
LEMMA ReadKeeps ==
    ASSUME NoticesInv, NEW s \in Senders, ReadPapers(s)
    PROVE  NoticesInv'
  <1>1. NoticesType /\ LettersInOrder /\ ExpiryTold /\ WarningsTold
    BY DEF NoticesInv
  <1> DEFINE u == SetToSeq(PartsOf(s))
  <1>2. /\ plan' = [plan EXCEPT ![s] = u]
        /\ handed' = handed /\ troubled' = troubled /\ day' = day
        /\ notices' = notices /\ expiresAt' = expiresAt
        /\ inService' = inService /\ entered' = entered
    BY DEF ReadPapers, NoFault, letterVars, paperVars
  <1>3. s \in Loops /\ plan[s] = Start(day)
    BY <1>1, HeadStep DEF ReadPapers
  <1>4. /\ IsFiniteSet(PartsOf(s))
        /\ \A w \in PartsOf(s) :
             /\ w \in Seq(PaperStep) /\ w # <<>>
             /\ \A sent, d : InOrder(w, sent, d)
             /\ \A x \in Range(w) : x.kind = "DOCUMENT_EXPIRED" =>
                  \E p \in Checked(s) : /\ x.about = <<p, expiresAt[p]>>
                                        /\ Expired(expiresAt[p], day)
        /\ \A p \in Checked(s) : WarningDue(expiresAt[p], day) =>
             \E w \in PartsOf(s) : WarningLetter(p, expiresAt[p]) \in Range(w)
    BY <1>1, <1>3, ChecksSay
  <1>5. u \in Seq(PartsOf(s)) /\ Range(u) = PartsOf(s)
    BY <1>4, SetToSeqProperties
  <1>6. PartsOf(s) \subseteq Part
    BY <1>4 DEF Part
  <1> HIDE DEF u
  <1>7. u \in Seq(Part)
    <2> HIDE DEF Part
    <2>1. QED BY <1>5, <1>6, SeqMonotone
  <1>8. \A k \in DOMAIN u : u[k] \in PartsOf(s)
    BY <1>5 DEF Range
  <1>9. Ordered(u, handed, day)
    BY <1>4, <1>8 DEF Ordered
  <1>10. Planned(u) = UNION {Range(w) : w \in PartsOf(s)}
    BY <1>5 DEF Planned, Range
  <1>11. plan' = [r \in Senders |-> IF r = s THEN u ELSE plan[r]]
    BY <1>1, <1>2 DEF NoticesType
  <1>12. NoticesType'
    <2>1. plan' = [r \in Senders |-> plan'[r]]
      BY <1>11
    <2>2. \A r \in Senders : plan'[r] \in Seq(Part)
              \/ (r \in Loops /\ plan'[r] = Start(day))
      BY <1>1, <1>7, <1>11 DEF NoticesType
    <2>3. QED BY <1>1, <1>2, <2>1, <2>2 DEF NoticesType
  <1>13. LettersInOrder'
    <2>1. \A r \in Senders : Ordered(plan'[r], handed, day)
      BY <1>1, <1>9, <1>11 DEF LettersInOrder
    <2>2. QED BY <1>1, <1>2, <2>1 DEF LettersInOrder
  <1>14. \A p \in Papers : Watch(p)' <=> Watch(p)
    BY <1>2 DEF Watch, Checked
  <1>15. \A p \in Papers : p \in Checked(s) <=> LoopOf(p) = s /\ Watch(p)
    BY <1>3 DEF Checked, Watch, LoopOf, Loops
  <1>16. ExpiryTold'
    <2>1. SUFFICES ASSUME NEW p \in Papers, NEW e \in ExpiryDates, NEW d \in 0 .. day,
                          Told(d, ExpiryLetter(p, e))'
                   PROVE  /\ Expired(e, d)
                          /\ e = expiresAt[p] => d <= entered[p] \/ Watch(p)
      BY <1>2, <1>14 DEF ExpiryTold
    <2> DEFINE x == ExpiryLetter(p, e)
    <2>2. x.kind = "DOCUMENT_EXPIRED" /\ x.about = <<p, e>>
      BY DEF ExpiryLetter, Do
    <2> HIDE DEF x
    <2>3. Told(d, x)'
      BY <2>1 DEF x
    <2>4. CASE Told(d, x)
      BY <1>1, <2>4 DEF ExpiryTold, x
    <2>5. CASE ~Told(d, x)
      <3>1. d = day /\ x \in Planned(u)
        BY <1>2, <1>11, <2>3, <2>5 DEF Told
      <3>2. PICK q \in Checked(s) : /\ x.about = <<q, expiresAt[q]>>
                                    /\ Expired(expiresAt[q], day)
        BY <1>4, <1>10, <2>2, <3>1
      <3>3. q = p /\ e = expiresAt[p]
        BY <2>2, <3>2
      <3>4. QED BY <1>15, <3>1, <3>2, <3>3
    <2>6. QED BY <2>4, <2>5
  <1>17. WarningsTold'
    <2>1. SUFFICES ASSUME NEW p \in Papers, Watch(p), NEW d \in 1 .. day,
                          WarningDue(expiresAt[p], d), entered[p] < d, d \notin troubled
                   PROVE  \/ Told(d, WarningLetter(p, expiresAt[p]))'
                          \/ d = day /\ plan'[LoopOf(p)] = Start(day)
      BY <1>2, <1>14 DEF WarningsTold
    <2>2. PICK x : x = WarningLetter(p, expiresAt[p])
      OBVIOUS
    <2>3. x.kind = "DOCUMENT_EXPIRY_WARNING"
      BY <2>2 DEF WarningLetter, Do
    <2>4. Told(d, x) \/ (d = day /\ plan[LoopOf(p)] = Start(day))
      BY <1>1, <2>1, <2>2 DEF WarningsTold
    <2>5. SUFFICES Told(d, x)' \/ (d = day /\ plan'[LoopOf(p)] = Start(day))
      BY <1>2, <2>2 DEF Told
    <2>6. CASE <<d, x>> \in handed
      BY <1>2, <2>6 DEF Told
    <2>7. CASE d = day /\ LoopOf(p) = s
      <3>1. x \in Planned(u)
        BY <1>4, <1>10, <1>15, <2>1, <2>2, <2>7
      <3>2. plan'[s] = u
        BY <1>11
      <3>3. QED BY <1>2, <2>7, <3>1, <3>2 DEF Told
    <2>8. CASE d = day /\ LoopOf(p) # s /\ plan[LoopOf(p)] = Start(day)
      <3>1. LoopOf(p) \in Senders
        BY LoopType
      <3>2. plan'[LoopOf(p)] = plan[LoopOf(p)]
        BY <1>11, <2>8, <3>1
      <3>3. QED BY <2>8, <3>2
    <2>9. CASE d = day /\ \E r \in Senders : x \in Planned(plan[r])
      <3>1. PICK r \in Senders : x \in Planned(plan[r])
        BY <2>9
      <3>2. r # s
        <4>1. ASSUME r = s PROVE FALSE
          <5> DEFINE z == Do("read", Nobody, "DOCUMENTS", day)
          <5>1. x \in Planned(<< <<z>> >>)
            BY <1>3, <3>1, <4>1 DEF Start
          <5>2. z.kind = "DOCUMENTS"
            BY DEF Do
          <5> HIDE DEF z
          <5>3. Planned(<< <<z>> >>) = {z}
            BY DEF Planned, Range
          <5>4. QED BY <2>3, <5>1, <5>2, <5>3
        <4>2. QED BY <4>1
      <3>3. plan'[r] = plan[r]
        BY <1>11, <3>2
      <3>4. QED BY <1>2, <2>9, <3>1, <3>3 DEF Told
    <2>10. QED BY <2>4, <2>6, <2>7, <2>8, <2>9 DEF Told
  <1>18. QED BY <1>12, <1>13, <1>16, <1>17 DEF NoticesInv

\* A day begins, with the checks or without them.
LEMMA DayKeeps ==
    ASSUME NoticesInv, Midnight \/ MissMidnight
    PROVE  NoticesInv'
  <1>1. NoticesType /\ LettersInOrder /\ ExpiryTold /\ WarningsTold
    BY DEF NoticesInv
  <1>2. /\ \A s \in Senders : plan[s] = <<>>
        /\ day < LastDay /\ day' = day + 1
        /\ handed' = handed /\ troubled \subseteq troubled'
        /\ notices' = notices /\ expiresAt' = expiresAt
        /\ inService' = inService /\ entered' = entered
    BY DEF Midnight, MissMidnight, Idle, letterVars, paperVars, boundVars
  <1>3. /\ plan' = [s \in Senders |-> plan'[s]]
        /\ \A s \in Senders : \/ plan'[s] = <<>>
                              \/ s \in Loops /\ plan'[s] = Start(day')
        /\ \/ day' \in troubled'
           \/ \A s \in Loops : plan'[s] = Start(day')
    <2>1. CASE Midnight
      <3>1. plan' = [s \in Senders |-> IF s \in Loops THEN Start(day') ELSE <<>>]
        BY <1>2, <2>1 DEF Midnight, Start
      <3>2. Loops \subseteq Senders
        BY DEF Senders
      <3>3. QED BY <3>1, <3>2
    <2>2. CASE MissMidnight
      <3>1. plan' = plan /\ day' \in troubled'
        BY <1>2, <2>2 DEF MissMidnight
      <3>2. QED BY <1>1, <1>2, <3>1 DEF NoticesType
    <2>3. QED BY <2>1, <2>2
  <1>4. day \in Nat /\ day' \in Days /\ 0 .. day \subseteq 0 .. day'
    BY <1>1, <1>2, NoticesAssumption DEF NoticesType, Days, NoticesAssumption
  <1>5. <<>> \in Seq(Part) /\ Planned(<<>>) = {}
    BY EmptySeq DEF Planned
  <1>6. \A s \in Senders : Planned(plan'[s]) \subseteq {Do("read", Nobody, "DOCUMENTS", day')}
    <2>1. PICK z : z = Do("read", Nobody, "DOCUMENTS", day')
      OBVIOUS
    <2>2. Planned(<< <<z>> >>) = {z}
      BY DEF Planned, Range
    <2>3. Start(day') = << <<z>> >>
      BY <2>1 DEF Start
    <2>4. QED BY <1>3, <1>5, <2>1, <2>2, <2>3
  <1>7. \A s \in Senders : Planned(plan[s]) = {} /\ plan[s] # Start(day)
    <2>1. Start(day) # <<>>
      BY DEF Start
    <2>2. QED BY <1>2, <1>5, <2>1
  <1>8. NoticesType'
    <2>1. handed' \subseteq (0 .. day') \X (CallStep \union PaperStep)
      <3> DEFINE C == CallStep \union PaperStep
      <3>1. handed \subseteq (0 .. day) \X C
        BY <1>1 DEF NoticesType
      <3> HIDE DEF C
      <3>2. handed' \subseteq (0 .. day') \X C
        BY <1>2, <1>4, <3>1
      <3>3. QED BY <3>2 DEF C
    <2>2. entered' \in [Papers -> 0 .. day']
      BY <1>1, <1>2, <1>4 DEF NoticesType
    <2>3. \A s \in Senders : plan'[s] \in Seq(Part)
              \/ (s \in Loops /\ plan'[s] = Start(day'))
      BY <1>3, <1>5
    <2>4. QED BY <1>1, <1>2, <1>3, <1>4, <2>1, <2>2, <2>3 DEF NoticesType
  <1>9. LettersInOrder'
    <2>1. \A s \in Senders : Ordered(plan'[s], handed', day')
      <3>1. Ordered(<<>>, handed', day')
        BY DEF Ordered
      <3>2. Ordered(Start(day'), handed', day')
        <4>1. PICK z : z = Do("read", Nobody, "DOCUMENTS", day')
          OBVIOUS
        <4>2. z.kind = "DOCUMENTS"
          BY <4>1 DEF Do
        <4>3. Range(<<z>>) = {z}
          BY DEF Range
        <4>4. InOrder(<<z>>, handed', day')
          BY <4>2, <4>3, NoNeedsThere
        <4> DEFINE u == << <<z>> >>
        <4>5. DOMAIN u = {1} /\ u[1] = <<z>>
          OBVIOUS
        <4>6. u = Start(day')
          BY <4>1 DEF Start
        <4> HIDE DEF u
        <4>7. QED BY <4>4, <4>5, <4>6 DEF Ordered
      <3>3. QED BY <1>3, <3>1, <3>2
    <2>2. QED BY <1>1, <1>2, <2>1 DEF LettersInOrder
  <1>10. \A p \in Papers : Watch(p)' <=> Watch(p)
    BY <1>2 DEF Watch, Checked
  <1>11. ASSUME NEW d, NEW x, x.kind \in PaperKinds
         PROVE  Told(d, x)' <=> <<d, x>> \in handed
    <2>1. Do("read", Nobody, "DOCUMENTS", day').kind = "DOCUMENTS"
      BY DEF Do
    <2>2. x # Do("read", Nobody, "DOCUMENTS", day')
      BY <1>11, <2>1 DEF PaperKinds
    <2>3. QED BY <1>2, <1>6, <2>2 DEF Told
  <1>12. ASSUME NEW d, NEW x PROVE Told(d, x) <=> <<d, x>> \in handed
    BY <1>7 DEF Told
  <1>13. ExpiryTold'
    <2>1. SUFFICES ASSUME NEW p \in Papers, NEW e \in ExpiryDates, NEW d \in 0 .. day',
                          Told(d, ExpiryLetter(p, e))'
                   PROVE  /\ Expired(e, d)
                          /\ e = expiresAt[p] => d <= entered[p] \/ Watch(p)
      BY <1>2, <1>10 DEF ExpiryTold
    <2> DEFINE x == ExpiryLetter(p, e)
    <2>2. x.kind \in PaperKinds
      BY DEF ExpiryLetter, Do, PaperKinds
    <2> HIDE DEF x
    <2>3. <<d, x>> \in handed
      BY <1>11, <2>1, <2>2 DEF x
    <2>4. d \in 0 .. day
      <3> DEFINE C == CallStep \union PaperStep
      <3>1. handed \subseteq (0 .. day) \X C
        BY <1>1 DEF NoticesType
      <3> HIDE DEF C
      <3>2. QED BY <2>3, <3>1
    <2>5. Told(d, x)
      BY <1>12, <2>3
    <2>6. QED BY <1>1, <2>4, <2>5 DEF ExpiryTold, x
  <1>14. WarningsTold'
    <2>1. SUFFICES ASSUME NEW p \in Papers, Watch(p), NEW d \in 1 .. day',
                          WarningDue(expiresAt[p], d), entered[p] < d, d \notin troubled'
                   PROVE  \/ Told(d, WarningLetter(p, expiresAt[p]))'
                          \/ d = day' /\ plan'[LoopOf(p)] = Start(day')
      BY <1>2, <1>10 DEF WarningsTold
    <2>2. PICK x : x = WarningLetter(p, expiresAt[p])
      OBVIOUS
    <2>3. LoopOf(p) \in Loops /\ LoopOf(p) \in Senders
      BY LoopType
    <2>4. CASE d = day'
      BY <1>3, <2>1, <2>3, <2>4
    <2>5. CASE d # day'
      <3>1. d \in 1 .. day
        BY <1>2, <1>4, <2>5
      <3>2. Told(d, x) \/ (d = day /\ plan[LoopOf(p)] = Start(day))
        BY <1>1, <1>2, <2>1, <2>2, <3>1 DEF WarningsTold
      <3>3. <<d, x>> \in handed
        BY <1>7, <1>12, <2>3, <3>2
      <3>4. Told(d, x)'
        BY <1>2, <3>3 DEF Told
      <3>5. QED BY <1>2, <2>2, <3>4
    <2>6. QED BY <2>4, <2>5
  <1>15. QED BY <1>8, <1>9, <1>13, <1>14 DEF NoticesInv

\* Papers change: those that are entered anew are checked from the next day.
LEMMA AlterKeeps ==
    ASSUME NoticesInv, NEW papers \in SUBSET Papers, Alter(papers),
           expiresAt' \in [Papers -> ExpiryDates \union {Nobody}],
           inService' \in [Vehicles -> BOOLEAN],
           \A p \in Papers \ papers : /\ expiresAt'[p] = expiresAt[p]
                                      /\ Watch(p)' <=> Watch(p)
    PROVE  NoticesInv'
  <1>1. NoticesType /\ LettersInOrder /\ ExpiryTold /\ WarningsTold
    BY DEF NoticesInv
  <1>2. /\ entered' = [p \in Papers |-> IF p \in papers THEN day ELSE entered[p]]
        /\ handed' = handed /\ troubled' = troubled /\ day' = day
        /\ notices' = notices /\ plan' = plan
    BY DEF Alter, letterVars
  <1>3. day \in Nat
    BY <1>1, NoticesAssumption DEF NoticesType, Days, NoticesAssumption
  <1>4. NoticesType'
    <2>1. entered' \in [Papers -> 0 .. day]
      BY <1>1, <1>2, <1>3 DEF NoticesType
    <2>2. QED BY <1>1, <1>2, <2>1 DEF NoticesType
  <1>5. LettersInOrder'
    BY <1>1, <1>2 DEF LettersInOrder
  <1>6. \A d, x : Told(d, x)' <=> Told(d, x)
    BY <1>2 DEF Told
  <1>7. ExpiryTold'
    <2>1. SUFFICES ASSUME NEW p \in Papers, NEW e \in ExpiryDates, NEW d \in 0 .. day,
                          Told(d, ExpiryLetter(p, e))
                   PROVE  /\ Expired(e, d)
                          /\ e = expiresAt'[p] => d <= entered'[p] \/ Watch(p)'
      BY <1>2, <1>6 DEF ExpiryTold
    <2>2. /\ Expired(e, d)
          /\ e = expiresAt[p] => d <= entered[p] \/ Watch(p)
      BY <1>1, <2>1 DEF ExpiryTold
    <2>3. CASE p \in papers
      <3>1. entered'[p] = day /\ d <= day
        BY <1>2, <1>3, <2>3
      <3>2. QED BY <2>2, <3>1
    <2>4. CASE p \notin papers
      <3>1. entered'[p] = entered[p]
        BY <1>2, <2>4
      <3>2. QED BY <2>2, <2>4, <3>1
    <2>5. QED BY <2>3, <2>4
  <1>8. WarningsTold'
    <2>1. SUFFICES ASSUME NEW p \in Papers, Watch(p)', NEW d \in 1 .. day,
                          WarningDue(expiresAt'[p], d), entered'[p] < d, d \notin troubled
                   PROVE  \/ Told(d, WarningLetter(p, expiresAt'[p]))
                          \/ d = day /\ plan[LoopOf(p)] = Start(day)
      BY <1>2, <1>6 DEF WarningsTold
    <2>2. p \notin papers
      <3>1. ASSUME p \in papers PROVE FALSE
        <4>1. entered'[p] = day
          BY <1>2, <3>1
        <4>2. QED BY <1>3, <2>1, <4>1
      <3>2. QED BY <3>1
    <2>3. entered'[p] = entered[p] /\ expiresAt'[p] = expiresAt[p] /\ Watch(p)
      BY <1>2, <2>1, <2>2
    <2>4. QED BY <1>1, <2>1, <2>3 DEF WarningsTold
  <1>9. QED BY <1>4, <1>5, <1>7, <1>8 DEF NoticesInv

\* The changes of papers.
LEMMA EditKeeps ==
    ASSUME NoticesInv,
           \/ \E p \in Papers :
                \/ DeletePaper(p)
                \/ \E e \in ExpiryDates : UploadPaper(p, e) \/ UpdateDate(p, e)
           \/ \E v \in Vehicles, active \in BOOLEAN : SetInService(v, active)
    PROVE  NoticesInv'
  <1>1. /\ expiresAt \in [Papers -> ExpiryDates \union {Nobody}]
        /\ inService \in [Vehicles -> BOOLEAN]
    BY DEF NoticesInv, NoticesType
  <1>2. ASSUME NEW p \in Papers, NEW e \in ExpiryDates \union {Nobody},
               Vehicle[p] = Nobody, Alter({p}),
               expiresAt' = [expiresAt EXCEPT ![p] = e], inService' = inService
        PROVE  NoticesInv'
    <2>1. expiresAt' = [q \in Papers |-> IF q = p THEN e ELSE expiresAt[q]]
      BY <1>1, <1>2
    <2>2. expiresAt' \in [Papers -> ExpiryDates \union {Nobody}]
      BY <1>1, <2>1
    <2>3. Watched \subseteq Papers
      BY NoticesAssumption DEF NoticesAssumption
    <2>4. ASSUME NEW q \in Papers \ {p} PROVE Watch(q)' <=> Watch(q)
      <3>1. expiresAt'[q] = expiresAt[q]
        BY <2>1
      <3>2. \A r \in Watched : Vehicle[q] # Nobody /\ Vehicle[r] = Vehicle[q] =>
                r # p /\ expiresAt'[r] = expiresAt[r]
        BY <1>2, <2>1, <2>3
      <3>3. QED BY <1>2, <3>1, <3>2 DEF Watch, Checked
    <2>5. \A q \in Papers \ {p} : expiresAt'[q] = expiresAt[q]
      BY <2>1
    <2>6. QED BY <1>1, <1>2, <2>2, <2>4, <2>5, AlterKeeps
  <1>3. ASSUME NEW p \in Papers, NEW e \in ExpiryDates, UpdateDate(p, e)
        PROVE  NoticesInv'
    <2>1. /\ expiresAt' = [q \in Papers |-> IF q = p THEN e ELSE expiresAt[q]]
          /\ inService' = inService /\ Alter(PapersOf(Vehicle[p]))
          /\ Vehicle[p] # Nobody
      BY <1>1, <1>3 DEF UpdateDate
    <2>2. /\ expiresAt' \in [Papers -> ExpiryDates \union {Nobody}]
          /\ PapersOf(Vehicle[p]) \in SUBSET Papers
      BY <1>1, <2>1 DEF PapersOf
    <2>3. Watched \subseteq Papers
      BY NoticesAssumption DEF NoticesAssumption
    <2>4. ASSUME NEW q \in Papers \ PapersOf(Vehicle[p])
          PROVE  expiresAt'[q] = expiresAt[q] /\ (Watch(q)' <=> Watch(q))
      <3>1. Vehicle[q] # Vehicle[p] /\ q # p
        BY DEF PapersOf
      <3>2. expiresAt'[q] = expiresAt[q]
        BY <2>1, <3>1
      <3>3. \A r \in Watched : Vehicle[r] = Vehicle[q] =>
                r # p /\ expiresAt'[r] = expiresAt[r]
        BY <2>1, <2>3, <3>1
      <3>4. QED BY <2>1, <3>2, <3>3 DEF Watch, Checked
    <2>5. QED BY <1>1, <2>1, <2>2, <2>4, AlterKeeps
  <1>4. ASSUME NEW v \in Vehicles, NEW active \in BOOLEAN, SetInService(v, active)
        PROVE  NoticesInv'
    <2>1. /\ inService' = [w \in Vehicles |-> IF w = v THEN active ELSE inService[w]]
          /\ expiresAt' = expiresAt /\ Alter(PapersOf(v))
      BY <1>1, <1>4 DEF SetInService
    <2>2. /\ inService' \in [Vehicles -> BOOLEAN]
          /\ PapersOf(v) \in SUBSET Papers
      BY <1>1, <2>1 DEF PapersOf
    <2>3. ASSUME NEW q \in Papers \ PapersOf(v) PROVE Watch(q)' <=> Watch(q)
      <3>1. Vehicle[q] # v
        BY DEF PapersOf
      <3>2. Vehicle[q] # Nobody => inService'[Vehicle[q]] = inService[Vehicle[q]]
        BY <2>1, <3>1 DEF Vehicles
      <3>3. QED BY <2>1, <3>2 DEF Watch, Checked
    <2>4. QED BY <1>1, <2>1, <2>2, <2>3, AlterKeeps
  <1>5. ASSUME NEW p \in Papers, DeletePaper(p) PROVE NoticesInv'
    BY <1>2, <1>5 DEF DeletePaper
  <1>6. ASSUME NEW p \in Papers, NEW e \in ExpiryDates, UploadPaper(p, e)
        PROVE  NoticesInv'
    BY <1>2, <1>6 DEF UploadPaper
  <1>7. QED BY <1>3, <1>4, <1>5, <1>6

----------------------------------------------------------------------------
(* Notices: the theorems *)

LEMMA NoticesStart ==
    ASSUME NoticesInit PROVE NoticesInv
  <1>1. /\ handed = {} /\ troubled = {} /\ day = 0 /\ notices = 0
        /\ expiresAt \in [Papers -> ExpiryDates \union {Nobody}]
        /\ inService = [v \in Vehicles |-> TRUE]
        /\ entered = [p \in Papers |-> 0]
        /\ plan = [s \in Senders |-> <<>>]
    BY DEF NoticesInit
  <1>2. /\ <<>> \in Seq(Part)
        /\ \A sent, d : Ordered(<<>>, sent, d)
        /\ Planned(<<>>) = {}
    BY EmptySeq DEF Ordered, Planned
  <1>3. 0 \in Days /\ 0 \in 0 .. 0
    BY NoticesAssumption DEF NoticesAssumption, Days
  <1>4. NoticesType
    <2>1. \A s \in Senders : plan[s] \in Seq(Part)
      BY <1>1, <1>2
    <2>2. entered \in [Papers -> 0 .. day]
      BY <1>1, <1>3
    <2>3. plan = [s \in Senders |-> plan[s]]
      BY <1>1
    <2>4. QED BY <1>1, <1>3, <2>1, <2>2, <2>3 DEF NoticesType
  <1>5. LettersInOrder
    BY <1>1, <1>2 DEF LettersInOrder
  <1>6. \A d, x : ~Told(d, x)
    BY <1>1, <1>2 DEF Told
  <1>7. ExpiryTold
    BY <1>6 DEF ExpiryTold
  <1>8. WarningsTold
    BY <1>1 DEF WarningsTold
  <1>9. QED BY <1>4, <1>5, <1>7, <1>8 DEF NoticesInv

\* The invariant is kept by every step.
LEMMA NoticesKeep ==
    ASSUME NoticesInv, [NoticesNext]_noticeVars
    PROVE  NoticesInv'
  <1>1. CASE UNCHANGED noticeVars
    <2>1. /\ handed' = handed /\ troubled' = troubled /\ day' = day
          /\ notices' = notices /\ expiresAt' = expiresAt
          /\ inService' = inService /\ entered' = entered /\ plan' = plan
      BY <1>1 DEF noticeVars, letterVars, paperVars, boundVars
    <2>2. \A d, x : Told(d, x)' <=> Told(d, x)
      BY <2>1 DEF Told
    <2>3. \A p \in Papers : Watch(p)' <=> Watch(p)
      BY <2>1 DEF Watch, Checked
    <2>4. NoticesType' /\ LettersInOrder'
      BY <2>1 DEF NoticesInv, NoticesType, LettersInOrder
    <2>5. ExpiryTold' /\ WarningsTold'
      BY <2>1, <2>2, <2>3 DEF NoticesInv, ExpiryTold, WarningsTold
    <2>6. QED BY <2>4, <2>5 DEF NoticesInv
  <1>2. CASE Midnight \/ MissMidnight
    BY <1>2, DayKeeps
  <1>3. CASE StopAndStart
    BY <1>3, StopKeeps
  <1>4. CASE \E s \in Callers, kind \in Kinds : Call(s, kind)
    BY <1>4, CallKeeps
  <1>5. CASE \E s \in Senders : FindRecipient(s) \/ Hand(s) \/ WriteRow(s)
    BY <1>5, StepKeeps
  <1>6. CASE \E s \in Senders : QueryThrows(s) \/ NoPhone(s)
    BY <1>6, ErrorKeeps
  <1>7. CASE \E s \in Senders : ReadPapers(s)
    BY <1>7, ReadKeeps
  <1>8. CASE \/ \E p \in Papers :
                  \/ DeletePaper(p)
                  \/ \E e \in ExpiryDates : UploadPaper(p, e) \/ UpdateDate(p, e)
             \/ \E v \in Vehicles, active \in BOOLEAN : SetInService(v, active)
    BY <1>8, EditKeeps
  <1>9. QED
    BY <1>1, <1>2, <1>3, <1>4, <1>5, <1>6, <1>7, <1>8 DEF NoticesNext

\* What is told of papers, and in which order, is an invariant: letters go out
\* after those they need, whatever error, refusal or crash intervenes
\* (notifications.service.ts:278-338, document-expiry-scheduler.service.ts:38-228).
THEOREM NoticesAreTold == NoticesSpec => []NoticesInv
  <1>1. NoticesInit => NoticesInv
    BY NoticesStart
  <1>2. NoticesInv /\ [NoticesNext]_noticeVars => NoticesInv'
    BY NoticesKeep
  <1>3. QED BY <1>1, <1>2, PTL DEF NoticesSpec

\* The administrator reads of a new job, or of an expired document, after the
\* operators concerned were written to
\* (notifications.service.ts:278-338, document-expiry-scheduler.service.ts:102-117).
THEOREM AdministratorLast == NoticesSpec => []AdminHearsLast
  <1>1. ASSUME NoticesInv PROVE AdminHearsLast
    <2>1. \A l \in handed : l[2].act = "mail" =>
             \A y \in Needs(l[2]) : <<l[1], y>> \in handed
      BY <1>1 DEF NoticesInv, LettersInOrder
    <2>2. ASSUME NEW d, NEW x, <<d, x>> \in handed, x.act = "mail", NEW y \in Needs(x)
          PROVE  <<d, y>> \in handed
      <3> DEFINE l == <<d, x>>
      <3>1. l[1] = d /\ l[2] = x /\ l \in handed
        BY <2>2
      <3> HIDE DEF l
      <3>2. QED BY <2>1, <2>2, <3>1
    <2>3. ASSUME NEW d \in Days, NEW j \in JobIds, NEW n \in 0 .. MaxNotices,
                 Said(d, AdminMailbox, "NEW_JOB", <<j, n>>), NEW i \in DOMAIN Recipients[j]
          PROVE  Said(d, Recipients[j][i], "NEW_JOB_ALERT", <<j, n>>)
      <3> DEFINE x == Do("mail", AdminMailbox, "NEW_JOB", <<j, n>>)
      <3>1. /\ x.kind = "NEW_JOB" /\ x.act = "mail"
            /\ x.about = <<j, n>> /\ x.about[1] = j
        BY DEF Do
      <3>2. <<d, x>> \in handed
        BY <2>3 DEF Said
      <3> HIDE DEF x
      <3>3. Do("mail", Recipients[j][i], "NEW_JOB_ALERT", <<j, n>>) \in Needs(x)
        BY <3>1 DEF Needs
      <3>4. QED BY <2>2, <3>1, <3>2, <3>3 DEF Said
    <2>4. ASSUME NEW d \in Days, NEW p \in Papers, NEW e \in ExpiryDates,
                 Said(d, AdminMailbox, "DOCUMENT_EXPIRY", <<p, e>>)
          PROVE  Said(d, Holder[p], "DOCUMENT_EXPIRED", <<p, e>>)
      <3> DEFINE x == Do("mail", AdminMailbox, "DOCUMENT_EXPIRY", <<p, e>>)
      <3>1. /\ x.kind = "DOCUMENT_EXPIRY" /\ x.act = "mail"
            /\ x.about = <<p, e>> /\ x.about[1] = p
        BY DEF Do
      <3>2. <<d, x>> \in handed
        BY <2>4 DEF Said
      <3> HIDE DEF x
      <3>3. Do("mail", Holder[p], "DOCUMENT_EXPIRED", <<p, e>>) \in Needs(x)
        BY <3>1 DEF Needs
      <3>4. QED BY <2>2, <3>1, <3>2, <3>3 DEF Said
    <2>5. QED BY <2>3, <2>4 DEF AdminHearsLast
  <1>2. NoticesInv => AdminHearsLast
    BY <1>1
  <1>3. QED BY <1>2, NoticesAreTold, PTL

\* An operator who is told that a document has expired had every warning that
\* was due since it was entered, but for the days on which the system failed
\* (document-expiry-scheduler.service.ts:50-67, :160-176).
THEOREM OperatorForewarned == NoticesSpec => []Forewarned
  <1>1. ASSUME NoticesInv PROVE Forewarned
    <2>1. NoticesType /\ ExpiryTold /\ WarningsTold
      BY <1>1 DEF NoticesInv
    <2>2. SUFFICES ASSUME NEW p \in Papers, NEW late \in Days,
                          Said(late, Holder[p], "DOCUMENT_EXPIRED", <<p, expiresAt[p]>>),
                          NEW d \in 1 .. LastDay,
                          WarningDue(expiresAt[p], d), entered[p] < d, d \notin troubled
                   PROVE  Said(d, Holder[p], "DOCUMENT_EXPIRY_WARNING", <<p, expiresAt[p]>>)
      BY DEF Forewarned, WarningDue
    <2> DEFINE e == expiresAt[p]
               x == ExpiryLetter(p, e)
    <2>3. <<late, x>> \in handed
      BY <2>2 DEF Said, ExpiryLetter
    <2>4. x.kind = "DOCUMENT_EXPIRED" /\ x.about = <<p, e>>
      BY DEF ExpiryLetter, Do
    <2>5. entered[p] \in Nat /\ entered[p] <= day /\ day \in Nat
      BY <2>1, NoticesAssumption DEF NoticesType, Days, NoticesAssumption
    <2> HIDE DEF x, e
    <2>6. late \in 0 .. day /\ x \in CallStep \union PaperStep
      <3> DEFINE C == CallStep \union PaperStep
      <3>1. handed \subseteq (0 .. day) \X C
        BY <2>1 DEF NoticesType
      <3> HIDE DEF C
      <3>2. late \in 0 .. day /\ x \in C
        BY <2>3, <3>1
      <3>3. QED BY <3>2 DEF C
    <2>7. e \in ExpiryDates
      <3>1. x \in PaperStep
        BY <2>4, <2>6, KindsApart DEF PaperKinds
      <3>2. <<p, e>> \in Papers \X ExpiryDates
        BY <2>4, <3>1, KindsApart
      <3>3. QED BY <3>2
    <2>8. Told(late, ExpiryLetter(p, e))
      BY <2>3 DEF Told, x
    <2>9. Expired(e, late) /\ (late <= entered[p] \/ Watch(p))
      BY <2>1, <2>6, <2>7, <2>8 DEF ExpiryTold, e
    <2>10. d < late /\ d \in Nat
      <3>1. /\ e \in Nat /\ late \in Nat /\ d \in Nat
            /\ Soon \in Nat /\ Early \in Nat /\ 0 < Early
        BY <2>2, <2>5, <2>6, <2>7, NoticesAssumption DEF NoticesAssumption
      <3>2. DaysLeft(e, d) >= 1
        BY <2>2, <3>1 DEF WarningDue, e
      <3>3. QED BY <2>9, <3>1, <3>2 DEF DaysLeft, Expired
    <2>11. Watch(p) /\ d \in 1 .. day /\ d # day
      BY <2>2, <2>5, <2>6, <2>9, <2>10
    <2>12. Told(d, WarningLetter(p, e))
      BY <2>1, <2>2, <2>11 DEF WarningsTold, e
    <2>13. QED BY <2>11, <2>12 DEF Told, WarningLetter, Said, e
  <1>2. NoticesInv => Forewarned
    BY <1>1
  <1>3. QED BY <1>2, NoticesAreTold, PTL

----------------------------------------------------------------------------
(* Quotes: the tiers of a distance *)

\* The last and the first of some positions.
LEMMA LastAndFirst ==
    ASSUME NEW n \in Nat, NEW T \in SUBSET (1 .. n), T # {}
    PROVE  /\ \E i \in T : \A j \in T : j <= i
           /\ \E i \in T : \A j \in T : i <= j
  <1> DEFINE Good == {m \in Nat : \A U \in SUBSET (1 .. m) : U # {} =>
                          /\ \E i \in U : \A j \in U : j <= i
                          /\ \E i \in U : \A j \in U : i <= j}
  <1>1. 0 \in Good
    <2>1. \A U \in SUBSET (1 .. 0) : U = {}
      OBVIOUS
    <2>2. QED BY <2>1
  <1>2. ASSUME NEW m \in Good PROVE m + 1 \in Good
    <2>1. SUFFICES ASSUME NEW U \in SUBSET (1 .. m + 1), U # {}
                   PROVE  /\ \E i \in U : \A j \in U : j <= i
                          /\ \E i \in U : \A j \in U : i <= j
      OBVIOUS
    <2> DEFINE W == U \ {m + 1}
    <2>2. W \in SUBSET (1 .. m) /\ \A j \in U : j \in W \/ j = m + 1
      OBVIOUS
    <2>3. CASE W = {}
      <3>1. U = {m + 1}
        BY <2>1, <2>2, <2>3
      <3>2. QED BY <3>1
    <2>4. CASE W # {}
      <3>1. PICK i \in W : \A j \in W : i <= j
        BY <2>2, <2>4
      <3>2. \A j \in U : i <= j
        BY <2>2, <3>1
      <3>3. CASE m + 1 \in U
        <4>1. \A j \in U : j <= m + 1
          OBVIOUS
        <4>2. QED BY <3>1, <3>2, <3>3, <4>1
      <3>4. CASE m + 1 \notin U
        <4>1. W = U
          BY <3>4
        <4>2. QED BY <2>2, <2>4, <4>1
      <3>5. QED BY <3>3, <3>4
    <2>5. QED BY <2>3, <2>4
  <1>3. Good = Nat
    <2>1. Good \in SUBSET Nat
      OBVIOUS
    <2> HIDE DEF Good
    <2>2. QED BY <1>1, <1>2, <2>1, SetOfNaturals
  <1>4. QED BY <1>3

\* What the price mile by mile is defined by, and what the tiers are.
IsUpTo(f, rate, reduction, n) ==
    f = [m \in 0 .. n |->
            IF m = 0 THEN 0 ELSE f[m - 1] + MileRate(rate, reduction, m)]
IsTiered(f, n, reduction) ==
    f = [at \in (0 .. n) \X Int |->
            IF at[1] = 0 THEN 0
            ELSE LET here == Least(at[1], Tier)
                 IN  here * at[2]
                        + f[<<at[1] - here, NextRate(at[2], reduction)>>]]

LEMMA UpToExists ==
    ASSUME NEW rate, NEW reduction, NEW n \in Nat
    PROVE  \E f : IsUpTo(f, rate, reduction, n)
  <1> DEFINE Rate(m) == MileRate(rate, reduction, m)
             Good == {m \in Nat : \E f : IsUpTo(f, rate, reduction, m)}
  <1> HIDE DEF Rate
  <1>1. 0 \in Good
    <2> DEFINE f == [m \in 0 .. 0 |-> 0]
    <2>1. f = [m \in 0 .. 0 |-> IF m = 0 THEN 0 ELSE f[m - 1] + Rate(m)]
      OBVIOUS
    <2> HIDE DEF f
    <2>2. IsUpTo(f, rate, reduction, 0)
      BY <2>1 DEF IsUpTo, Rate
    <2>3. QED BY <2>2
  <1>2. ASSUME NEW m \in Good PROVE m + 1 \in Good
    <2>1. PICK f : IsUpTo(f, rate, reduction, m)
      OBVIOUS
    <2> DEFINE g == [k \in 0 .. m + 1 |->
                        IF k <= m THEN f[k] ELSE f[k - 1] + Rate(k)]
    <2>2. \A k \in 0 .. m : f[k] = IF k = 0 THEN 0 ELSE f[k - 1] + Rate(k)
      BY <2>1 DEF IsUpTo, Rate
    <2>3. \A k \in 0 .. m + 1 : k # 0 => k - 1 \in 0 .. m
      OBVIOUS
    <2>4. \A k \in 0 .. m + 1 : k # 0 => g[k - 1] = f[k - 1]
      BY <2>3
    <2>5. \A k \in 0 .. m + 1 : g[k] = IF k = 0 THEN 0 ELSE f[k - 1] + Rate(k)
      BY <2>2
    <2>6. \A k \in 0 .. m + 1 : g[k] = IF k = 0 THEN 0 ELSE g[k - 1] + Rate(k)
      BY <2>4, <2>5
    <2>7. g = [k \in 0 .. m + 1 |-> g[k]]
      OBVIOUS
    <2> HIDE DEF g
    <2>8. IsUpTo(g, rate, reduction, m + 1)
      BY <2>6, <2>7 DEF IsUpTo, Rate
    <2>9. QED BY <2>8
  <1>3. Good = Nat
    <2>1. Good \in SUBSET Nat
      OBVIOUS
    <2> HIDE DEF Good
    <2>2. QED BY <1>1, <1>2, <2>1, SetOfNaturals
  <1>4. QED BY <1>3

\* The price of a shorter journey is on the way to that of a longer one.
LEMMA UpToAgree ==
    ASSUME NEW rate, NEW reduction, NEW n \in Nat, NEW k \in Nat,
           NEW f, IsUpTo(f, rate, reduction, n),
           NEW g, IsUpTo(g, rate, reduction, k)
    PROVE  \A m \in Nat : m <= n /\ m <= k => f[m] = g[m]
  <1> DEFINE Rate(m) == MileRate(rate, reduction, m)
             Good == {m \in Nat : m <= n /\ m <= k => f[m] = g[m]}
  <1> HIDE DEF Rate
  <1>1. /\ \A m \in 0 .. n : f[m] = IF m = 0 THEN 0 ELSE f[m - 1] + Rate(m)
        /\ \A m \in 0 .. k : g[m] = IF m = 0 THEN 0 ELSE g[m - 1] + Rate(m)
    BY DEF IsUpTo, Rate
  <1>2. 0 \in Good
    BY <1>1
  <1>3. ASSUME NEW m \in Good PROVE m + 1 \in Good
    <2>1. SUFFICES ASSUME m + 1 <= n, m + 1 <= k PROVE f[m + 1] = g[m + 1]
      OBVIOUS
    <2> DEFINE i == m + 1
    <2>2. i \in 0 .. n /\ i \in 0 .. k /\ i # 0 /\ i - 1 = m
      BY <2>1
    <2>3. f[m] = g[m]
      BY <2>1
    <2> HIDE DEF i
    <2>4. f[i] = f[i - 1] + Rate(i) /\ g[i] = g[i - 1] + Rate(i)
      BY <1>1, <2>2
    <2>5. f[i] = g[i]
      BY <2>2, <2>3, <2>4
    <2>6. QED BY <2>5 DEF i
  <1>4. Good = Nat
    <2>1. Good \in SUBSET Nat
      OBVIOUS
    <2> HIDE DEF Good
    <2>2. QED BY <1>2, <1>3, <2>1, SetOfNaturals
  <1>5. QED BY <1>4

\* The price mile by mile: what one mile more costs.
LEMMA PerMileSteps ==
    ASSUME NEW rate, NEW reduction, NEW n \in Nat
    PROVE  /\ PerMile(rate, reduction, 0) = 0
           /\ PerMile(rate, reduction, n + 1)
                = PerMile(rate, reduction, n) + MileRate(rate, reduction, n + 1)
  <1> DEFINE It(k) == CHOOSE f : IsUpTo(f, rate, reduction, k)
  <1>1. \A k : PerMile(rate, reduction, k) = It(k)[k]
    BY Zenon DEF PerMile, IsUpTo
  <1>2. \A k \in Nat : IsUpTo(It(k), rate, reduction, k)
    BY UpToExists
  <1> HIDE DEF It
  <1>3. It(0)[0] = 0
    <2>1. IsUpTo(It(0), rate, reduction, 0)
      BY <1>2
    <2>2. QED BY <2>1 DEF IsUpTo
  <1>4. It(n + 1)[n + 1] = It(n)[n] + MileRate(rate, reduction, n + 1)
    <2> DEFINE k == n + 1
               f == It(k)
               g == It(n)
    <2>1. k \in Nat /\ k - 1 = n /\ n <= k /\ k \in 0 .. k /\ k # 0
      OBVIOUS
    <2>2. IsUpTo(f, rate, reduction, k) /\ IsUpTo(g, rate, reduction, n)
      BY <1>2, <2>1
    <2> HIDE DEF k, f, g
    <2>3. f[k] = f[k - 1] + MileRate(rate, reduction, k)
      <3> HIDE DEF MileRate
      <3>1. QED BY <2>1, <2>2 DEF IsUpTo
    <2>4. f[n] = g[n]
      BY <2>1, <2>2, UpToAgree
    <2>5. f[k] = g[n] + MileRate(rate, reduction, k)
      BY <2>1, <2>3, <2>4
    <2>6. QED BY <2>5 DEF k, f, g
  <1>5. QED BY <1>1, <1>3, <1>4

\* The rates are numbers, and positive when the first is.
LEMMA RateType ==
    ASSUME NEW rate \in Int, NEW reduction \in Nat, NEW m \in Nat \ {0}
    PROVE  /\ MileRate(rate, reduction, m) \in Int
           /\ 0 < rate => 0 < MileRate(rate, reduction, m)
           /\ NextRate(rate, reduction) \in Int
           /\ m <= Tier => MileRate(rate, reduction, m) = rate
  <1>1. Tier \in Nat \ {0}
    BY QuotesAssumption DEF QuotesAssumption
  <1> DEFINE k == (m - 1) \div Tier
             d == reduction * k
  <1>2. k \in Nat
    BY <1>1
  <1> HIDE DEF k
  <1>3. d \in Int
    BY <1>2
  <1>4. MileRate(rate, reduction, m)
            = IF m <= Tier THEN rate ELSE Most(Pence(1), rate - d)
    BY DEF MileRate, k
  <1> HIDE DEF d
  <1>5. /\ Most(Pence(1), rate - d) \in Int
        /\ 0 < Most(Pence(1), rate - d)
    BY <1>3 DEF Most, Pence, Penny
  <1>6. NextRate(rate, reduction) \in Int
    BY DEF NextRate, Most, Pence, Penny
  <1>7. QED BY <1>4, <1>5, <1>6

\* A mile of the next hundred has the rate of the mile a hundred before it,
\* seen from the next rate.
LEMMA NextTier ==
    ASSUME NEW rate \in Int, NEW reduction \in Nat, NEW m \in Nat \ {0}
    PROVE  MileRate(NextRate(rate, reduction), reduction, m)
             = MileRate(rate, reduction, m + Tier)
  <1>1. Tier \in Nat \ {0}
    BY QuotesAssumption DEF QuotesAssumption
  <1> DEFINE k == (m - 1) \div Tier
             l == (m + Tier - 1) \div Tier
             one == Pence(1)
  <1>2. k \in Nat
    BY <1>1
  <1>3. l = k + 1
    <2> DEFINE x == m - 1
    <2>1. x \in Nat /\ m + Tier - 1 = x + Tier
      BY <1>1
    <2> HIDE DEF x
    <2>2. (x + Tier) \div Tier = (x \div Tier) + 1
      BY <1>1, <2>1
    <2>3. QED BY <2>1, <2>2 DEF x
  <1>4. m <= Tier => k = 0
    BY <1>1
  <1>5. m > Tier => k # 0
    BY <1>1
  <1>6. MileRate(rate, reduction, m + Tier) = Most(one, rate - reduction * l)
    BY <1>1 DEF MileRate
  <1>7. MileRate(NextRate(rate, reduction), reduction, m)
            = IF m <= Tier THEN Most(one, rate - reduction)
              ELSE Most(one, Most(one, rate - reduction) - reduction * k)
    BY DEF MileRate, NextRate
  <1>8. one \in Int
    BY DEF Pence, Penny
  <1> HIDE DEF k, l, one
  <1>9. reduction * l = reduction * k + reduction /\ reduction * k \in Nat
    BY <1>2, <1>3
  <1> DEFINE p == reduction * k
  <1> HIDE DEF p
  <1>10. Most(one, Most(one, rate - reduction) - p) = Most(one, rate - (p + reduction))
    BY <1>8, <1>9 DEF Most, p
  <1>11. k = 0 => p = 0
    BY DEF p
  <1>12. CASE m <= Tier
    <2>1. reduction * l = reduction
      BY <1>4, <1>9, <1>11, <1>12 DEF p
    <2>2. QED BY <1>6, <1>7, <1>12, <2>1
  <1>13. CASE ~(m <= Tier)
    BY <1>6, <1>7, <1>9, <1>10, <1>13 DEF p
  <1>14. QED BY <1>12, <1>13

\* The first hundred miles at the first rate, the others from the next rate on.
LEMMA PerMileSplits ==
    ASSUME NEW rate \in Int, NEW reduction \in Nat
    PROVE  /\ \A m \in Nat : PerMile(rate, reduction, m) \in Int
           /\ \A m \in Nat : m <= Tier => PerMile(rate, reduction, m) = m * rate
           /\ \A m \in Nat :
                PerMile(rate, reduction, Tier + m)
                  = Tier * rate + PerMile(NextRate(rate, reduction), reduction, m)
  <1> DEFINE P(m) == PerMile(rate, reduction, m)
             next == NextRate(rate, reduction)
             Q(m) == PerMile(next, reduction, m)
             R(m) == MileRate(rate, reduction, m)
             Good == {m \in Nat : /\ P(m) \in Int /\ Q(m) \in Int
                                  /\ m <= Tier => P(m) = m * rate
                                  /\ P(Tier + m) = Tier * rate + Q(m)}
             Begin == {m \in Nat : P(m) \in Int /\ (m <= Tier => P(m) = m * rate)}
  <1>1. Tier \in Nat \ {0} /\ next \in Int
    BY QuotesAssumption, RateType DEF QuotesAssumption
  <1>2. P(0) = 0 /\ Q(0) = 0
    BY PerMileSteps
  <1>3. \A m \in Nat : P(m + 1) = P(m) + R(m + 1)
    BY PerMileSteps
  <1>4. \A m \in Nat : Q(m + 1) = Q(m) + R(m + 1 + Tier)
    <2>1. \A m \in Nat : Q(m + 1) = Q(m) + MileRate(next, reduction, m + 1)
      BY PerMileSteps
    <2>2. ASSUME NEW m \in Nat
          PROVE  MileRate(next, reduction, m + 1) = R(m + 1 + Tier)
      <3> DEFINE k == m + 1
      <3>1. k \in Nat \ {0}
        OBVIOUS
      <3> HIDE DEF k
      <3>2. MileRate(next, reduction, k) = R(k + Tier)
        BY <3>1, NextTier
      <3>3. QED BY <3>2 DEF k
    <2>3. QED BY <2>1, <2>2
  <1>5. \A m \in Nat \ {0} : R(m) \in Int /\ (m <= Tier => R(m) = rate)
    BY RateType
  <1> HIDE DEF P, Q, R, next
  <1>6. Begin = Nat
    <2>1. 0 \in Begin
      BY <1>2
    <2>2. ASSUME NEW m \in Begin PROVE m + 1 \in Begin
      <3>1. P(m + 1) = P(m) + R(m + 1) /\ R(m + 1) \in Int
        BY <1>3, <1>5
      <3>2. ASSUME m + 1 <= Tier PROVE P(m + 1) = (m + 1) * rate
        <4>1. R(m + 1) = rate /\ P(m) = m * rate
          BY <1>1, <1>5, <3>2
        <4>2. (m + 1) * rate = m * rate + rate
          OBVIOUS
        <4>3. QED BY <3>1, <4>1, <4>2
      <3>3. QED BY <3>1, <3>2
    <2>3. Begin \in SUBSET Nat
      OBVIOUS
    <2> HIDE DEF Begin
    <2>4. QED BY <2>1, <2>2, <2>3, SetOfNaturals
  <1>7. \A m \in Nat : P(m) \in Int /\ (m <= Tier => P(m) = m * rate)
    BY <1>6
  <1>8. P(Tier) = Tier * rate
    BY <1>1, <1>7
  <1>9. Good = Nat
    <2>1. 0 \in Good
      <3>1. Tier + 0 = Tier /\ Tier * rate \in Int
        BY <1>1
      <3>2. QED BY <1>2, <1>7, <1>8, <3>1
    <2>2. ASSUME NEW m \in Good PROVE m + 1 \in Good
      <3> DEFINE k == Tier + m
                 r == R(k + 1)
      <3>1. /\ k \in Nat /\ k + 1 \in Nat \ {0}
            /\ Tier + (m + 1) = k + 1 /\ m + 1 + Tier = k + 1
        BY <1>1
      <3>2. r \in Int
        BY <1>5, <3>1
      <3>3. P(k + 1) = P(k) + r
        BY <1>3, <3>1
      <3>4. Q(m + 1) = Q(m) + r
        BY <1>4, <3>1
      <3>5. P(k) = Tier * rate + Q(m) /\ Q(m) \in Int /\ Tier * rate \in Int
        BY <1>1
      <3>6. P(Tier + (m + 1)) = P(k + 1)
        BY <3>1
      <3> HIDE DEF k, r
      <3>7. P(Tier + (m + 1)) = Tier * rate + Q(m + 1) /\ Q(m + 1) \in Int
        <4> DEFINE t == Tier * rate
        <4> HIDE DEF t
        <4>1. P(k + 1) = t + Q(m) + r /\ t \in Int
          BY <3>3, <3>5 DEF t
        <4>2. QED BY <3>2, <3>4, <3>5, <3>6, <4>1 DEF t
      <3>8. QED BY <1>7, <3>7
    <2>3. Good \in SUBSET Nat
      OBVIOUS
    <2> HIDE DEF Good
    <2>4. QED BY <2>1, <2>2, <2>3, SetOfNaturals
  <1>10. QED BY <1>7, <1>9 DEF P, Q, next

\* What is left after the first hundred miles.
LEMMA PerMileRest ==
    ASSUME NEW rate \in Int, NEW reduction \in Nat, NEW m \in Nat, m # 0
    PROVE  LET here == Least(m, Tier)
           IN  /\ here \in 1 .. m
               /\ PerMile(rate, reduction, m)
                    = here * rate
                        + PerMile(NextRate(rate, reduction), reduction, m - here)
  <1>1. Tier \in Nat \ {0}
    BY QuotesAssumption DEF QuotesAssumption
  <1>2. NextRate(rate, reduction) \in Int
    BY <1>1, RateType
  <1>3. CASE m <= Tier
    <2>1. Least(m, Tier) = m /\ m - m = 0
      BY <1>1, <1>3 DEF Least
    <2>2. PerMile(NextRate(rate, reduction), reduction, 0) = 0
      BY PerMileSteps
    <2>3. PerMile(rate, reduction, m) = m * rate /\ m * rate \in Int
      BY <1>3, PerMileSplits
    <2>4. QED BY <2>1, <2>2, <2>3
  <1>4. CASE ~(m <= Tier)
    <2> DEFINE k == m - Tier
    <2>1. k \in Nat /\ m = Tier + k /\ Least(m, Tier) = Tier /\ Tier \in 1 .. m
      BY <1>1, <1>4 DEF Least
    <2> HIDE DEF k
    <2>2. PerMile(rate, reduction, Tier + k)
            = Tier * rate + PerMile(NextRate(rate, reduction), reduction, k)
      BY <2>1, PerMileSplits
    <2>3. m - Tier = k
      BY DEF k
    <2>4. QED BY <2>1, <2>2, <2>3
  <1>5. QED BY <1>3, <1>4

\* The tiers charge what the miles cost one by one.
LEMMA TieredPerMile ==
    ASSUME NEW n \in Nat, NEW rate \in Int, NEW reduction \in Nat
    PROVE  Tiered(n, rate, reduction) = PerMile(rate, reduction, n)
  <1> DEFINE P(r, m) == PerMile(r, reduction, m)
             N(r) == NextRate(r, reduction)
             f == CHOOSE f : IsTiered(f, n, reduction)
  <1>1. Tier \in Nat \ {0}
    BY QuotesAssumption DEF QuotesAssumption
  <1>2. Tiered(n, rate, reduction) = f[<<n, rate>>]
    BY Zenon DEF Tiered, IsTiered
  <1>3. \A r \in Int : N(r) \in Int
    BY RateType
  <1>4. \A r \in Int, m \in Nat : m # 0 =>
            /\ Least(m, Tier) \in 1 .. m
            /\ P(r, m) = Least(m, Tier) * r + P(N(r), m - Least(m, Tier))
    BY PerMileRest
  <1>5. \A r \in Int : P(r, 0) = 0
    BY PerMileSteps
  <1>6. \A m \in Nat : m # 0 => Least(m, Tier) \in 1 .. m
    BY <1>1 DEF Least
  <1>7. IsTiered(f, n, reduction)
    <2> DEFINE g == [at \in (0 .. n) \X Int |-> P(at[2], at[1])]
    <2>1. ASSUME NEW at \in (0 .. n) \X Int
          PROVE  g[at] = IF at[1] = 0 THEN 0
                         ELSE LET here == Least(at[1], Tier)
                              IN  here * at[2] + g[<<at[1] - here, N(at[2])>>]
      <3>1. at[1] \in 0 .. n /\ at[2] \in Int /\ g[at] = P(at[2], at[1])
        OBVIOUS
      <3>2. CASE at[1] = 0
        BY <1>5, <3>1, <3>2
      <3>3. CASE at[1] # 0
        <4> DEFINE here == Least(at[1], Tier)
                   to == <<at[1] - here, N(at[2])>>
        <4>1. here \in 1 .. at[1]
          <5>1. at[1] \in Nat
            BY <3>1
          <5>2. QED BY <1>6, <3>3, <5>1
        <4>2. N(at[2]) \in Int
          BY <1>3, <3>1
        <4> HIDE DEF here, N
        <4>3. to \in (0 .. n) \X Int
          BY <3>1, <4>1, <4>2
        <4>4. g[to] = P(N(at[2]), at[1] - here)
          BY <4>3
        <4> HIDE DEF g, P
        <4>5. P(at[2], at[1]) = here * at[2] + P(N(at[2]), at[1] - here)
          BY <1>4, <3>1, <3>3 DEF here
        <4>6. g[at] = here * at[2] + g[to]
          BY <3>1, <4>4, <4>5
        <4>7. QED BY <3>3, <4>6 DEF here
      <3>4. QED BY <3>2, <3>3
    <2>2. g = [at \in (0 .. n) \X Int |-> g[at]]
      OBVIOUS
    <2> HIDE DEF g
    <2>3. IsTiered(g, n, reduction)
      BY <2>1, <2>2 DEF IsTiered, N
    <2>4. QED BY <2>3
  <1> HIDE DEF f, P, N
  <1>8. \A m \in 0 .. n, r \in Int :
            f[<<m, r>>] = IF m = 0 THEN 0
                          ELSE Least(m, Tier) * r + f[<<m - Least(m, Tier), N(r)>>]
    BY <1>7 DEF IsTiered, N
  <1> DEFINE Right(m) == \A k \in 0 .. m, r \in Int :
                             k <= n => f[<<k, r>>] = P(r, k)
             Good == {m \in Nat : Right(m)}
  <1> HIDE DEF Right
  <1>9. \A r \in Int : f[<<0, r>>] = P(r, 0)
    <2>1. 0 \in 0 .. n
      OBVIOUS
    <2>2. QED BY <1>5, <1>8, <2>1
  <1>10. 0 \in Good
    <2>1. \A k \in 0 .. 0 : k = 0
      OBVIOUS
    <2>2. Right(0)
      BY <1>9, <2>1 DEF Right
    <2>3. QED BY <2>2
  <1>11. ASSUME NEW m \in Good PROVE m + 1 \in Good
    <2>0. \A k \in 0 .. m, r \in Int : k <= n => f[<<k, r>>] = P(r, k)
      BY DEF Right
    <2>1. SUFFICES ASSUME NEW k \in 0 .. m + 1, NEW r \in Int, k <= n
                   PROVE  f[<<k, r>>] = P(r, k)
      BY DEF Right
    <2>2. CASE k = 0
      BY <1>9, <2>2
    <2>3. CASE k # 0
      <3> DEFINE here == Least(k, Tier)
                 s == N(r)
      <3>1. here \in 1 .. k /\ P(r, k) = here * r + P(s, k - here)
        BY <1>4, <2>3
      <3>2. f[<<k, r>>] = here * r + f[<<k - here, s>>]
        BY <1>8, <2>1, <2>3
      <3>3. s \in Int
        BY <1>3
      <3> HIDE DEF here, s
      <3>4. k - here \in 0 .. m /\ k - here <= n
        BY <2>1, <3>1
      <3>5. f[<<k - here, s>>] = P(s, k - here)
        BY <2>0, <3>3, <3>4
      <3>6. QED BY <3>1, <3>2, <3>5
    <2>4. QED BY <2>2, <2>3
  <1>12. Good = Nat
    <2>1. Good \in SUBSET Nat
      OBVIOUS
    <2> HIDE DEF Good
    <2>2. QED BY <1>10, <1>11, <2>1, SetOfNaturals
  <1>13. f[<<n, rate>>] = P(rate, n)
    <2>1. n \in Good /\ n \in 0 .. n
      BY <1>12
    <2>2. QED BY <2>1 DEF Right
  <1>14. QED BY <1>2, <1>13 DEF P

\* One mile more costs more.
LEMMA LongerTiered ==
    ASSUME NEW n \in Nat, NEW rate \in Int, NEW reduction \in Nat, 0 < rate
    PROVE  /\ Tiered(n, rate, reduction) \in Int
           /\ Tiered(n, rate, reduction) < Tiered(n + 1, rate, reduction)
  <1> DEFINE k == n + 1
  <1>1. k \in Nat \ {0}
    OBVIOUS
  <1>2. PerMile(rate, reduction, k)
          = PerMile(rate, reduction, n) + MileRate(rate, reduction, k)
    BY PerMileSteps
  <1> HIDE DEF k
  <1>3. MileRate(rate, reduction, k) \in Int /\ 0 < MileRate(rate, reduction, k)
    BY <1>1, RateType
  <1>4. PerMile(rate, reduction, n) \in Int
    BY PerMileSplits
  <1>5. /\ Tiered(n, rate, reduction) = PerMile(rate, reduction, n)
        /\ Tiered(k, rate, reduction) = PerMile(rate, reduction, k)
    BY <1>1, TieredPerMile
  <1>6. QED BY <1>2, <1>3, <1>4, <1>5 DEF k

----------------------------------------------------------------------------
(* Quotes: the tariff *)

\* What bulk updates set.
Wishes == UNION {{u[i] : i \in DOMAIN u} : u \in Updates}

TariffType ==
    /\ rules \in Seq(RuleRows)
    /\ settings = [k \in Keys |-> settings[k]]
    /\ asked = [k \in Keys |-> asked[k]]
    /\ \A k \in Keys : Sensible(k[1], settings[k])
    /\ capacities \in [VehicleTypes -> Capacities]
    /\ mixed \in BOOLEAN
    /\ updating = [a \in Admins |-> updating[a]]
    /\ \A a \in Admins : updating[a] \in Seq(Wishes)

\* Bulk updates that do not run together bring the settings to what was asked.
UpdatesLead ==
    ~mixed =>
        /\ \A a, b \in Admins : updating[a] # <<>> /\ updating[b] # <<>> => a = b
        /\ \A a \in Admins : updating[a] # <<>> => asked = AfterUpdate(settings, updating[a])
        /\ (\A a \in Admins : updating[a] = <<>>) => settings = asked

TariffInv == TariffType /\ UpdatesLead

\* The updates of sensible values.
LEMMA WishesType ==
    /\ \A u \in Updates : u \in Seq(Wishes)
    /\ \A z \in Wishes : z[1] \in Keys => Sensible(z[1][1], z[2])
  <1>1. ASSUME NEW u \in Updates PROVE u \in Seq(Wishes)
    <2> DEFINE S == {u[i] : i \in DOMAIN u}
    <2>1. u \in Seq(S)
      BY TariffAssumption DEF TariffAssumption
    <2>2. S \subseteq Wishes
      BY DEF Wishes
    <2> HIDE DEF S
    <2>3. /\ Len(u) \in Nat /\ DOMAIN u = 1 .. Len(u)
          /\ \A i \in 1 .. Len(u) : u[i] \in Wishes
          /\ u = [i \in 1 .. Len(u) |-> u[i]]
      BY <2>1, <2>2, LenProperties, ElementOfSeq
    <2>4. [i \in 1 .. Len(u) |-> u[i]] \in Seq(Wishes)
      <3> HIDE DEF Wishes
      <3>1. QED BY <2>3
    <2>5. QED BY <2>3, <2>4
  <1>2. ASSUME NEW z \in Wishes, z[1] \in Keys PROVE Sensible(z[1][1], z[2])
    <2>1. PICK u \in Updates : \E i \in DOMAIN u : z = u[i]
      BY DEF Wishes
    <2>2. PICK i \in DOMAIN u : z = u[i]
      BY <2>1
    <2>3. u[i][1] \in Keys => Sensible(u[i][1][1], u[i][2])
      BY TariffAssumption DEF TariffAssumption
    <2>4. QED BY <1>2, <2>2, <2>3
  <1>3. QED BY <1>1, <1>2

\* The first of some steps of an update done, the rest leads to the same.
LEMMA UpdateStep ==
    ASSUME NEW S, NEW u \in Seq(S), u # <<>>, u[1][1] \in Keys,
           NEW s, s = [k \in Keys |-> s[k]]
    PROVE  AfterUpdate([s EXCEPT ![u[1][1]] = u[1][2]], Tail(u)) = AfterUpdate(s, u)
  <1> DEFINE n == Len(u)
             t == Tail(u)
             r == [s EXCEPT ![u[1][1]] = u[1][2]]
  <1>1. /\ n \in Nat \ {0} /\ DOMAIN u = 1 .. n /\ DOMAIN t = 1 .. n - 1
        /\ \A i \in 1 .. n - 1 : t[i] = u[i + 1]
    BY EmptySeq, LenProperties, HeadTailProperties
  <1>2. \A k \in Keys : r[k] = IF k = u[1][1] THEN u[1][2] ELSE s[k]
    OBVIOUS
  <1> HIDE DEF n, t, r
  <1>3. ASSUME NEW k \in Keys PROVE AfterUpdate(r, t)[k] = AfterUpdate(s, u)[k]
    <2> DEFINE A == {i \in DOMAIN u : u[i][1] = k}
               B == {i \in DOMAIN t : t[i][1] = k}
               a == CHOOSE i \in A : \A j \in A : j <= i
               b == CHOOSE i \in B : \A j \in B : j <= i
    <2>1. /\ AfterUpdate(s, u)[k] = IF A = {} THEN s[k] ELSE u[a][2]
          /\ AfterUpdate(r, t)[k] = IF B = {} THEN r[k] ELSE t[b][2]
      BY DEF AfterUpdate
    <2>2. \A i \in B : i + 1 \in A
      BY <1>1
    <2>3. ASSUME NEW i \in A, i # 1 PROVE i - 1 \in B
      <3> DEFINE j == i - 1
      <3>1. j \in 1 .. n - 1 /\ j + 1 = i
        BY <1>1, <2>3
      <3> HIDE DEF j
      <3>2. t[j] = u[i]
        BY <1>1, <3>1
      <3>3. j \in B
        BY <1>1, <3>1, <3>2
      <3>4. QED BY <3>3 DEF j
    <2>4. A \in SUBSET (1 .. n) /\ B \in SUBSET (1 .. n - 1) /\ n - 1 \in Nat
      BY <1>1
    <2>5. 1 \in A <=> u[1][1] = k
      BY <1>1
    <2> HIDE DEF A, B
    <2>6. A # {} => a \in A /\ \A j \in A : j <= a
      BY <1>1, <2>4, LastAndFirst
    <2>7. B # {} => b \in B /\ \A j \in B : j <= b
      BY <2>4, LastAndFirst
    <2> HIDE DEF a, b
    <2>8. CASE B = {}
      <3>1. \A i \in A : i = 1
        BY <2>3, <2>8
      <3>2. CASE A = {}
        BY <1>2, <2>1, <2>5, <2>8, <3>2
      <3>3. CASE A # {}
        <4>1. a = 1 /\ u[1][1] = k
          BY <2>5, <2>6, <3>1, <3>3
        <4>2. QED BY <1>2, <2>1, <2>8, <3>3, <4>1
      <3>4. QED BY <3>2, <3>3
    <2>9. CASE B # {}
      <3>1. b + 1 \in A /\ b \in 1 .. n - 1
        BY <2>2, <2>4, <2>7, <2>9
      <3>2. A # {} /\ a \in 1 .. n /\ a \in A /\ b + 1 <= a
        BY <2>4, <2>6, <3>1
      <3>3. a # 1
        BY <3>1, <3>2
      <3>4. a - 1 \in B
        BY <2>3, <3>2, <3>3
      <3>5. a - 1 <= b
        BY <2>7, <2>9, <3>4
      <3>6. a = b + 1
        BY <3>1, <3>2, <3>5
      <3>7. t[b] = u[b + 1]
        BY <1>1, <3>1
      <3>8. QED BY <2>1, <2>9, <3>2, <3>6, <3>7
    <2>10. QED BY <2>8, <2>9
  <1>4. QED BY <1>3 DEF AfterUpdate, r, t

\* Nothing left to do leads to what there is.
LEMMA UpdateDone ==
    ASSUME NEW s, s = [k \in Keys |-> s[k]]
    PROVE  AfterUpdate(s, <<>>) = s
  <1>1. DOMAIN <<>> = {}
    OBVIOUS
  <1>2. QED BY <1>1 DEF AfterUpdate

\* A row taken out leaves rows.
LEMMA WithoutType ==
    ASSUME NEW S, NEW s \in Seq(S), NEW i \in DOMAIN s
    PROVE  Without(s, i) \in Seq(S)
  <1>1. Len(s) \in Nat /\ DOMAIN s = 1 .. Len(s)
    BY LenProperties
  <1> DEFINE t == SubSeq(s, 1, i - 1)
             u == SubSeq(s, i + 1, Len(s))
  <1>2. t \in Seq(S)
    <2>1. \A j \in 1 .. i - 1 : j \in DOMAIN s
      BY <1>1
    <2>2. QED BY <1>1, <2>1, SubSeqProperties
  <1>3. u \in Seq(S)
    <2>1. \A j \in i + 1 .. Len(s) : j \in DOMAIN s
      BY <1>1
    <2>2. QED BY <1>1, <2>1, SubSeqProperties
  <1>4. Without(s, i) = t \o u
    BY DEF Without
  <1> HIDE DEF t, u
  <1>5. QED BY <1>2, <1>3, <1>4, ConcatProperties

\* The tariff keeps its type, and updates lead to what was asked.
LEMMA TariffKept ==
    ASSUME TariffInv, [QuotesNext]_quoteVars PROVE TariffInv'
  <1>1. TariffType /\ UpdatesLead
    BY DEF TariffInv
  <1> USE <1>1
  <1>2. ASSUME UNCHANGED <<settings, updateVars>>,
               rules' \in Seq(RuleRows), capacities' \in [VehicleTypes -> Capacities]
        PROVE  TariffInv'
    BY <1>2 DEF TariffInv, TariffType, UpdatesLead, updateVars
  <1>3. rules \in Seq(RuleRows) /\ capacities \in [VehicleTypes -> Capacities]
    BY DEF TariffType
  <1>4. CASE UNCHANGED quoteVars
    BY <1>2, <1>3, <1>4 DEF quoteVars, tariffVars
  <1>5. ASSUME NEW row \in RuleRows, CreatePricingRule(row) PROVE TariffInv'
    <2>1. rules' \in Seq(RuleRows)
      BY <1>3, <1>5, AppendProperties DEF CreatePricingRule
    <2>2. QED BY <1>2, <1>3, <1>5, <2>1 DEF CreatePricingRule
  <1>6. ASSUME NEW i \in DOMAIN rules, DeletePricingRule(i) PROVE TariffInv'
    <2>1. rules' \in Seq(RuleRows)
      BY <1>3, <1>6, WithoutType DEF DeletePricingRule
    <2>2. QED BY <1>2, <1>3, <1>6, <2>1 DEF DeletePricingRule
  <1>7. ASSUME NEW i \in DOMAIN rules, NEW row \in RuleRows, UpdatePricingRule(i, row)
        PROVE  TariffInv'
    <2>1. [rules EXCEPT ![i] = row] \in Seq(RuleRows)
      BY <1>3, ExceptSeq
    <2>2. Append(Without(rules, i), row) \in Seq(RuleRows)
      BY <1>3, WithoutType, AppendProperties
    <2>3. rules' \in Seq(RuleRows)
      BY <1>7, <2>1, <2>2 DEF UpdatePricingRule
    <2>4. QED BY <1>2, <1>3, <1>7, <2>3 DEF UpdatePricingRule
  <1>8. ASSUME NEW v \in VehicleTypes, NEW row \in Capacities,
               UpdateVehicleCapacity(v, row)
        PROVE  TariffInv'
    <2>1. capacities' \in [VehicleTypes -> Capacities]
      BY <1>3, <1>8 DEF UpdateVehicleCapacity
    <2>2. QED BY <1>2, <1>3, <1>8, <2>1 DEF UpdateVehicleCapacity
  <1>9. ASSUME NEW a \in Admins, NEW u \in Updates, BulkUpdateSettings(a, u)
        PROVE  TariffInv'
    <2>1. /\ updating[a] = <<>>
          /\ updating' = [b \in Admins |-> IF b = a THEN u ELSE updating[b]]
          /\ asked' = AfterUpdate(asked, u)
          /\ mixed' = (mixed \/ \E b \in Admins : updating[b] # <<>>)
          /\ rules' = rules /\ settings' = settings /\ capacities' = capacities
      BY <1>9 DEF BulkUpdateSettings, tariffVars, TariffType
    <2>2. asked' = [k \in Keys |-> asked'[k]]
      BY <2>1 DEF AfterUpdate
    <2>3. \A b \in Admins : updating'[b] \in Seq(Wishes)
      BY <2>1, WishesType DEF TariffType
    <2>4. TariffType'
      BY <2>1, <2>2, <2>3 DEF TariffType
    <2>5. ASSUME ~mixed' PROVE /\ settings = asked
                               /\ \A b \in Admins : updating[b] = <<>>
      BY <2>1, <2>5 DEF UpdatesLead
    <2>6. u = <<>> => AfterUpdate(asked, u) = asked
      BY UpdateDone DEF TariffType
    <2>7. UpdatesLead'
      BY <2>1, <2>5, <2>6 DEF UpdatesLead
    <2>8. QED BY <2>4, <2>7 DEF TariffInv
  <1>10. ASSUME NEW a \in Admins, UpdateSetting(a) PROVE TariffInv'
    <2> DEFINE u == updating[a]
    <2>1. /\ u # <<>> /\ u \in Seq(Wishes) /\ Head(u) = u[1] /\ u[1] \in Wishes
          /\ Tail(u) \in Seq(Wishes)
      <3>1. u # <<>> /\ u \in Seq(Wishes)
        BY <1>10 DEF UpdateSetting, TariffType
      <3> HIDE DEF u, Wishes
      <3>2. QED BY <3>1, HeadTailProperties, EmptySeq, LenProperties
    <2>2. /\ u[1][1] \in Keys
          /\ settings' = [settings EXCEPT ![u[1][1]] = u[1][2]]
          /\ updating' = [b \in Admins |-> IF b = a THEN Tail(u) ELSE updating[b]]
          /\ asked' = asked /\ mixed' = mixed
          /\ rules' = rules /\ capacities' = capacities
      BY <1>10, <2>1 DEF UpdateSetting, TariffType
    <2>3. settings' = [k \in Keys |-> IF k = u[1][1] THEN u[1][2] ELSE settings[k]]
      BY <2>2 DEF TariffType
    <2>4. Sensible(u[1][1][1], u[1][2])
      BY <2>1, <2>2, WishesType
    <2>5. \A k \in Keys : Sensible(k[1], settings'[k])
      BY <2>3, <2>4 DEF TariffType
    <2>6. TariffType'
      BY <2>1, <2>2, <2>3, <2>5 DEF TariffType
    <2>7. AfterUpdate(settings', Tail(u)) = AfterUpdate(settings, u)
      BY <2>1, <2>2, UpdateStep DEF TariffType
    <2>8. settings' = [k \in Keys |-> settings'[k]]
      BY <2>3
    <2>9. AfterUpdate(settings', <<>>) = settings'
      <3>1. PICK s : s = settings'
        OBVIOUS
      <3>2. AfterUpdate(s, <<>>) = s
        BY <2>8, <3>1, UpdateDone
      <3>3. QED BY <3>1, <3>2
    <2>10. ASSUME ~mixed
           PROVE  /\ asked = AfterUpdate(settings', Tail(u))
                  /\ \A b \in Admins : b # a => updating[b] = <<>>
      BY <2>1, <2>7, <2>10 DEF UpdatesLead
    <2> HIDE DEF u
    <2>11. UpdatesLead'
      BY <2>2, <2>9, <2>10 DEF UpdatesLead
    <2>12. QED BY <2>6, <2>11 DEF TariffInv
  <1>11. ASSUME NEW a \in Admins, SettingNotFound(a) PROVE TariffInv'
    <2>1. /\ updating' = [b \in Admins |-> IF b = a THEN <<>> ELSE updating[b]]
          /\ mixed' = TRUE /\ asked' = asked
          /\ rules' = rules /\ settings' = settings /\ capacities' = capacities
      BY <1>11 DEF SettingNotFound, tariffVars, TariffType
    <2>2. <<>> \in Seq(Wishes)
      BY EmptySeq
    <2>3. TariffType'
      BY <2>1, <2>2 DEF TariffType
    <2>4. UpdatesLead'
      BY <2>1 DEF UpdatesLead
    <2>5. QED BY <2>3, <2>4 DEF TariffInv
  <1>12. ASSUME GetQuote \/ \E b \in Bookings : Book(b) \/ Progress(b)
         PROVE  TariffInv'
    <2>1. UNCHANGED <<tariffVars, updateVars>>
      BY <1>12 DEF GetQuote, Book, Progress
    <2>2. QED BY <1>2, <1>3, <2>1 DEF tariffVars
  <1>13. QED
    BY <1>4, <1>5, <1>6, <1>7, <1>8, <1>9, <1>10, <1>11, <1>12 DEF QuotesNext

LEMMA TariffStarts ==
    ASSUME QuotesInit PROVE TariffInv
  <1>1. /\ rules = SeedRules /\ settings = Seed /\ asked = Seed
        /\ capacities \in [VehicleTypes -> Capacities]
        /\ mixed = FALSE /\ updating = [a \in Admins |-> <<>>]
    BY DEF QuotesInit
  <1>2. TariffType
    BY <1>1, EmptySeq, TariffAssumption DEF TariffAssumption, TariffType
  <1>3. UpdatesLead
    BY <1>1 DEF UpdatesLead
  <1>4. QED BY <1>2, <1>3 DEF TariffInv

----------------------------------------------------------------------------
(* Quotes: prices *)

\* A price of the tariff is what a price of its type may be.
LEMMA ValueType ==
    ASSUME TariffType, NEW t, NEW v, Key(t, v) \in Keys
    PROVE  Sensible(t, Value(t, v)) /\ Sensible(t, settings[Key(t, v)])
  <1> DEFINE found == Active(t, v)
             i == CHOOSE i \in found : \A j \in found : i <= j
  <1>1. Key(t, v)[1] = t
    BY DEF Key
  <1>2. Sensible(t, settings[Key(t, v)])
    BY <1>1 DEF TariffType
  <1>3. rules \in Seq(RuleRows)
    BY DEF TariffType
  <1>4. Len(rules) \in Nat /\ DOMAIN rules = 1 .. Len(rules)
    BY <1>3, LenProperties
  <1>5. CASE found = {}
    BY <1>2, <1>5 DEF Value
  <1>6. CASE found # {}
    <2>1. found \in SUBSET (1 .. Len(rules))
      BY <1>4 DEF Active
    <2>2. \E k \in found : \A j \in found : k <= j
      BY <1>4, <1>6, <2>1, LastAndFirst
    <2>3. i \in found
      <3> HIDE DEF found
      <3>1. QED BY <2>2
    <2>4. Value(t, v) = rules[i].value
      BY <1>6 DEF Value
    <2>5. i \in DOMAIN rules /\ rules[i].key[1] = t
      <3> HIDE DEF i
      <3>1. QED BY <2>3 DEF Active
    <2> HIDE DEF i
    <2>6. rules[i] \in RuleRows
      BY <1>3, <2>5
    <2>7. Sensible(rules[i].key[1], rules[i].value)
      BY <2>6, TariffAssumption DEF TariffAssumption
    <2>8. QED BY <1>2, <2>4, <2>5, <2>7
  <1>7. QED BY <1>5, <1>6

\* The prices that fares are made of.
LEMMA PriceTypes ==
    ASSUME TariffType, NEW v \in VehicleTypes
    PROVE  /\ Value("BASE_FARE", v) \in Nat
           /\ Value("PER_MILE_RATE", v) \in Nat \ {0}
           /\ Setting("MINIMUM_MILES_THRESHOLD") \in Nat
           /\ Setting("SHORT_DISTANCE_MULTIPLIER") \in Nat
           /\ Value("NIGHT_SURCHARGE", Null) \in Nat
           /\ Value("PEAK_SURCHARGE", Null) \in Nat
           /\ Value("HOLIDAY_SURCHARGE", Null) \in Nat
           /\ Value("MEET_AND_GREET", Null) \in Nat
           /\ Value("CHILD_SEAT", Null) \in Nat
           /\ Value("BOOSTER_SEAT", Null) \in Nat
           /\ Value("AIRPORT_FEE", Null) \in Nat
           /\ ReturnPercent \in 0 .. 100
           /\ \A first \in BOOLEAN : FirstPercent(first) \in 0 .. 100
  <1>1. \A t \in PerVehicle : Key(t, v) \in Keys
    BY TariffAssumption DEF TariffAssumption, Key
  <1>2. \A t \in Types \ PerVehicle : Key(t, Null) \in Keys
    BY TariffAssumption DEF TariffAssumption, Key
  <1>3. \A t \in PerVehicle : Sensible(t, Value(t, v))
    BY <1>1, ValueType
  <1>4. \A t \in Types \ PerVehicle :
            Sensible(t, Value(t, Null)) /\ Sensible(t, Setting(t))
    BY <1>2, ValueType DEF Setting
  <1>5. Value("BASE_FARE", v) \in Nat /\ Value("PER_MILE_RATE", v) \in Nat \ {0}
    BY <1>3 DEF PerVehicle, Sensible
  <1>6. \A t \in {"MINIMUM_MILES_THRESHOLD", "SHORT_DISTANCE_MULTIPLIER",
                  "NIGHT_SURCHARGE", "PEAK_SURCHARGE", "HOLIDAY_SURCHARGE",
                  "MEET_AND_GREET", "CHILD_SEAT", "BOOSTER_SEAT", "AIRPORT_FEE"} :
            /\ t \in Types \ PerVehicle
            /\ Value(t, Null) \in Nat /\ Setting(t) \in Nat
    <2>1. ASSUME NEW t \in {"MINIMUM_MILES_THRESHOLD", "SHORT_DISTANCE_MULTIPLIER",
                  "NIGHT_SURCHARGE", "PEAK_SURCHARGE", "HOLIDAY_SURCHARGE",
                  "MEET_AND_GREET", "CHILD_SEAT", "BOOSTER_SEAT", "AIRPORT_FEE"}
          PROVE  t \in Types \ PerVehicle /\ \A x : Sensible(t, x) => x \in Nat
      BY DEF Types, PerVehicle, Sensible
    <2>2. QED BY <1>4, <2>1
  <1>7. \A t \in {"RETURN_DISCOUNT", "NEW_BOOKING_DISCOUNT_PERCENT"} :
            Value(t, Null) \in 0 .. 100 /\ Setting(t) \in 0 .. 100
    <2>1. ASSUME NEW t \in {"RETURN_DISCOUNT", "NEW_BOOKING_DISCOUNT_PERCENT"}
          PROVE  t \in Types \ PerVehicle /\ \A x : Sensible(t, x) => x \in 0 .. 100
      BY DEF Types, PerVehicle, Sensible
    <2>2. QED BY <1>4, <2>1
  <1>8. \A first \in BOOLEAN : FirstPercent(first) \in 0 .. 100
    BY <1>7 DEF FirstPercent
  <1>9. QED BY <1>5, <1>6, <1>7, <1>8 DEF ReturnPercent

\* Products of numbers, and parts in the hundred.
LEMMA NumberTypes ==
    /\ \A x, y \in Int : x * y \in Int
    /\ \A x, y \in Nat : x * y \in Nat
    /\ \A x \in Int, n \in Nat : Percent(x, n) \in Int
    /\ \A x \in Int : Pence(x) \in Int
    /\ \A x \in Nat : Pence(x) \in Nat
  <1>1. \A x \in Int, n \in Nat : Percent(x, n) \in Int
    <2>1. \A y \in Int : y \div 100 \in Int
      OBVIOUS
    <2>2. \A x \in Int, n \in Nat : x * n \in Int
      OBVIOUS
    <2>3. QED BY <2>1, <2>2 DEF Percent
  <1>2. /\ \A x \in Int : Pence(x) \in Int
        /\ \A x \in Nat : Pence(x) \in Nat
    BY DEF Pence, Penny
  <1>3. QED BY <1>1, <1>2

\* Each of them, for one number.
LEMMA PercentType ==
    ASSUME NEW x \in Int, NEW n \in Nat PROVE Percent(x, n) \in Int
  <1>1. QED BY NumberTypes

LEMMA PenceType ==
    ASSUME NEW x \in Nat PROVE Pence(x) \in Int
  <1>1. QED BY NumberTypes

\* The rate of a mile is a penny or more.
LEMMA RateIsPositive ==
    ASSUME TariffType, NEW v \in VehicleTypes, NEW miles \in Nat
    PROVE  /\ PerMileRate(v, miles) \in Int
           /\ Pence(1) <= PerMileRate(v, miles) /\ 0 < PerMileRate(v, miles)
           /\ Setting("SHORT_DISTANCE_MULTIPLIER") = 1 =>
                PerMileRate(v, miles) = Pence(Value("PER_MILE_RATE", v))
  <1> DEFINE x == Pence(Value("PER_MILE_RATE", v))
             f == Setting("SHORT_DISTANCE_MULTIPLIER")
  <1>1. f \in Nat /\ Value("PER_MILE_RATE", v) \in Nat \ {0}
    BY PriceTypes
  <1>2. x \in Nat /\ Pence(1) <= x /\ 0 < Pence(1) /\ Pence(1) \in Nat
    BY <1>1 DEF Pence, Penny
  <1>3. (PerMileRate(v, miles) = x * f /\ f > 1) \/ PerMileRate(v, miles) = x
    BY DEF PerMileRate
  <1> HIDE DEF x, f
  <1>4. f > 1 => x * f \in Nat /\ x <= x * f
    BY <1>1, <1>2
  <1>5. QED BY <1>1, <1>2, <1>3, <1>4 DEF x, f

\* Without reductions every mile costs the same.
LEMMA FlatPerMile ==
    ASSUME NEW rate \in Int, Pence(1) <= rate, NEW n \in Nat
    PROVE  PerMile(rate, 0, n) = n * rate
  <1> DEFINE Good == {m \in Nat : PerMile(rate, 0, m) = m * rate}
  <1>1. \A m \in Nat \ {0} : MileRate(rate, 0, m) = rate
    <2>1. ASSUME NEW m \in Nat \ {0} PROVE MileRate(rate, 0, m) = rate
      <3>1. Tier \in Nat \ {0} /\ Pence(1) \in Int
        BY QuotesAssumption DEF QuotesAssumption, Pence, Penny
      <3> DEFINE k == (m - 1) \div Tier
      <3>2. k \in Int
        BY <3>1
      <3> HIDE DEF k
      <3>3. 0 * k = 0
        BY <3>2
      <3>4. Most(Pence(1), rate - 0 * k) = rate
        BY <3>1, <3>3 DEF Most
      <3>5. QED BY <3>4 DEF MileRate, k
    <2>2. QED BY <2>1
  <1>2. 0 \in Good
    BY PerMileSteps
  <1>3. ASSUME NEW m \in Good PROVE m + 1 \in Good
    <2> DEFINE k == m + 1
    <2>1. k \in Nat \ {0} /\ k * rate = m * rate + rate
      OBVIOUS
    <2>2. PerMile(rate, 0, k) = PerMile(rate, 0, m) + MileRate(rate, 0, k)
      BY PerMileSteps
    <2> HIDE DEF k
    <2>3. PerMile(rate, 0, k) = k * rate
      BY <1>1, <2>1, <2>2
    <2>4. QED BY <2>1, <2>3 DEF k
  <1>4. Good = Nat
    <2>1. Good \in SUBSET Nat
      OBVIOUS
    <2> HIDE DEF Good
    <2>2. QED BY <1>2, <1>3, <2>1, SetOfNaturals
  <1>5. QED BY <1>4

\* What a distance costs.
LEMMA DistanceType ==
    ASSUME TariffType, NEW v \in VehicleTypes, NEW miles \in Nat
    PROVE  /\ DistanceCharge(v, miles) \in Int
           /\ DistanceCharge(v, miles)
                = PerMile(PerMileRate(v, miles), Pence(capacities[v].reduction), miles)
           /\ Setting("SHORT_DISTANCE_MULTIPLIER") = 1 =>
                DistanceCharge(v, miles) < DistanceCharge(v, miles + 1)
  <1> DEFINE rate(m) == PerMileRate(v, m)
             reduction == Pence(capacities[v].reduction)
  <1>1. reduction \in Nat
    BY NumberTypes, TariffAssumption DEF TariffType, TariffAssumption
  <1>2. \A m \in Nat : rate(m) \in Int /\ Pence(1) <= rate(m) /\ 0 < rate(m)
    BY RateIsPositive
  <1>3. \A m \in Nat : DistanceCharge(v, m) =
            IF reduction = 0 THEN m * rate(m) ELSE Tiered(m, rate(m), reduction)
    BY DEF DistanceCharge
  <1>4. ASSUME Setting("SHORT_DISTANCE_MULTIPLIER") = 1
        PROVE  rate(miles + 1) = rate(miles)
    <2>1. miles + 1 \in Nat
      OBVIOUS
    <2>2. QED BY <1>4, <2>1, RateIsPositive
  <1>5. miles + 1 \in Nat
    OBVIOUS
  <1> HIDE DEF rate, reduction
  <1>6. CASE reduction = 0
    <2> DEFINE r == rate(miles)
    <2>1. r \in Int /\ Pence(1) <= r /\ 0 < r
      BY <1>2
    <2>2. DistanceCharge(v, miles) = miles * r
      BY <1>3, <1>6
    <2>3. rate(miles + 1) = r => DistanceCharge(v, miles + 1) = (miles + 1) * r
      BY <1>3, <1>5, <1>6
    <2> HIDE DEF r
    <2>4. PerMile(r, 0, miles) = miles * r
      BY <2>1, FlatPerMile
    <2>5. miles * r \in Int /\ (miles + 1) * r = miles * r + r
      BY <2>1
    <2>6. QED BY <1>4, <1>6, <2>1, <2>2, <2>3, <2>4, <2>5 DEF r, rate, reduction
  <1>7. CASE reduction # 0
    <2> DEFINE r == rate(miles)
    <2>1. r \in Int /\ 0 < r
      BY <1>2
    <2>2. DistanceCharge(v, miles) = Tiered(miles, r, reduction)
      BY <1>3, <1>7
    <2>3. rate(miles + 1) = r =>
              DistanceCharge(v, miles + 1) = Tiered(miles + 1, r, reduction)
      BY <1>3, <1>5, <1>7
    <2> HIDE DEF r
    <2>4. /\ Tiered(miles, r, reduction) \in Int
          /\ Tiered(miles, r, reduction) < Tiered(miles + 1, r, reduction)
          /\ Tiered(miles, r, reduction) = PerMile(r, reduction, miles)
      BY <1>1, <2>1, LongerTiered, TieredPerMile
    <2>5. QED BY <1>4, <2>2, <2>3, <2>4 DEF r, rate, reduction
  <1>8. QED BY <1>6, <1>7

\* A fare is a number.
LEMMA FareType ==
    ASSUME TariffType, NEW v \in VehicleTypes, NEW j \in Journeys
    PROVE  Fare(v, j) \in Int
  <1> DEFINE fare == Pence(Value("BASE_FARE", v)) + DistanceCharge(v, j.miles)
             a == TimeSurcharge(j.hour, j.weekday)
             b == HolidaySurcharge(j.holiday)
             m == IF j.meetAndGreet THEN Value("MEET_AND_GREET", Null) ELSE 0
             c == j.childSeats * Value("CHILD_SEAT", Null)
             s == j.boosterSeats * Value("BOOSTER_SEAT", Null)
             f == IF j.airport THEN Value("AIRPORT_FEE", Null) ELSE 0
  <1>1. /\ j.miles \in Nat /\ j.childSeats \in Nat /\ j.boosterSeats \in Nat
    BY TariffAssumption DEF TariffAssumption
  <1>2. fare \in Int
    <2> DEFINE base == Value("BASE_FARE", v)
               way == DistanceCharge(v, j.miles)
    <2>1. base \in Nat /\ way \in Int
      BY <1>1, DistanceType, PriceTypes
    <2>2. fare = Pence(base) + way
      OBVIOUS
    <2> HIDE DEF base, way, fare
    <2>3. Pence(base) \in Int
      BY <2>1, PenceType
    <2>4. QED BY <2>1, <2>2, <2>3
  <1>3. a \in Nat /\ b \in Nat
    BY PriceTypes DEF TimeSurcharge, HolidaySurcharge
  <1>4. m \in Nat /\ f \in Nat
    BY PriceTypes
  <1>5. c \in Nat /\ s \in Nat
    BY <1>1, PriceTypes, NumberTypes
  <1>6. Fare(v, j) = fare + Percent(fare, a) + Percent(fare, b)
                        + Pence(m + c + s + f)
    BY DEF Fare, Fees
  <1> HIDE DEF fare, a, b, m, c, s, f
  <1>7. m + c + s + f \in Nat
    BY <1>4, <1>5
  <1>8. /\ Percent(fare, a) \in Int /\ Percent(fare, b) \in Int
        /\ Pence(m + c + s + f) \in Int
    BY <1>2, <1>3, <1>7, PercentType, PenceType
  <1>9. QED BY <1>2, <1>6, <1>8

\* The night of hours of a day.
LEMMA NightHolds ==
    ASSUME TariffType PROVE NightIsWindow
  <1> DEFINE b == Setting("NIGHT_HOURS_START")
             e == Setting("NIGHT_HOURS_END")
  <1>1. b \in 0 .. 23 /\ e \in 0 .. 23
    <2>1. \A t \in {"NIGHT_HOURS_START", "NIGHT_HOURS_END"} :
              /\ t \in Types \ PerVehicle
              /\ \A x : Sensible(t, x) => x \in 0 .. 23
      BY DEF Types, PerVehicle, Sensible
    <2>2. \A t \in {"NIGHT_HOURS_START", "NIGHT_HOURS_END"} : Key(t, Null) \in Keys
      BY <2>1, TariffAssumption DEF TariffAssumption, Key
    <2>3. QED BY <2>1, <2>2, ValueType DEF Setting
  <1> HIDE DEF b, e
  <1>2. ASSUME b > e, NEW hour \in 0 .. 23
        PROVE  hour >= b \/ hour < e <=> (hour - b) % 24 < (e - b) % 24
    <2>1. (e - b) % 24 = e - b + 24
      BY <1>1, <1>2
    <2>2. hour >= b => (hour - b) % 24 = hour - b
      BY <1>1, <1>2
    <2>3. hour < b => (hour - b) % 24 = hour - b + 24
      BY <1>1, <1>2
    <2>4. QED BY <1>1, <1>2, <2>1, <2>2, <2>3
  <1>3. QED BY <1>2 DEF NightIsWindow, IsNight, InWindow, b, e

----------------------------------------------------------------------------
(* Quotes: rounding *)

\* A price in whole pence, a price and its rounding, and a discount in whole
\* pence of n in the hundred.
Whole(x) == x \in Int /\ \E k \in Int : x = Pence(k)
Rounded(x, r) == Whole(r) /\ x - 5000 < r /\ r <= x + 5000
CutOf(c, x, n) ==
    /\ c \in Int /\ 0 - 500100 < 100 * c - x * n /\ 100 * c - x * n <= 500000
    /\ n = 0 => c = 0

\* Rounding moves a price by half a penny at most, to whole pence.
LEMMA RoundType ==
    ASSUME NEW x \in Int
    PROVE  /\ Round(x) \in Int
           /\ x - 5000 < Round(x) /\ Round(x) <= x + 5000
           /\ \E k \in Int : Round(x) = Pence(k)
  <1> DEFINE k == (x + 5000) \div 10000
  <1>1. k \in Int /\ k * 10000 <= x + 5000 /\ x + 5000 < k * 10000 + 10000
    OBVIOUS
  <1>2. Round(x) = Pence(k) /\ Pence(k) = k * 10000
    BY DEF Round, Pence, Penny
  <1> HIDE DEF k
  <1>3. QED BY <1>1, <1>2

\* Whole pence are not rounded.
LEMMA RoundWhole ==
    ASSUME NEW x \in Int, NEW k \in Int
    PROVE  /\ Round(x - Pence(k)) = Round(x) - Pence(k)
           /\ Round(Pence(k)) = Pence(k)
  <1> DEFINE y == x + 5000
             l == y \div 10000
             m == (y - k * 10000) \div 10000
  <1>1. l \in Int /\ l * 10000 <= y /\ y < l * 10000 + 10000 /\ y \in Int
    OBVIOUS
  <1>2. m \in Int /\ m * 10000 <= y - k * 10000 /\ y - k * 10000 < m * 10000 + 10000
    OBVIOUS
  <1>3. (x - k * 10000) + 5000 = y - k * 10000
    OBVIOUS
  <1>4. Round(x) = l * 10000 /\ Pence(k) = k * 10000
    BY DEF Round, Pence, Penny
  <1>5. Round(x - Pence(k)) = m * 10000
    BY <1>3 DEF Round, Pence, Penny
  <1>6. Round(Pence(k)) = Pence(k)
    BY DEF Round, Pence, Penny
  <1> HIDE DEF y, l, m
  <1>7. m = l - k
    BY <1>1, <1>2
  <1>8. QED BY <1>1, <1>4, <1>5, <1>6, <1>7

\* A part in the hundred is rounded down, and nothing for none.
LEMMA PercentRange ==
    ASSUME NEW x \in Int, NEW n \in Nat
    PROVE  /\ Percent(x, n) \in Int /\ x * n \in Int
           /\ 100 * Percent(x, n) <= x * n
           /\ x * n < 100 * Percent(x, n) + 100
           /\ n = 0 => Percent(x, n) = 0
  <1> DEFINE y == x * n
  <1>1. y \in Int /\ (n = 0 => y = 0)
    OBVIOUS
  <1>2. Percent(x, n) = y \div 100
    BY DEF Percent
  <1> HIDE DEF y
  <1>3. /\ y \div 100 \in Int
        /\ 100 * (y \div 100) <= y /\ y < 100 * (y \div 100) + 100
        /\ (y = 0 => y \div 100 = 0)
    BY <1>1
  <1>4. QED BY <1>1, <1>2, <1>3 DEF y

\* A discount in whole pence, and its distance from the exact one.
Cut(x, n) == Round(Percent(x, n))

LEMMA CutType ==
    ASSUME NEW x \in Int, NEW n \in Nat
    PROVE  /\ Cut(x, n) \in Int /\ x * n \in Int
           /\ \E k \in Int : Cut(x, n) = Pence(k)
           /\ 0 - 500100 < 100 * Cut(x, n) - x * n
           /\ 100 * Cut(x, n) - x * n <= 500000
           /\ n = 0 => Cut(x, n) = 0
  <1> DEFINE y == Percent(x, n)
             z == x * n
  <1>1. /\ y \in Int /\ z \in Int /\ 100 * y <= z /\ z < 100 * y + 100
        /\ (n = 0 => y = 0)
    BY PercentRange
  <1>2. Cut(x, n) = Round(y)
    BY DEF Cut
  <1>3. Round(0) = 0
    BY DEF Round, Pence, Penny
  <1> HIDE DEF y, z
  <1>4. /\ Round(y) \in Int /\ y - 5000 < Round(y) /\ Round(y) <= y + 5000
        /\ \E k \in Int : Round(y) = Pence(k)
    BY <1>1, RoundType
  <1>5. QED BY <1>1, <1>2, <1>3, <1>4 DEF z

\* The same, in the terms above.
LEMMA RoundIs ==
    ASSUME NEW x \in Int PROVE Rounded(x, Round(x))
  <1>1. QED BY RoundType DEF Rounded, Whole

LEMMA CutIs ==
    ASSUME NEW x \in Int, NEW n \in Nat PROVE CutOf(Cut(x, n), x, n)
  <1>1. QED BY CutType DEF CutOf

\* A discounted price.
LEMMA DiscountedType ==
    ASSUME NEW x \in Int, NEW n \in Nat
    PROVE  /\ Discounted(x, n) = Round(x) - Cut(x, n)
           /\ Discounted(x, n) \in Int
           /\ \E k \in Int : Discounted(x, n) = Pence(k)
  <1>1. PICK k \in Int : Cut(x, n) = Pence(k)
    BY CutType
  <1>2. PICK l \in Int : Round(x) = Pence(l)
    BY RoundType
  <1>3. Discounted(x, n) = Round(x - Cut(x, n))
    BY DEF Discounted, Cut
  <1>4. Discounted(x, n) = Round(x) - Cut(x, n)
    BY <1>1, <1>3, RoundWhole
  <1>5. Pence(l) - Pence(k) = Pence(l - k) /\ l - k \in Int
    BY DEF Pence, Penny
  <1>6. Pence(l) - Pence(k) \in Int
    BY DEF Pence, Penny
  <1>7. QED BY <1>1, <1>2, <1>4, <1>5, <1>6

LEMMA DiscountedIs ==
    ASSUME NEW x \in Int, NEW n \in Nat
    PROVE  Discounted(x, n) = Round(x) - Cut(x, n) /\ Whole(Discounted(x, n))
  <1>1. QED BY DiscountedType DEF Whole

\* A penny in the units of a price.
LEMMA PenceIs == \A k \in Int : Pence(k) = k * 10000
  <1>1. QED BY DEF Pence, Penny

\* Prices in whole pence that are less than one more apart are near.
LEMMA NearPence ==
    ASSUME NEW x, Whole(x), NEW y, Whole(y),
           NEW n \in Nat, x - y < n * 10000 + 10000, y - x < n * 10000 + 10000
    PROVE  Near(x, y, n)
  <1>1. PICK k \in Int : x = Pence(k)
    BY DEF Whole
  <1>2. PICK l \in Int : y = Pence(l)
    BY DEF Whole
  <1>3. x = k * 10000 /\ y = l * 10000
    <2>1. Pence(k) = k * 10000 /\ Pence(l) = l * 10000
      BY PenceIs
    <2>2. QED BY <1>1, <1>2, <2>1
  <1>4. k - l <= n /\ l - k <= n
    BY <1>3
  <1>5. QED BY <1>3, <1>4 DEF Near, Pence, Penny

\* A multiple is between the multiples of the bounds.
LEMMA TimesBound ==
    ASSUME NEW a \in Nat, NEW x \in Int, NEW b \in Nat, 0 - b <= x, x <= b
    PROVE  a * x \in Int /\ a * b \in Nat /\ 0 - a * b <= a * x /\ a * x <= a * b
  <1>1. a * (b - x) >= 0 /\ a * (b + x) >= 0
    <2>1. b - x \in Nat /\ b + x \in Nat
      OBVIOUS
    <2> DEFINE y == b - x
               z == b + x
    <2> HIDE DEF y, z
    <2>2. a * y \in Nat /\ a * z \in Nat
      BY <2>1 DEF y, z
    <2>3. QED BY <2>2 DEF y, z
  <1>2. a * (b - x) = a * b - a * x /\ a * (b + x) = a * b + a * x
    OBVIOUS
  <1>3. a * x \in Int /\ a * b \in Nat
    OBVIOUS
  <1>4. QED BY <1>1, <1>2, <1>3

----------------------------------------------------------------------------
(* Quotes: one price *)

\* How far the discounts of a price and of its rounding are apart.
LEMMA SinglesArithmetic ==
    ASSUME NEW F \in Int, NEW p \in Nat, p <= 100,
           NEW R, Rounded(F, R), NEW A, CutOf(A, F, p), NEW T, CutOf(T, R, p)
    PROVE  A - T < 20000 /\ T - A < 20000
  <1> DEFINE w == F - R
             c == F * p
             d == R * p
             x == p * w
  <1>0. /\ R \in Int /\ A \in Int /\ T \in Int /\ F - 5000 < R /\ R <= F + 5000
        /\ 0 - 500100 < 100 * A - F * p /\ 100 * A - F * p <= 500000
        /\ 0 - 500100 < 100 * T - R * p /\ 100 * T - R * p <= 500000
    BY DEF Rounded, Whole, CutOf
  <1>1. w \in Int /\ 0 - 5000 <= w /\ w <= 5000
    BY <1>0
  <1>2. x = c - d /\ c \in Int /\ d \in Int
    BY <1>0
  <1>3. /\ 0 - 500100 < 100 * A - c /\ 100 * A - c <= 500000
        /\ 0 - 500100 < 100 * T - d /\ 100 * T - d <= 500000
    BY <1>0
  <1> HIDE DEF w
  <1>4. x \in Int /\ 0 - p * 5000 <= x /\ x <= p * 5000
    BY <1>1, TimesBound
  <1> HIDE DEF c, d, x
  <1>5. 0 - 500000 <= x /\ x <= 500000
    BY <1>4
  <1>6. QED BY <1>0, <1>2, <1>3, <1>5

\* The discount of a first booking before or after rounding.
LEMMA SinglesNear ==
    ASSUME NEW F \in Int, NEW p \in 0 .. 100
    PROVE  Near(Discounted(Round(F), p), Discounted(F, p), 1)
  <1> DEFINE R == Round(F)
             A == Cut(F, p)
             T == Cut(R, p)
             x == Discounted(R, p)
             y == Discounted(F, p)
  <1>1. p \in Nat /\ p <= 100
    OBVIOUS
  <1>2. Rounded(F, R)
    BY RoundIs
  <1>3. R \in Int /\ Whole(R)
    BY <1>2 DEF Rounded, Whole
  <1>4. Round(R) = R
    <2>1. PICK m \in Int : R = Pence(m)
      BY <1>3 DEF Whole
    <2>2. Round(Pence(m)) = Pence(m)
      BY RoundWhole
    <2>3. QED BY <2>1, <2>2
  <1>5. y = R - A /\ Whole(y)
    BY <1>1, DiscountedIs
  <1>6. CutOf(A, F, p)
    BY <1>1, CutIs
  <1> HIDE DEF R
  <1>7. x = Round(R) - T /\ Whole(x)
    BY <1>1, <1>3, DiscountedIs
  <1>8. CutOf(T, R, p)
    BY <1>1, <1>3, CutIs
  <1> HIDE DEF A, T, x, y
  <1>9. A - T < 20000 /\ T - A < 20000
    BY <1>1, <1>2, <1>6, <1>8, SinglesArithmetic
  <1>10. x = R - T
    BY <1>4, <1>7
  <1>11. A \in Int /\ T \in Int
    BY <1>6, <1>8 DEF CutOf
  <1>12. x - y < 1 * 10000 + 10000 /\ y - x < 1 * 10000 + 10000
    BY <1>3, <1>5, <1>9, <1>10, <1>11
  <1>13. Near(x, y, 1)
    BY <1>5, <1>7, <1>12, NearPence
  <1>14. QED BY <1>13 DEF R, x, y

\* How far the discounts of two legs are apart, taken from each leg or from
\* their sum: the older price is s - Q - T, the other s - A - B - V.
LEMMA ReturnsArithmetic ==
    ASSUME NEW F \in Int, NEW G \in Int, NEW s \in Int,
           NEW p \in Nat, p <= 100, NEW q \in Nat, q <= 100,
           0 - 10000 <= F + G - s, F + G - s <= 10000,
           NEW A, CutOf(A, F, p), NEW B, CutOf(B, G, p),
           NEW Q, CutOf(Q, s, q), NEW T, CutOf(T, s - Q, p),
           NEW V, CutOf(V, s - A - B, q)
    PROVE  /\ A + B + V - Q - T < 30000
           /\ Q + T - A - B - V < 30000
  <1> DEFINE f == F + G - s
             e1 == 100 * Q - s * q
             e2 == 100 * T - (s - Q) * p
             e3 == 100 * A - F * p
             e4 == 100 * B - G * p
             e5 == 100 * V - (s - A - B) * q
             D == A + B + V - Q - T
             pp == 100 - p
             qq == 100 - q
             w == p * qq
  <1>0. /\ A \in Int /\ B \in Int /\ Q \in Int /\ T \in Int /\ V \in Int
        /\ 0 - 500100 < e1 /\ e1 <= 500000 /\ 0 - 500100 < e2 /\ e2 <= 500000
        /\ 0 - 500100 < e3 /\ e3 <= 500000 /\ 0 - 500100 < e4 /\ e4 <= 500000
        /\ 0 - 500100 < e5 /\ e5 <= 500000
        /\ q = 0 => Q = 0 /\ V = 0
    BY DEF CutOf
  <1>1. /\ f \in Int /\ 0 - 10000 <= f /\ f <= 10000
        /\ e1 \in Int /\ 0 - 500100 <= e1 /\ e1 <= 500100
        /\ e2 \in Int /\ 0 - 500100 <= e2 /\ e2 <= 500100
        /\ e3 \in Int /\ 0 - 500100 <= e3 /\ e3 <= 500100
        /\ e4 \in Int /\ 0 - 500100 <= e4 /\ e4 <= 500100
        /\ e5 \in Int /\ 0 - 500100 <= e5 /\ e5 <= 500100
    BY <1>0
  <1>2. D \in Int /\ pp \in Nat /\ qq \in Nat
    BY <1>0
  <1>3. q = 0 => e1 = 0 /\ e5 = 0
    <2>1. \A x \in Int : x * 0 = 0
      OBVIOUS
    <2>2. s * 0 = 0 /\ (s - A - B) * 0 = 0
      BY <1>0, <2>1
    <2>3. QED BY <1>0, <2>2
  <1>4. 100 * D = p * f + p * Q - q * (A + B) + e3 + e4 + e5 - e1 - e2
    BY <1>0
  <1>5. 100 * (p * Q) = p * (s * q) + p * e1
    <2>1. 100 * Q = s * q + e1
      BY <1>0
    <2>2. QED BY <1>0, <1>1, <2>1
  <1>6. 100 * (q * (A + B)) = q * (p * (F + G)) + q * (e3 + e4)
    <2>1. 100 * (A + B) = p * (F + G) + (e3 + e4)
      BY <1>0
    <2>2. QED BY <1>0, <1>1, <2>1
  <1>7. p * (s * q) - q * (p * (F + G)) = 0 - q * (p * f)
    BY <1>0
  <1>8. /\ 100 * (p * f) - q * (p * f) = w * f
        /\ p * e1 - 100 * e1 = 0 - pp * e1
        /\ 100 * (e3 + e4) - q * (e3 + e4) = qq * (e3 + e4)
    BY <1>0
  <1>9. /\ p * f \in Int /\ p * Q \in Int /\ q * (A + B) \in Int
        /\ p * (s * q) \in Int /\ q * (p * (F + G)) \in Int /\ q * (p * f) \in Int
        /\ p * e1 \in Int /\ q * (e3 + e4) \in Int /\ w \in Nat
    BY <1>0, <1>1, <1>2
  <1> DEFINE m1 == p * f
             m2 == p * Q
             m3 == q * (A + B)
             m4 == p * (s * q)
             m5 == q * (p * (F + G))
             m6 == q * (p * f)
             m7 == p * e1
             m8 == q * (e3 + e4)
             n1 == w * f
             n2 == pp * e1
             n3 == qq * (e3 + e4)
  <1>10. n1 = 100 * m1 - m6 /\ n2 = 100 * e1 - m7 /\ n3 = 100 * (e3 + e4) - m8
    BY <1>0, <1>1, <1>8, <1>9
  <1> HIDE DEF f, e1, e2, e3, e4, e5, D, pp, qq
  <1>11. n1 \in Int /\ 0 - w * 10000 <= n1 /\ n1 <= w * 10000
    BY <1>1, <1>9, TimesBound
  <1>12. n2 \in Int /\ 0 - pp * 500100 <= n2 /\ n2 <= pp * 500100
    BY <1>1, <1>2, TimesBound
  <1>13. n3 \in Int /\ 0 - qq * 1000200 <= n3 /\ n3 <= qq * 1000200
    <2> DEFINE e == e3 + e4
    <2>1. e \in Int /\ 0 - 1000200 <= e /\ e <= 1000200
      BY <1>1
    <2> HIDE DEF e
    <2>2. qq * e \in Int /\ 0 - qq * 1000200 <= qq * e /\ qq * e <= qq * 1000200
      BY <1>2, <2>1, TimesBound
    <2>3. QED BY <2>2 DEF e
  <1> HIDE DEF m1, m2, m3, m4, m5, m6, m7, m8, n1, n2, n3
  <1>14. 100 * (100 * D) = n1 + n3 + 100 * e5 - n2 - 100 * e2
    <2>1. 100 * D = m1 + m2 - m3 + e3 + e4 + e5 - e1 - e2
      BY <1>4 DEF m1, m2, m3
    <2>2. 100 * m2 = m4 + m7 /\ 100 * m3 = m5 + m8 /\ m4 - m5 = 0 - m6
      BY <1>5, <1>6, <1>7 DEF m2, m3, m4, m5, m6, m7, m8
    <2>3. /\ m1 \in Int /\ m2 \in Int /\ m3 \in Int /\ m4 \in Int
          /\ m5 \in Int /\ m6 \in Int /\ m7 \in Int /\ m8 \in Int
      BY <1>9 DEF m1, m2, m3, m4, m5, m6, m7, m8
    <2>4. QED BY <1>1, <1>2, <1>10, <2>1, <2>2, <2>3
  <1>15. w <= 100 * p /\ (q # 0 => w <= 99 * p) /\ pp = 100 - p /\ qq = 100 - q
    BY DEF pp, qq
  <1>16. q = 0 => n2 = 0
    BY <1>2, <1>3 DEF n2
  <1> HIDE DEF w
  <1>17. CASE q = 0
    BY <1>0, <1>1, <1>2, <1>3, <1>9, <1>11, <1>13, <1>14, <1>15, <1>16, <1>17 DEF D
  <1>18. CASE q # 0
    BY <1>0, <1>1, <1>2, <1>9, <1>11, <1>12, <1>13, <1>14, <1>15, <1>18 DEF D
  <1>19. QED BY <1>17, <1>18

\* The older endpoint discounts before it rounds.
LEMMA LegacyArithmetic ==
    ASSUME NEW F \in Int, NEW q \in Nat, q <= 100, NEW y, Rounded(F, y),
           NEW P \in Int, 100 * P <= (2 * F) * q, (2 * F) * q < 100 * P + 100,
           q = 0 => P = 0,
           NEW C, CutOf(C, 2 * y, q), NEW L, Rounded(2 * F - P, L)
    PROVE  L - (2 * y - C) < 20000 /\ (2 * y - C) - L < 20000
  <1> DEFINE g == 2 * F - 2 * y
             qq == 100 - q
             c == (2 * F) * q
             d == (2 * y) * q
             x == qq * g
  <1>0. /\ y \in Int /\ F - 5000 < y /\ y <= F + 5000
        /\ L \in Int /\ 2 * F - P - 5000 < L /\ L <= 2 * F - P + 5000
    BY DEF Rounded, Whole
  <1>00. /\ C \in Int /\ (q = 0 => C = 0)
         /\ 0 - 500100 < 100 * C - (2 * y) * q /\ 100 * C - (2 * y) * q <= 500000
    BY DEF CutOf
  <1>1. g \in Int /\ 0 - 10000 <= g /\ g <= 10000 /\ qq \in Nat
    BY <1>0, <1>00
  <1>2. /\ 100 * P <= c /\ c < 100 * P + 100 /\ c \in Int /\ d \in Int
        /\ 0 - 500100 < 100 * C - d /\ 100 * C - d <= 500000
    BY <1>0, <1>00
  <1>3. x = 200 * F - 200 * y - c + d
    BY <1>0, <1>00
  <1> HIDE DEF g
  <1>4. x \in Int /\ 0 - qq * 10000 <= x /\ x <= qq * 10000
    BY <1>1, TimesBound
  <1>5. q = 0 => c = 0 /\ d = 0
    BY <1>0, <1>00
  <1> HIDE DEF c, d, x
  <1>6. CASE q = 0
    BY <1>0, <1>00, <1>2, <1>3, <1>4, <1>5, <1>6
  <1>7. CASE q # 0
    BY <1>0, <1>00, <1>2, <1>3, <1>4, <1>7
  <1>8. QED BY <1>6, <1>7

\* Sums of whole pence are whole pence, which rounding leaves.
LEMMA RoundSum ==
    ASSUME NEW x, Whole(x), NEW y, Whole(y)
    PROVE  x + y \in Int /\ Round(x) = x /\ Round(x + y) = x + y
  <1>1. PICK k \in Int : x = Pence(k)
    BY DEF Whole
  <1>2. PICK l \in Int : y = Pence(l)
    BY DEF Whole
  <1>3. x = k * 10000 /\ y = l * 10000
    <2>1. Pence(k) = k * 10000 /\ Pence(l) = l * 10000
      BY PenceIs
    <2>2. QED BY <1>1, <1>2, <2>1
  <1>4. x + y = Pence(k + l)
    <2>1. Pence(k + l) = (k + l) * 10000
      BY PenceIs
    <2>2. QED BY <1>3, <2>1
  <1>5. Round(Pence(k)) = Pence(k)
    BY RoundWhole
  <1>6. Round(Pence(k + l)) = Pence(k + l)
    <2>1. k + l \in Int
      OBVIOUS
    <2>2. QED BY <2>1, RoundWhole
  <1>7. Round(x) = x
    BY <1>1, <1>5
  <1>8. Round(x + y) = x + y
    BY <1>4, <1>6
  <1>9. QED BY <1>3, <1>7, <1>8

\* The discounts of a return journey in either order.
LEMMA ReturnsNear ==
    ASSUME NEW F \in Int, NEW G \in Int, NEW p \in 0 .. 100, NEW q \in 0 .. 100
    PROVE  Near(Discounted(Discounted(Round(F) + Round(G), q), p),
                Discounted(Discounted(F, p) + Discounted(G, p), q), 2)
  <1> DEFINE f == Round(F)
             g == Round(G)
             s == f + g
             Q == Cut(s, q)
             one == Discounted(s, q)
             T == Cut(one, p)
             x == Discounted(one, p)
             out == Discounted(F, p)
             back == Discounted(G, p)
             A == Cut(F, p)
             B == Cut(G, p)
             two == out + back
             V == Cut(two, q)
             y == Discounted(two, q)
  <1>1. p \in Nat /\ p <= 100 /\ q \in Nat /\ q <= 100
    OBVIOUS
  <1>2. Rounded(F, f) /\ Rounded(G, g)
    BY RoundIs
  <1>3. out = f - A /\ Whole(out) /\ back = g - B /\ Whole(back)
    BY <1>1, DiscountedIs
  <1>4. CutOf(A, F, p) /\ CutOf(B, G, p)
    BY <1>1, CutIs
  <1> HIDE DEF f, g, A, B, out, back
  <1>5. Whole(f) /\ Whole(g)
    BY <1>2 DEF Rounded
  <1>6. s \in Int /\ Round(s) = s
    BY <1>5, RoundSum
  <1>7. two \in Int /\ Round(two) = two
    BY <1>3, RoundSum
  <1>8. A \in Int /\ B \in Int /\ f \in Int /\ g \in Int
    BY <1>4, <1>5 DEF CutOf, Whole
  <1>9. two = s - A - B
    BY <1>3, <1>8
  <1>10. F + G - s <= 10000 /\ 0 - 10000 <= F + G - s
    <2>1. /\ F - 5000 < f /\ f <= F + 5000
          /\ G - 5000 < g /\ g <= G + 5000
      BY <1>2 DEF Rounded
    <2>2. QED BY <1>8, <2>1
  <1> HIDE DEF s, two
  <1>11. one = Round(s) - Q /\ Whole(one)
    BY <1>1, <1>6, DiscountedIs
  <1>12. y = Round(two) - V /\ Whole(y)
    BY <1>1, <1>7, DiscountedIs
  <1>13. CutOf(Q, s, q) /\ CutOf(V, two, q)
    BY <1>1, <1>6, <1>7, CutIs
  <1> HIDE DEF one, y, Q, V
  <1>14. Round(one) = one
    BY <1>11, RoundSum
  <1>15. one \in Int
    BY <1>11 DEF Whole
  <1>16. x = Round(one) - T /\ Whole(x)
    BY <1>1, <1>15, DiscountedIs
  <1>17. CutOf(T, one, p)
    BY <1>1, <1>15, CutIs
  <1> HIDE DEF x, T
  <1>18. one = s - Q
    BY <1>6, <1>11
  <1>19. CutOf(T, s - Q, p) /\ CutOf(V, s - A - B, q)
    BY <1>9, <1>13, <1>17, <1>18
  <1>20. A + B + V - Q - T < 30000 /\ Q + T - A - B - V < 30000
    BY <1>1, <1>4, <1>6, <1>10, <1>13, <1>19, ReturnsArithmetic
  <1>21. x = s - Q - T /\ y = s - A - B - V
    BY <1>7, <1>9, <1>12, <1>14, <1>16, <1>18
  <1>22. Q \in Int /\ T \in Int /\ V \in Int
    BY <1>13, <1>17 DEF CutOf
  <1>23. x - y < 2 * 10000 + 10000 /\ y - x < 2 * 10000 + 10000
    BY <1>6, <1>8, <1>20, <1>21, <1>22
  <1>24. Near(x, y, 2)
    BY <1>12, <1>16, <1>23, NearPence
  <1>25. QED BY <1>24 DEF x, y, one, two, out, back, s, f, g

\* The older endpoint, without a discount for a first booking.
LEMMA LegacyNear ==
    ASSUME NEW F \in Int, NEW q \in 0 .. 100
    PROVE  Near(Round(2 * F - Percent(2 * F, q)),
                Discounted(Discounted(F, 0) + Discounted(F, 0), q), 1)
  <1> DEFINE b == 2 * F
             P == Percent(b, q)
             z == b - P
             L == Round(z)
             f == Round(F)
             none == Cut(F, 0)
             r == Discounted(F, 0)
             two == r + r
             C == Cut(two, q)
             y == Discounted(two, q)
  <1>1. q \in Nat /\ q <= 100 /\ b \in Int /\ 0 \in Nat
    OBVIOUS
  <1>2. r = f - none /\ Whole(r)
    BY <1>1, DiscountedIs
  <1>3. Rounded(F, f)
    BY RoundIs
  <1>4. none = 0
    BY <1>1, CutIs DEF CutOf
  <1>5. /\ P \in Int /\ 100 * P <= b * q /\ b * q < 100 * P + 100
        /\ (q = 0 => P = 0)
    BY <1>1, PercentRange
  <1> HIDE DEF f, none, r, P
  <1>6. r = f /\ r \in Int
    BY <1>2, <1>3, <1>4 DEF Rounded, Whole
  <1>7. z \in Int
    BY <1>1, <1>5
  <1>8. two \in Int /\ Round(two) = two
    BY <1>2, RoundSum
  <1>9. two = 2 * r
    BY <1>6
  <1> HIDE DEF two, z
  <1>10. Rounded(z, L)
    BY <1>7, RoundIs
  <1>11. CutOf(C, two, q)
    BY <1>1, <1>8, CutIs
  <1>12. y = Round(two) - C /\ Whole(y)
    BY <1>1, <1>8, DiscountedIs
  <1> HIDE DEF L, C, y
  <1>13. /\ 100 * P <= (2 * F) * q /\ (2 * F) * q < 100 * P + 100
         /\ Rounded(2 * F - P, L) /\ CutOf(C, 2 * r, q) /\ Rounded(F, r)
    BY <1>3, <1>5, <1>6, <1>9, <1>10, <1>11 DEF b, z
  <1>14. L - (2 * r - C) < 20000 /\ (2 * r - C) - L < 20000
    BY <1>1, <1>5, <1>13, LegacyArithmetic
  <1>15. y = 2 * r - C
    BY <1>8, <1>9, <1>12
  <1>16. L - y < 1 * 10000 + 10000 /\ y - L < 1 * 10000 + 10000
    BY <1>14, <1>15
  <1>17. Whole(L)
    BY <1>10 DEF Rounded
  <1>18. Near(L, y, 1)
    BY <1>12, <1>16, <1>17, NearPence
  <1>19. QED BY <1>18 DEF L, y, z, P, b, two, r

\* A journey without meeting and greeting is one.
LEMMA NotGreeted ==
    ASSUME NEW k \in Journeys
    PROVE  /\ k.meetAndGreet \in BOOLEAN
           /\ ~k.meetAndGreet => [k EXCEPT !.meetAndGreet = FALSE] = k
  <1>1. k \in [miles : Nat, hour : 0 .. 23, weekday : BOOLEAN, holiday : BOOLEAN,
               airport : BOOLEAN, meetAndGreet : BOOLEAN, childSeats : Nat,
               boosterSeats : Nat, passengers : Nat, luggage : Nat]
    BY TariffAssumption DEF TariffAssumption
  <1>2. QED BY <1>1

\* The quotes of a tariff of sensible prices agree.
LEMMA QuotesDoAgree ==
    ASSUME TariffType PROVE QuotesAgree
  <1>1. SUFFICES ASSUME NEW v \in VehicleTypes, NEW j \in Journeys, NEW k \in Journeys,
                        NEW first \in BOOLEAN
                 PROVE  /\ Near(ListedSingle(v, j, first), SingleQuote(v, j, first), 1)
                        /\ ~k.meetAndGreet =>
                             Near(ListedReturn(v, j, k, first),
                                  ReturnQuote(v, j, k, first), 2)
                        /\ Near(LegacyReturnQuote(v, j), ReturnQuote(v, j, j, FALSE), 1)
    BY DEF QuotesAgree
  <1> DEFINE p == FirstPercent(first)
             q == ReturnPercent
             F == Fare(v, j)
             G == Fare(v, k)
  <1>2. p \in 0 .. 100 /\ q \in 0 .. 100 /\ FirstPercent(FALSE) = 0
    BY PriceTypes DEF FirstPercent
  <1>3. F \in Int /\ G \in Int
    BY FareType
  <1>4. /\ ListedSingle(v, j, first) = Discounted(Round(F), p)
        /\ SingleQuote(v, j, first) = Discounted(F, p)
    BY DEF ListedSingle, SingleQuote
  <1>5. ReturnQuote(v, j, k, first)
            = Discounted(Discounted(F, p) + Discounted(G, p), q)
    BY DEF ReturnQuote, SingleQuote
  <1>6. ~k.meetAndGreet =>
            ListedReturn(v, j, k, first)
              = Discounted(Discounted(Round(F) + Round(G), q), p)
    BY NotGreeted DEF ListedReturn
  <1>7. LegacyReturnQuote(v, j) = Round(2 * F - Percent(2 * F, q))
    BY DEF LegacyReturnQuote
  <1>8. ReturnQuote(v, j, j, FALSE)
            = Discounted(Discounted(F, 0) + Discounted(F, 0), q)
    BY <1>2 DEF ReturnQuote, SingleQuote
  <1> HIDE DEF p, q, F, G
  <1>9. Near(Discounted(Round(F), p), Discounted(F, p), 1)
    BY <1>2, <1>3, SinglesNear
  <1>10. Near(Discounted(Discounted(Round(F) + Round(G), q), p),
              Discounted(Discounted(F, p) + Discounted(G, p), q), 2)
    BY <1>2, <1>3, ReturnsNear
  <1>11. Near(Round(2 * F - Percent(2 * F, q)),
              Discounted(Discounted(F, 0) + Discounted(F, 0), q), 1)
    BY <1>2, <1>3, LegacyNear
  <1>12. QED BY <1>4, <1>5, <1>6, <1>7, <1>8, <1>9, <1>10, <1>11

\* What the tariff promises follows from the invariant.
LEMMA TariffPromises ==
    ASSUME TariffInv PROVE TariffHolds
  <1>1. TariffType /\ UpdatesLead
    BY DEF TariffInv
  <1>2. ASSUME NEW v \in VehicleTypes, NEW j \in Journeys
        PROVE  /\ DistanceCharge(v, j.miles) =
                    PerMile(PerMileRate(v, j.miles), Pence(capacities[v].reduction),
                            j.miles)
               /\ Setting("SHORT_DISTANCE_MULTIPLIER") = 1 =>
                    DistanceCharge(v, j.miles) < DistanceCharge(v, j.miles + 1)
    <2>1. j.miles \in Nat
      BY TariffAssumption DEF TariffAssumption
    <2>2. QED BY <1>1, <2>1, DistanceType
  <1>3. TieredIsPerMile /\ LongerCostsMore
    BY <1>2 DEF TieredIsPerMile, LongerCostsMore
  <1>4. NightIsWindow
    BY <1>1, NightHolds
  <1>5. SettingsAsAsked
    BY <1>1 DEF UpdatesLead, SettingsAsAsked
  <1>6. QED BY <1>3, <1>4, <1>5 DEF TariffHolds

----------------------------------------------------------------------------
(* Quotes: theorems *)

\* After bulk updates that did not run together all settings are as asked for,
\* the tiers of a distance charge each mile once and longer journeys more, and
\* the night is its window (quote.service.ts:292, :312, :350,
\* system-settings.service.ts:108).
THEOREM TariffIsAsAsked == QuotesSpec => []TariffHolds
  <1>1. QuotesSpec => []TariffInv
    BY TariffStarts, TariffKept, PTL DEF QuotesSpec
  <1>2. QED BY <1>1, TariffPromises, PTL

\* The list of all vehicles, the single quote and the older endpoint differ by
\* two pence at most, for every tariff (quote.service.ts:578, :612, :664).
THEOREM OnePrice == QuotesSpec => []QuotesAgree
  <1>1. QuotesSpec => []TariffInv
    BY TariffStarts, TariffKept, PTL DEF QuotesSpec
  <1>2. TariffInv => QuotesAgree
    BY QuotesDoAgree DEF TariffInv
  <1>3. QED BY <1>1, <1>2, PTL

\* Beside the notices the tariff is as alone.
LEMMA OfficeTariffInv == OfficeSpec => []TariffInv
  <1>1. OfficeInit => TariffInv
    BY TariffStarts DEF OfficeInit
  <1>2. ASSUME TariffInv, [OfficeNext]_<<quoteVars, noticeVars, desk>>
        PROVE  TariffInv'
    <2>1. [QuotesNext]_quoteVars
      BY <1>2 DEF OfficeNext
    <2>2. QED BY <1>2, <2>1, TariffKept
  <1>3. QED BY <1>1, <1>2, PTL DEF OfficeSpec

\* As TariffIsAsAsked, in the composition that TLC checks: no notice disturbs
\* the tariff (quote.service.ts:312, system-settings.service.ts:108).
THEOREM OfficeTariff == OfficeSpec => []TariffAsAsked
  <1>1. TariffInv => TariffAsAsked
    BY TariffPromises DEF TariffAsAsked
  <1>2. QED BY <1>1, OfficeTariffInv, PTL

\* As OnePrice, in the composition that TLC checks (quote.service.ts:578).
THEOREM OfficePrice == OfficeSpec => []TariffQuotesAgree
  <1>1. TariffInv => TariffQuotesAgree
    BY QuotesDoAgree DEF TariffInv, TariffQuotesAgree
  <1>2. QED BY <1>1, OfficeTariffInv, PTL
=============================================================================
