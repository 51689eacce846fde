--------------------------- MODULE AccountsProofs ---------------------------
(***************************************************************************)
(* Nobody changes a customer's status who was not granted that permission, *)
(* for any number of users and concurrent requests: the permissions guard  *)
(* of Accounts asks a token, and a token holds only what was granted.      *)
(*                                                                         *)
(* While requests do not overlap, verified addresses are proved, codes are *)
(* accepted once and only the newest, and permissions and the audit log    *)
(* are as was granted and done: then what a handler has read stays so.     *)
(***************************************************************************)
EXTENDS Accounts, SequenceTheorems, TLAPS

\* Where a handler is that may still change an account's status.
StatusPCs == {"status", "status.update"}

\* What is granted, in the table or in a token, was granted once.
GrantInv ==
    /\ DOMAIN permissions = Users /\ DOMAIN everGranted = Users
    /\ DOMAIN token = Users
    /\ \A u \in Users :
        /\ permissions[u] \subseteq everGranted[u]
        /\ token[u] # None => token[u].permissions \subseteq everGranted[u]

MayAct(actor) ==
    \/ actor = Admin
    \/ actor \in Users /\ "CUSTOMER_UPDATE_STATUS" \in everGranted[actor]

\* The actor of a request on a customer passed the guard.
ActorInv ==
    /\ DOMAIN pc = Clients /\ DOMAIN arg = Clients
    /\ \A p \in Clients :
        pc[p] \in StatusPCs /\ arg[p].role = "CUSTOMER" => MayAct(arg[p].actor)

IInv == GrantInv /\ ActorInv

----------------------------------------------------------------------------
(* Steps that grant nothing *)

grantVars == <<permissions, token, everGranted>>

LEMMA GrantKept ==
    ASSUME GrantInv, UNCHANGED grantVars
    PROVE  GrantInv'
  BY DEF GrantInv, grantVars

\* A handler that goes where no status is changed.
LEMMA ElsewhereKeeps ==
    ASSUME ActorInv, NEW p \in Clients, NEW step, NEW a,
           GotoWith(p, step, a), step \notin StatusPCs,
           \A u \in Users : everGranted[u] \subseteq everGranted'[u]
    PROVE  ActorInv'
  BY DEF ActorInv, GotoWith, MayAct

LEMMA QuietKeeps ==
    ASSUME IInv, NEW p \in Clients, NEW step, NEW a,
           GotoWith(p, step, a), step \notin StatusPCs, UNCHANGED grantVars
    PROVE  IInv'
  <1>1. \A u \in Users : everGranted[u] \subseteq everGranted'[u]
    BY DEF grantVars
  <1>2. QED
    BY <1>1, GrantKept, ElsewhereKeeps DEF IInv

LEMMA ReadKeeps ==
    ASSUME IInv, NEW p \in Clients, NEW step, NEW a,
           Read(p, step, a), step \notin StatusPCs
    PROVE  IInv'
  <1>1. GotoWith(p, step, a) /\ UNCHANGED grantVars
    BY DEF Read, rowVars, historyVars, grantVars
  <1>2. QED
    BY <1>1, QuietKeeps

LEMMA StartKeeps ==
    ASSUME IInv, NEW p \in Clients, NEW name, NEW step, NEW a,
           Start(p, name, step, a), step \notin StatusPCs
    PROVE  IInv'
  <1>1. GotoWith(p, step, a) /\ UNCHANGED grantVars
    BY DEF Start, rowVars, historyVars, grantVars
  <1>2. QED
    BY <1>1, QuietKeeps

LEMMA ThrowKeeps ==
    ASSUME IInv, NEW p \in Clients, Throw(p)
    PROVE  IInv'
  <1>1. "idle" \notin StatusPCs
    BY DEF StatusPCs
  <1>2. QED
    BY <1>1, ReadKeeps DEF Throw

LEMMA UserStepKeeps ==
    ASSUME IInv, NEW p \in Clients, UserStep(p)
    PROVE  IInv'
  <1> USE DEF StatusPCs
  <1>1. ASSUME NEW u \in Users, NEW e \in Emails,
               \/ \E w \in Passwords : Register(p, u, e, w)
               \/ UpdateProfile(p, u, e)
        PROVE  IInv'
    BY <1>1, StartKeeps DEF Register, UpdateProfile
  <1>2. CASE CreateUser(p) \/ WriteProfile(p) \/ WritePassword(p)
    <2>1. Return(p) /\ UNCHANGED grantVars
      BY <1>2 DEF CreateUser, WriteProfile, WritePassword, WriteAccounts,
                  historyVars, grantVars
    <2>2. QED
      BY <2>1, QuietKeeps DEF Return
  <1>3. CASE EmailExists(p) \/ ProfileThrows(p)
    BY <1>3, ThrowKeeps DEF EmailExists, ProfileThrows
  <1>4. CASE CheckNewEmail(p) \/ ComparePassword(p)
    BY <1>4, ThrowKeeps, ReadKeeps DEF CheckNewEmail, ComparePassword
  <1>5. ASSUME NEW e \in Emails, NEW w \in Passwords, Login(p, e, w)
        PROVE  IInv'
    BY <1>5, StartKeeps DEF Login
  <1>6. CASE ValidateUser(p)
    <2>1. ASSUME NEW a, Read(p, "login.sign", a)
          PROVE  IInv'
      BY <2>1, ReadKeeps
    <2>2. QED
      BY <1>6, <2>1, ThrowKeeps DEF ValidateUser
  <1>7. CASE SignToken(p)
    <2>1. GrantInv'
      BY <1>7 DEF SignToken, IInv, GrantInv, historyVars
    <2>2. ActorInv'
      BY <1>7, ElsewhereKeeps DEF SignToken, Return, IInv, historyVars
    <2>3. QED
      BY <2>1, <2>2 DEF IInv
  <1>8. ASSUME NEW u \in Users, NEW v \in Passwords, NEW w \in Passwords,
               ChangePassword(p, u, v, w)
        PROVE  IInv'
    BY <1>8, StartKeeps DEF ChangePassword
  <1>9. QED
    BY <1>1, <1>2, <1>3, <1>4, <1>5, <1>6, <1>7, <1>8 DEF UserStep

LEMMA CodeStepKeeps ==
    ASSUME IInv, NEW p \in Clients, CodeStep(p)
    PROVE  IInv'
  <1> USE DEF StatusPCs
  <1>1. ASSUME NEW e \in Emails,
               \/ SendPasswordResetOTP(p, e) \/ SendEmailVerificationOTP(p, e)
               \/ \E i \in DOMAIN otpTokens :
                    \/ \E w \in Passwords : ResetPassword(p, e, i, w)
                    \/ VerifyEmail(p, e, i)
        PROVE  IInv'
    <2>1. ASSUME NEW name, NEW step \in {"code", "validate"}, NEW a,
                 Start(p, name, step, a)
          PROVE  IInv'
      BY <2>1, StartKeeps
    <2>2. ASSUME NEW i \in DOMAIN otpTokens, NEW w \in Passwords,
                 ResetPassword(p, e, i, w)
          PROVE  IInv'
      BY <2>2, <2>1 DEF ResetPassword
    <2>3. ASSUME NEW i \in DOMAIN otpTokens, VerifyEmail(p, e, i)
          PROVE  IInv'
      BY <2>3, <2>1 DEF VerifyEmail
    <2>4. CASE SendPasswordResetOTP(p, e) \/ SendEmailVerificationOTP(p, e)
      BY <2>4, <2>1 DEF SendPasswordResetOTP, SendEmailVerificationOTP
    <2>5. QED
      BY <1>1, <2>2, <2>3, <2>4
  <1> DEFINE Steps == {"code.cooldown", "code.invalidate", "validate.use",
                       "reset.write", "verify.write"}
  <1>2. ASSUME NEW step \in Steps, NEW a, Read(p, step, a)
        PROVE  IInv'
    BY <1>2, ReadKeeps
  <1>3. CASE \/ FindForCode(p) \/ CheckCooldown(p) \/ FindCode(p)
             \/ FindCodeUser(p)
    <2>1. Throw(p) \/ \E step \in Steps, a \in {[arg[p] EXCEPT !.user = u] : u \in Users}
                        \union {[arg[p] EXCEPT !.expiresAt = now + Expiry], arg[p]} :
                Read(p, step, a)
      BY <1>3 DEF FindForCode, CheckCooldown, FindCode, FindCodeUser, FindByEmail,
                  WithEmail
    <2>2. QED
      BY <2>1, <1>2, ThrowKeeps
  <1>4. CASE InvalidateCodes(p) \/ CreateCode(p) \/ UseCode(p)
                \/ MarkEmailAsVerified(p)
    <2>1. /\ Goto(p, "code.create") \/ Goto(p, "validated") \/ Return(p)
          /\ UNCHANGED grantVars
      BY <1>4 DEF InvalidateCodes, CreateCode, UseCode, MarkEmailAsVerified,
                  WriteCodes, WriteAccounts, historyVars, grantVars
    <2>2. QED
      BY <2>1, QuietKeeps DEF Goto, Return
  <1>5. QED
    BY <1>1, <1>2, <1>3, <1>4 DEF CodeStep

LEMMA NoteStepKeeps ==
    ASSUME IInv, NEW p \in Clients, NoteStep(p)
    PROVE  IInv'
  <1> USE DEF StatusPCs
  <1>1. ASSUME NEW actor \in Users \union {Admin}, NEW n \in Notes,
               \/ AddOperatorNote(p, actor, n) \/ EditOperatorNote(p, actor, n)
               \/ DeleteOperatorNote(p, actor, n)
               \/ \E u \in Users :
                    \/ AddCustomerNote(p, actor, u, n)
                    \/ EditCustomerNote(p, actor, u, n)
                    \/ DeleteCustomerNote(p, actor, u, n)
        PROVE  IInv'
    <2>1. ASSUME NEW t, NEW does, StartNote(p, actor, t, n, does)
          PROVE  IInv'
      BY <2>1, StartKeeps DEF StartNote
    <2>2. ASSUME NEW u \in Users,
                 \/ AddCustomerNote(p, actor, u, n)
                 \/ EditCustomerNote(p, actor, u, n)
                 \/ DeleteCustomerNote(p, actor, u, n)
          PROVE  IInv'
      BY <2>2, <2>1 DEF AddCustomerNote, EditCustomerNote, DeleteCustomerNote
    <2>3. CASE \/ AddOperatorNote(p, actor, n) \/ EditOperatorNote(p, actor, n)
               \/ DeleteOperatorNote(p, actor, n)
      BY <2>3, <2>1 DEF AddOperatorNote, EditOperatorNote, DeleteOperatorNote
    <2>4. QED
      BY <1>1, <2>2, <2>3
  <1>2. CASE FindNoteTarget(p) \/ FindNote(p) \/ NoteIsGone(p)
    BY <1>2, ThrowKeeps, ReadKeeps DEF FindNoteTarget, FindNote, NoteIsGone
  <1>3. CASE CreateNote(p) \/ WriteNote(p)
    <2>1. (Goto(p, "audit") \/ Return(p)) /\ UNCHANGED grantVars
      BY <1>3 DEF CreateNote, WriteNote, historyVars, grantVars
    <2>2. QED
      BY <2>1, QuietKeeps DEF Goto, Return
  <1>4. QED
    BY <1>1, <1>2, <1>3 DEF NoteStep

----------------------------------------------------------------------------
(* Grants, and the acts they allow *)

LEMMA AdminStepKeeps ==
    ASSUME IInv, NEW p \in Clients, AdminStep(p)
    PROVE  IInv'
  <1>1. ASSUME NEW u \in Users, NEW set \in SUBSET Permissions,
               \/ \E e \in Emails, w \in Passwords : CreateController(p, u, e, w, set)
               \/ UpdateControllerPermissions(p, u, set)
        PROVE  IInv'
    BY <1>1, StartKeeps DEF CreateController, UpdateControllerPermissions, StatusPCs
  <1>2. CASE CheckControllerEmail(p) \/ FindController(p)
    BY <1>2, ThrowKeeps, ReadKeeps DEF CheckControllerEmail, FindController, StatusPCs
  <1>3. CASE ControllerThrows(p) \/ PermissionsThrow(p)
    BY <1>3, ThrowKeeps DEF ControllerThrows, PermissionsThrow
  <1>4. CASE CreateControllerUser(p)
    <2>1. Goto(p, "controller.grant") /\ UNCHANGED grantVars
      BY <1>4 DEF CreateControllerUser, WriteAccounts, grantVars
    <2>2. QED
      BY <2>1, QuietKeeps DEF Goto, StatusPCs
  <1>5. CASE CreatePermissions(p)
    <2>1. GrantInv' /\ \A u \in Users : everGranted[u] \subseteq everGranted'[u]
      BY <1>5 DEF CreatePermissions, IInv, GrantInv
    <2>2. ActorInv'
      BY <1>5, <2>1, ElsewhereKeeps DEF CreatePermissions, Goto, IInv, StatusPCs
    <2>3. QED
      BY <2>1, <2>2 DEF IInv
  <1>6. CASE DeletePermissions(p)
    <2>1. GrantInv' /\ \A u \in Users : everGranted[u] \subseteq everGranted'[u]
      BY <1>6 DEF DeletePermissions, IInv, GrantInv
    <2>2. ActorInv'
      BY <1>6, <2>1, ElsewhereKeeps DEF DeletePermissions, Goto, IInv, StatusPCs
    <2>3. QED
      BY <2>1, <2>2 DEF IInv
  <1>7. ASSUME NEW u \in Users, NEW b \in BOOLEAN, UpdateControllerStatus(p, u, b)
        PROVE  IInv'
    <2> DEFINE a == [NoArg EXCEPT !.user = u, !.role = "CONTROLLER",
                                  !.isActive = b, !.does = "status"]
    <2>1. GotoWith(p, "status", a) /\ UNCHANGED grantVars
      BY <1>7 DEF UpdateControllerStatus, Start, rowVars, historyVars, grantVars
    <2>2. a.role # "CUSTOMER"
      BY DEF NoArg
    <2>3. ActorInv'
      BY <2>1, <2>2 DEF IInv, ActorInv, GotoWith, MayAct, grantVars
    <2>4. QED
      BY <2>1, <2>3, GrantKept DEF IInv
  <1>8. ASSUME NEW u \in Users, NEW b \in BOOLEAN, NEW actor \in Users \union {Admin},
               UpdateCustomerStatus(p, actor, u, b)
        PROVE  IInv'
    <2> DEFINE a == [NoArg EXCEPT !.actor = actor, !.user = u, !.role = "CUSTOMER",
                                  !.isActive = b, !.does = "status"]
    <2>1. GotoWith(p, "status", a) /\ UNCHANGED grantVars
      BY <1>8 DEF UpdateCustomerStatus, Start, rowVars, historyVars, grantVars
    <2>2. MayAct(actor)
      BY <1>8 DEF UpdateCustomerStatus, Allowed, RoleAllowed, MayAct, IInv, GrantInv
    <2>3. a.actor = actor
      BY DEF NoArg
    <2>4. ActorInv'
      BY <2>1, <2>2, <2>3 DEF IInv, ActorInv, GotoWith, MayAct, grantVars
    <2>5. QED
      BY <2>1, <2>4, GrantKept DEF IInv
  <1>9. CASE FindForStatus(p)
    <2>1. CASE Throw(p)
      BY <2>1, ThrowKeeps
    <2>2. CASE Read(p, "status.update", arg[p])
      <3>1. GotoWith(p, "status.update", arg[p]) /\ UNCHANGED grantVars
        BY <2>2 DEF Read, rowVars, historyVars, grantVars
      <3>2. pc[p] \in StatusPCs
        BY <1>9 DEF FindForStatus, StatusPCs
      <3>3. ActorInv'
        BY <3>1, <3>2 DEF IInv, ActorInv, GotoWith, MayAct, grantVars
      <3>4. QED
        BY <3>1, <3>3, GrantKept DEF IInv
    <2>3. QED
      BY <1>9, <2>1, <2>2 DEF FindForStatus
  <1>10. CASE WriteStatus(p) \/ LogAudit(p)
    <2>1. (Goto(p, "audit") \/ Return(p)) /\ UNCHANGED grantVars
      BY <1>10 DEF WriteStatus, LogAudit, WriteAccounts, historyVars, grantVars
    <2>2. QED
      BY <2>1, QuietKeeps DEF Goto, Return, StatusPCs
  <1>11. QED
    BY <1>1, <1>2, <1>3, <1>4, <1>5, <1>6, <1>7, <1>8, <1>9, <1>10 DEF AdminStep

----------------------------------------------------------------------------
(* The theorem on acts *)

LEMMA InitIInv == Init => IInv
  <1> SUFFICES ASSUME Init PROVE IInv
    OBVIOUS
  <1>1. GrantInv
    BY DEF Init, GrantInv
  <1>2. ActorInv
    BY DEF Init, ActorInv, StatusPCs
  <1>3. QED
    BY <1>1, <1>2 DEF IInv

LEMMA ActorKept ==
    ASSUME ActorInv, UNCHANGED <<pc, arg, everGranted>>
    PROVE  ActorInv'
  BY DEF ActorInv, MayAct

LEMMA NextIInv == IInv /\ [Next]_vars => IInv'
  <1> SUFFICES ASSUME IInv, [Next]_vars PROVE IInv'
    OBVIOUS
  <1>1. ASSUME NEW p \in Clients,
               UserStep(p) \/ CodeStep(p) \/ AdminStep(p) \/ NoteStep(p)
        PROVE  IInv'
    BY <1>1, UserStepKeeps, CodeStepKeeps, AdminStepKeeps, NoteStepKeeps
  <1>2. ASSUME NEW u \in Users, TokenExpires(u) PROVE IInv'
    <2>1. GrantInv'
      BY <1>2 DEF TokenExpires, IInv, GrantInv, historyVars
    <2>2. ActorInv'
      BY <1>2, ActorKept DEF TokenExpires, IInv, historyVars
    <2>3. QED
      BY <2>1, <2>2 DEF IInv
  <1>3. CASE Tick \/ UNCHANGED vars
    <2>1. UNCHANGED grantVars /\ UNCHANGED <<pc, arg, everGranted>>
      BY <1>3 DEF Tick, vars, rowVars, historyVars, grantVars
    <2>2. QED
      BY <2>1, GrantKept, ActorKept DEF IInv
  <1>4. CASE Crash
    <2>1. UNCHANGED grantVars /\ pc' = [p \in Clients |-> "idle"]
          /\ arg' = [p \in Clients |-> NoArg]
      BY <1>4 DEF Crash, rowVars, historyVars, grantVars
    <2>2. ActorInv'
      BY <2>1 DEF ActorInv, StatusPCs
    <2>3. QED
      BY <2>1, <2>2, GrantKept DEF IInv
  <1>5. QED
    BY <1>1, <1>2, <1>3, <1>4 DEF Next

\* Whoever changes a customer's status is an administrator or was granted the
\* permission at some time, whatever requests overlap, wherever they crash
\* and however old the token is (permissions.guard.ts:34,
\* admin.controller.ts:233-258).
THEOREM ActsAreGrantedAlways == Spec => ActsAreGranted
  <1> DEFINE Acts == \A u \in Users, p \in Clients :
                pc[p] = "status.update" /\ pc'[p] = "audit" /\ arg[p].role = "CUSTOMER"
                  => \/ arg[p].actor = Admin
                     \/ "CUSTOMER_UPDATE_STATUS" \in everGranted[arg[p].actor]
  <1>1. IInv => Acts
    BY DEF IInv, ActorInv, MayAct, StatusPCs
  <1>2. QED
    BY InitIInv, NextIInv, <1>1, PTL DEF Spec, ActsAreGranted

----------------------------------------------------------------------------
(* One request after the other: what a handler read is still so *)

\* A step of p's handler: a request is noticed when it overlaps another.
Moves(p) ==
    /\ \E step, a : GotoWith(p, step, a)
    /\ ~overlapped' => ~overlapped /\ (pc[p] = "idle" => Idle)
    /\ crashes' = crashes

AtMostOne == \A p, q \in Clients : pc[p] # "idle" /\ pc[q] # "idle" => p = q

Code == [user : Users, email : Emails, type : OtpType, createdAt : Nat,
         expiresAt : Nat, used : BOOLEAN]

\* The tables, and what one of them says of another.
Tables ==
    /\ account \in [Users -> OrNone(Account)]
    /\ permissions \in [Users -> SUBSET Permissions]
    /\ granted \in [Users -> SUBSET Permissions]
    /\ DOMAIN token = Users
    /\ otpTokens \in Seq(Code) /\ accepted \in Seq(Nat)
    /\ notes \in [Notes -> Note \union {None, Gone}]
    /\ audited \in Audited
    /\ now \in Nat /\ crashes \in Nat
    /\ \A u \in Users :
        /\ token[u] # None => Exists(u)
        /\ ~Exists(u) => permissions[u] = {} /\ audited.isActive[u] = None

AddressesProved ==
    \A u \in Users : Exists(u) /\ account[u].isEmailVerified =>
        <<u, account[u].email>> \in proved

SameKind(c, d) == c.email = d.email /\ c.type = d.type

\* Only the newest code of its kind may be unused; one that was accepted is
\* used, and it was accepted once.
NewestUnused ==
    \A i, j \in DOMAIN otpTokens :
        i < j /\ SameKind(otpTokens[i], otpTokens[j]) => otpTokens[i].used
AcceptedUsed ==
    /\ \A k \in DOMAIN accepted :
          accepted[k] \in DOMAIN otpTokens /\ otpTokens[accepted[k]].used
    /\ \A k, l \in DOMAIN accepted : accepted[k] = accepted[l] => k = l

\* What the log should say of a note.
NoteSays(n) == IF notes[n] = None THEN None
               ELSE IF notes[n] = Gone THEN "deleted"
               ELSE IF notes[n].edited THEN "updated" ELSE "added"

\* Handlers of a user that exists, of a new one, of a code, and of notes.
UserPCs == {"login.sign", "profile", "profile.update", "change", "change.write",
            "reset.write", "verify.write", "code.cooldown", "code.invalidate",
            "code.create", "controller.grant", "permissions",
            "permissions.delete", "permissions.create", "status", "status.update"}
NewUserPCs == {"register", "controller", "controller.create"}
SendPCs == {"code", "code.cooldown", "code.invalidate", "code.create"}
ValidatePCs == {"validate", "validate.use", "validated"}
SetPCs == {"controller", "controller.create", "controller.grant", "permissions",
           "permissions.delete", "permissions.create"}
NotePCs == {"note", "note.create", "note.update"}
GrantPCs == {"controller.grant", "permissions.create"}
NoteActs == {"added", "updated", "deleted"}

\* What a handler holds is of the type that its next steps need.
Arg == [actor : OrNone(Users \union {Admin}), user : OrNone(Users \union {Operator}),
        email : OrNone(Emails), type : OrNone(OtpType),
        password : OrNone(Passwords), current : OrNone(Passwords), code : Nat,
        expiresAt : Nat, role : OrNone(Roles), set : SUBSET Permissions,
        isActive : OrNone(BOOLEAN), note : OrNone(Notes),
        does : OrNone(NoteActs \union {"permissions", "status"})]
HoldsUser(step, a) ==
    /\ step \in UserPCs => a.user \in Users /\ Exists(a.user)
    /\ step \in NewUserPCs =>
        a.user \in Users /\ a.email \in Emails /\ a.password \in Passwords
    /\ step = "login.sign" => a.role \in Roles
    /\ step \in {"profile", "profile.update"} => a.email \in Emails
    /\ step \in {"change", "change.write", "reset.write"} => a.password \in Passwords
HoldsCode(step, a) ==
    /\ step \in SendPCs => a.email \in Emails /\ a.type \in OtpType
    /\ step \in {"code.invalidate", "code.create"} => a.expiresAt \in Nat
    /\ step \in ValidatePCs =>
        /\ a.code \in DOMAIN otpTokens /\ a.type \in OtpType /\ a.email \in Emails
        /\ a.type = "PASSWORD_RESET" => a.password \in Passwords
HoldsAct(step, a) ==
    /\ step \in SetPCs => a.set \in SUBSET Permissions /\ a.does = "permissions"
    /\ step \in {"status", "status.update"} =>
        a.isActive \in BOOLEAN /\ a.does = "status"
    /\ step \in NotePCs =>
        /\ a.note \in Notes /\ a.user \in Users \union {Operator}
        /\ a.does \in NoteActs
    /\ step = "note.create" => a.does = "added"
    /\ step = "note.update" => a.does \in {"updated", "deleted"}
Holds(step, a) ==
    /\ step # "idle" => a \in Arg
    /\ HoldsUser(step, a) /\ HoldsCode(step, a) /\ HoldsAct(step, a)

\* ... and it is as the handler read it: the address, the code, the rows that
\* it writes, and what it did and will log.
Fresh(step, a) ==
    /\ step = "verify.write" => account[a.user].email = a.email
    /\ step = "validate.use" => ~otpTokens[a.code].used
    /\ step = "code.create" => \A i \in DOMAIN otpTokens :
          SameKind(otpTokens[i], a) => otpTokens[i].used
    /\ step \in GrantPCs => permissions[a.user] = {}
    /\ step \in GrantPCs /\ crashes = 0 =>
          granted = [permissions EXCEPT ![a.user] = a.set]
    /\ step = "audit" =>
        \/ /\ a.does = "permissions" /\ a.user \in Users /\ Exists(a.user)
           /\ a.set = permissions[a.user]
        \/ /\ a.does = "status" /\ a.user \in Users /\ Exists(a.user)
           /\ a.isActive = account[a.user].isActive
        \/ /\ a.does \in NoteActs /\ a.note \in Notes
           /\ a.does = NoteSays(a.note)
Handler(step, a) == Holds(step, a) /\ Fresh(step, a)

\* The log of x waits for the handler.
WillLogStatus(p, u) ==
    pc[p] = "audit" /\ arg[p].does = "status" /\ arg[p].user = u
WillLogPermissions(p, u) ==
    /\ pc[p] \in {"audit", "permissions.create"}
    /\ arg[p].does = "permissions" /\ arg[p].user = u
WillLogNote(p, n) ==
    pc[p] = "audit" /\ arg[p].does \in NoteActs /\ arg[p].note = n

\* Grants are in the table and acts in the log, but for those to come.
GrantsAndLog ==
    /\ permissions = granted \/ \E p \in Clients : pc[p] \in GrantPCs
    /\ \A u \in Users :
        /\ \/ audited.isActive[u] \in {None, Exists(u) /\ account[u].isActive}
           \/ \E p \in Clients : WillLogStatus(p, u)
        /\ \/ audited.permissions[u] \in {None, permissions[u]}
           \/ \E p \in Clients : WillLogPermissions(p, u)
    /\ \A n \in Notes :
        audited.note[n] = NoteSays(n) \/ \E p \in Clients : WillLogNote(p, n)

AloneInv == ~overlapped =>
    /\ AtMostOne /\ Tables /\ AddressesProved /\ NewestUnused /\ AcceptedUsed
    /\ \A p \in Clients : Handler(pc[p], arg[p])
    /\ crashes = 0 => GrantsAndLog

\* The same for a handler that is alone.
GrantsAt(p) == permissions = granted \/ pc[p] \in GrantPCs
LogAt(p) ==
    /\ \A u \in Users :
        /\ \/ audited.isActive[u] \in {None, Exists(u) /\ account[u].isActive}
           \/ WillLogStatus(p, u)
        /\ \/ audited.permissions[u] \in {None, permissions[u]}
           \/ WillLogPermissions(p, u)
    /\ \A n \in Notes : audited.note[n] = NoteSays(n) \/ WillLogNote(p, n)
At(p) ==
    /\ Tables /\ AddressesProved /\ NewestUnused /\ AcceptedUsed
    /\ Handler(pc[p], arg[p])
    /\ crashes = 0 => GrantsAt(p) /\ LogAt(p)

LEMMA IdleHandler ==
    ASSUME NEW a
    PROVE  Handler("idle", a) /\ Handler("idle", a)'
  BY DEF Handler, Holds, HoldsUser, HoldsCode, HoldsAct, Fresh, UserPCs,
         NewUserPCs, SendPCs, ValidatePCs, SetPCs, NotePCs, GrantPCs

\* The handler that moves is the only one, before and after.
LEMMA MovesAlone ==
    ASSUME ActorInv, AloneInv, NEW p \in Clients, Moves(p), ~overlapped'
    PROVE  /\ ~overlapped /\ AtMostOne'
           /\ \A q \in Clients \ {p} : pc[q] = "idle" /\ pc'[q] = "idle"
  <1>1. PICK step, a : GotoWith(p, step, a)
    BY DEF Moves
  <1>2. \A q \in Clients \ {p} : pc'[q] = pc[q]
    BY <1>1 DEF GotoWith, ActorInv
  <1>3. ~overlapped /\ (pc[p] = "idle" => Idle)
    BY DEF Moves
  <1>4. \A q \in Clients \ {p} : pc[q] = "idle"
    BY <1>3 DEF Idle, AloneInv, AtMostOne
  <1>5. QED
    BY <1>2, <1>3, <1>4 DEF AtMostOne

LEMMA AloneKept ==
    ASSUME ActorInv, AloneInv, NEW p \in Clients, Moves(p),
           ~overlapped' /\ At(p) => At(p)'
    PROVE  AloneInv'
  <1>1. SUFFICES ASSUME ~overlapped' PROVE AloneInv'
    BY DEF AloneInv
  <1>2. /\ ~overlapped /\ AtMostOne'
        /\ \A q \in Clients \ {p} : pc[q] = "idle" /\ pc'[q] = "idle"
    BY <1>1, MovesAlone
  <1>3. crashes = 0 => GrantsAt(p) /\ LogAt(p)
    BY <1>2
    DEF AloneInv, GrantsAndLog, GrantsAt, LogAt, WillLogStatus,
        WillLogPermissions, WillLogNote, GrantPCs
  <1>4. At(p)
    BY <1>2, <1>3 DEF AloneInv, At
  <1>5. At(p)'
    BY <1>1, <1>4
  <1>6. \A q \in Clients : Handler(pc[q], arg[q])'
    BY <1>2, <1>5, IdleHandler DEF At
  <1>7. (crashes = 0 => GrantsAndLog)'
    BY <1>5 DEF At, GrantsAndLog, GrantsAt, LogAt
  <1>8. QED
    BY <1>2, <1>5, <1>6, <1>7 DEF AloneInv, At

----------------------------------------------------------------------------
(* Steps that write nothing *)

\* The state in which a handler stands, apart from the handlers.
tableVars == <<rowVars, historyVars, now, crashes>>

LEMMA HandlerKept ==
    ASSUME NEW step, NEW a, Handler(step, a), UNCHANGED tableVars
    PROVE  Handler(step, a)'
  BY DEF Handler, Holds, HoldsUser, HoldsCode, HoldsAct, Fresh, Exists, NoteSays,
         tableVars, rowVars, historyVars

LEMMA TablesKept ==
    ASSUME Tables, AddressesProved, NewestUnused, AcceptedUsed,
           UNCHANGED tableVars
    PROVE  Tables' /\ AddressesProved' /\ NewestUnused' /\ AcceptedUsed'
  BY DEF Tables, AddressesProved, NewestUnused, AcceptedUsed, Exists,
         tableVars, rowVars, historyVars

Elsewhere == PC \ {"controller.grant", "permissions.create", "audit"}

LEMMA QuietAt ==
    ASSUME ActorInv, NEW p \in Clients, At(p), NEW step \in Elsewhere, NEW a,
           pc[p] \in Elsewhere, GotoWith(p, step, a), UNCHANGED tableVars,
           Handler(step, a)
    PROVE  At(p)'
  <1>1. pc'[p] = step /\ arg'[p] = a
    BY DEF GotoWith, ActorInv
  <1>2. Handler(pc[p], arg[p])'
    BY <1>1, HandlerKept
  <1>3. Tables' /\ AddressesProved' /\ NewestUnused' /\ AcceptedUsed'
    BY TablesKept DEF At
  <1>4. crashes' = crashes
    BY DEF tableVars
  <1>5. crashes = 0 => GrantsAt(p) /\ LogAt(p)
    BY DEF At
  <1>6. GrantsAt(p) => GrantsAt(p)'
    BY <1>1 DEF GrantsAt, Elsewhere, GrantPCs, tableVars, rowVars, historyVars
  <1>7. LogAt(p) => LogAt(p)'
    BY <1>1
    DEF LogAt, WillLogStatus, WillLogPermissions, WillLogNote, Elsewhere,
        Exists, NoteSays, tableVars, rowVars, historyVars
  <1>8. QED
    BY <1>2, <1>3, <1>4, <1>5, <1>6, <1>7 DEF At

\* A handler at its beginning holds what the request gave it.
FirstPCs == {"register", "profile", "login", "change", "code", "validate",
             "controller", "permissions", "status", "note"}

LEMMA FirstFresh ==
    ASSUME NEW step \in FirstPCs, NEW a
    PROVE  Fresh(step, a) /\ step \in Elsewhere
  BY DEF FirstPCs, Fresh, GrantPCs, Elsewhere, PC

\* What each step of p's handler shows.
Safe(p) == Moves(p) /\ (~overlapped' /\ At(p) => At(p)')

LEMMA StartAt ==
    ASSUME ActorInv, NEW p \in Clients, NEW name, NEW step \in FirstPCs, NEW a,
           Start(p, name, step, a),
           At(p) => Holds(step, a)
    PROVE  Safe(p)
  <1>1. /\ GotoWith(p, step, a) /\ UNCHANGED tableVars
        /\ pc[p] = "idle" /\ overlapped' = (overlapped \/ ~Idle)
    BY DEF Start, tableVars
  <1>2. Moves(p)
    BY <1>1 DEF Moves, tableVars
  <1>3. pc[p] \in Elsewhere
    BY <1>1 DEF Elsewhere, PC
  <1>4. At(p) => Handler(step, a)
    BY FirstFresh DEF Handler
  <1>5. QED
    BY <1>1, <1>2, <1>3, <1>4, QuietAt, FirstFresh DEF Safe

LEMMA HandlerMoves ==
    ASSUME NEW p \in Clients, NEW step, NEW a, pc[p] # "idle",
           GotoWith(p, step, a), UNCHANGED boundVars
    PROVE  Moves(p)
  BY DEF Moves, boundVars

LEMMA ReadAt ==
    ASSUME ActorInv, NEW p \in Clients, NEW step \in Elsewhere, NEW a,
           Read(p, step, a), pc[p] \in Elsewhere \ {"idle"},
           At(p) => Handler(step, a)
    PROVE  Safe(p)
  <1>1. GotoWith(p, step, a) /\ UNCHANGED tableVars /\ UNCHANGED boundVars
    BY DEF Read, tableVars, boundVars
  <1>2. QED
    BY <1>1, HandlerMoves, QuietAt DEF Safe

LEMMA ThrowAt ==
    ASSUME ActorInv, NEW p \in Clients, Throw(p), pc[p] \in Elsewhere \ {"idle"}
    PROVE  Safe(p)
  <1>1. "idle" \in Elsewhere
    BY DEF Elsewhere, PC
  <1>2. QED
    BY <1>1, ReadAt, IdleHandler DEF Throw

\* The requests.
LEMMA UserRequestsSafe ==
    ASSUME ActorInv, NEW p \in Clients,
           \/ \E u \in Users, e \in Emails, w \in Passwords : Register(p, u, e, w)
           \/ \E u \in Users, e \in Emails : UpdateProfile(p, u, e)
           \/ \E e \in Emails, w \in Passwords : Login(p, e, w)
           \/ \E u \in Users, v, w \in Passwords : ChangePassword(p, u, v, w)
    PROVE  Safe(p)
  <1> USE DEF Holds, HoldsUser, HoldsCode, HoldsAct, UserPCs, NewUserPCs, SendPCs,
              ValidatePCs, SetPCs, NotePCs
  <1>0. {"register", "profile", "login", "change"} \subseteq FirstPCs
    BY DEF FirstPCs
  <1>1. ASSUME NEW u \in Users, NEW e \in Emails, NEW w \in Passwords,
               Register(p, u, e, w)
        PROVE  Safe(p)
    <2> DEFINE a == [NoArg EXCEPT !.user = u, !.email = e, !.password = w]
    <2>1. Holds("register", a)
      BY DEF NoArg, Arg, OrNone
    <2>2. QED
      BY <1>0, <1>1, <2>1, StartAt DEF Register
  <1>2. ASSUME NEW u \in Users, NEW e \in Emails, UpdateProfile(p, u, e)
        PROVE  Safe(p)
    <2> DEFINE a == [NoArg EXCEPT !.user = u, !.email = e]
    <2>1. At(p) => Exists(u)
      BY <1>2 DEF UpdateProfile, At, Tables
    <2>2. At(p) => Holds("profile", a)
      BY <2>1 DEF NoArg, Arg, OrNone
    <2>3. QED
      BY <1>0, <1>2, <2>2, StartAt DEF UpdateProfile
  <1>3. ASSUME NEW e \in Emails, NEW w \in Passwords, Login(p, e, w)
        PROVE  Safe(p)
    <2> DEFINE a == [NoArg EXCEPT !.email = e, !.password = w]
    <2>1. Holds("login", a)
      BY DEF NoArg, Arg, OrNone
    <2>2. QED
      BY <1>0, <1>3, <2>1, StartAt DEF Login
  <1>4. ASSUME NEW u \in Users, NEW v \in Passwords, NEW w \in Passwords,
               ChangePassword(p, u, v, w)
        PROVE  Safe(p)
    <2> DEFINE a == [NoArg EXCEPT !.user = u, !.current = v, !.password = w]
    <2>1. At(p) => Exists(u)
      BY <1>4 DEF ChangePassword, At, Tables
    <2>2. At(p) => Holds("change", a)
      BY <2>1 DEF NoArg, Arg, OrNone
    <2>3. QED
      BY <1>0, <1>4, <2>2, StartAt DEF ChangePassword
  <1>5. QED
    BY <1>1, <1>2, <1>3, <1>4

LEMMA CodeRequestsSafe ==
    ASSUME ActorInv, NEW p \in Clients, NEW e \in Emails,
           \/ SendPasswordResetOTP(p, e) \/ SendEmailVerificationOTP(p, e)
           \/ \E i \in DOMAIN otpTokens :
                \/ \E w \in Passwords : ResetPassword(p, e, i, w)
                \/ VerifyEmail(p, e, i)
    PROVE  Safe(p)
  <1> USE DEF Holds, HoldsUser, HoldsCode, HoldsAct, UserPCs, NewUserPCs, SendPCs,
              ValidatePCs, SetPCs, NotePCs
  <1>0. {"code", "validate"} \subseteq FirstPCs
    BY DEF FirstPCs
  <1>1. ASSUME NEW t \in OtpType, NEW name,
               Start(p, name, "code", [NoArg EXCEPT !.email = e, !.type = t])
        PROVE  Safe(p)
    <2> DEFINE a == [NoArg EXCEPT !.email = e, !.type = t]
    <2>1. Holds("code", a)
      BY DEF NoArg, Arg, OrNone
    <2>2. QED
      BY <1>0, <1>1, <2>1, StartAt
  <1>2. ASSUME NEW i \in DOMAIN otpTokens, NEW w \in Passwords,
               ResetPassword(p, e, i, w)
        PROVE  Safe(p)
    <2> DEFINE a == [NoArg EXCEPT !.email = e, !.type = "PASSWORD_RESET",
                                  !.code = i, !.password = w]
    <2>1. At(p) => i \in Nat
      BY LenProperties DEF At, Tables
    <2>2. At(p) => Holds("validate", a)
      BY <2>1 DEF NoArg, Arg, OrNone, OtpType
    <2>3. QED
      BY <1>0, <1>2, <2>2, StartAt DEF ResetPassword
  <1>3. ASSUME NEW i \in DOMAIN otpTokens, VerifyEmail(p, e, i)
        PROVE  Safe(p)
    <2> DEFINE a == [NoArg EXCEPT !.email = e, !.type = "EMAIL_VERIFICATION",
                                  !.code = i]
    <2>1. At(p) => i \in Nat
      BY LenProperties DEF At, Tables
    <2>2. At(p) => Holds("validate", a)
      BY <2>1 DEF NoArg, Arg, OrNone, OtpType
    <2>3. QED
      BY <1>0, <1>3, <2>2, StartAt DEF VerifyEmail
  <1>4. {"PASSWORD_RESET", "EMAIL_VERIFICATION"} \subseteq OtpType
    BY DEF OtpType
  <1>5. QED
    BY <1>1, <1>2, <1>3, <1>4 DEF SendPasswordResetOTP, SendEmailVerificationOTP

LEMMA AdminRequestsSafe ==
    ASSUME ActorInv, NEW p \in Clients, NEW u \in Users, NEW e \in Emails,
           NEW w \in Passwords, NEW set \in SUBSET Permissions,
           CreateController(p, u, e, w, set)
    PROVE  Safe(p)
  <1> DEFINE a == [NoArg EXCEPT !.user = u, !.email = e, !.password = w,
                                !.set = set, !.does = "permissions"]
  <1>1. "controller" \in FirstPCs
    BY DEF FirstPCs
  <1>2. Holds("controller", a)
    BY DEF NoArg, Arg, OrNone, Holds, HoldsUser, HoldsCode, HoldsAct, UserPCs, NewUserPCs, SendPCs,
           ValidatePCs, SetPCs, NotePCs
  <1>3. QED
    BY <1>1, <1>2, StartAt DEF CreateController

LEMMA ActRequestsSafe ==
    ASSUME ActorInv, NEW p \in Clients, NEW u \in Users,
           \/ \E set \in SUBSET Permissions : UpdateControllerPermissions(p, u, set)
           \/ \E b \in BOOLEAN :
                \/ UpdateControllerStatus(p, u, b)
                \/ \E actor \in Users \union {Admin} :
                        UpdateCustomerStatus(p, actor, u, b)
    PROVE  Safe(p)
  <1> USE DEF Holds, HoldsUser, HoldsCode, HoldsAct, UserPCs, NewUserPCs, SendPCs,
              ValidatePCs, SetPCs, NotePCs
  <1>0. {"permissions", "status"} \subseteq FirstPCs
    BY DEF FirstPCs
  <1>1. ASSUME NEW set \in SUBSET Permissions,
               UpdateControllerPermissions(p, u, set)
        PROVE  Safe(p)
    <2> DEFINE a == [NoArg EXCEPT !.user = u, !.set = set, !.does = "permissions"]
    <2>1. Exists(u)
      BY <1>1 DEF UpdateControllerPermissions
    <2>2. Holds("permissions", a)
      BY <2>1 DEF NoArg, Arg, OrNone, Roles
    <2>3. QED
      BY <1>0, <1>1, <2>2, StartAt DEF UpdateControllerPermissions
  <1>2. ASSUME NEW b \in BOOLEAN, UpdateControllerStatus(p, u, b)
        PROVE  Safe(p)
    <2> DEFINE a == [NoArg EXCEPT !.user = u, !.role = "CONTROLLER",
                                  !.isActive = b, !.does = "status"]
    <2>1. Exists(u)
      BY <1>2 DEF UpdateControllerStatus
    <2>2. Holds("status", a)
      BY <2>1 DEF NoArg, Arg, OrNone, Roles
    <2>3. QED
      BY <1>0, <1>2, <2>2, StartAt DEF UpdateControllerStatus
  <1>3. ASSUME NEW b \in BOOLEAN, NEW actor \in Users \union {Admin},
               UpdateCustomerStatus(p, actor, u, b)
        PROVE  Safe(p)
    <2> DEFINE a == [NoArg EXCEPT !.actor = actor, !.user = u,
                                  !.role = "CUSTOMER", !.isActive = b,
                                  !.does = "status"]
    <2>1. Exists(u)
      BY <1>3 DEF UpdateCustomerStatus
    <2>2. Holds("status", a)
      BY <2>1 DEF NoArg, Arg, OrNone, Roles
    <2>3. QED
      BY <1>0, <1>3, <2>2, StartAt DEF UpdateCustomerStatus
  <1>4. QED
    BY <1>1, <1>2, <1>3

LEMMA NoteRequestsSafe ==
    ASSUME ActorInv, NEW p \in Clients, NEW actor \in Users \union {Admin},
           NEW n \in Notes,
           \/ AddOperatorNote(p, actor, n) \/ EditOperatorNote(p, actor, n)
           \/ DeleteOperatorNote(p, actor, n)
           \/ \E u \in Users :
                \/ AddCustomerNote(p, actor, u, n) \/ EditCustomerNote(p, actor, u, n)
                \/ DeleteCustomerNote(p, actor, u, n)
    PROVE  Safe(p)
  <1>1. ASSUME NEW t \in Users \union {Operator}, NEW does \in NoteActs,
               StartNote(p, actor, t, n, does)
        PROVE  Safe(p)
    <2> DEFINE a == [NoArg EXCEPT !.actor = actor, !.user = t, !.note = n,
                                  !.does = does]
    <2>1. "note" \in FirstPCs
      BY DEF FirstPCs
    <2>2. Holds("note", a)
      BY DEF NoArg, Arg, OrNone, Holds, HoldsUser, HoldsCode, HoldsAct, UserPCs,
             NewUserPCs, SendPCs, ValidatePCs, SetPCs, NotePCs, NoteActs
    <2>3. QED
      BY <1>1, <2>1, <2>2, StartAt DEF StartNote
  <1>2. {"added", "updated", "deleted"} \subseteq NoteActs
    BY DEF NoteActs
  <1>3. ASSUME NEW u \in Users,
               \/ AddCustomerNote(p, actor, u, n) \/ EditCustomerNote(p, actor, u, n)
               \/ DeleteCustomerNote(p, actor, u, n)
        PROVE  Safe(p)
    BY <1>1, <1>2, <1>3
    DEF AddCustomerNote, EditCustomerNote, DeleteCustomerNote
  <1>4. CASE \/ AddOperatorNote(p, actor, n) \/ EditOperatorNote(p, actor, n)
             \/ DeleteOperatorNote(p, actor, n)
    BY <1>1, <1>2, <1>4
    DEF AddOperatorNote, EditOperatorNote, DeleteOperatorNote
  <1>5. QED
    BY <1>3, <1>4

\* The steps that read, and the handlers that end.
LEMMA ThrowsSafe ==
    ASSUME ActorInv, NEW p \in Clients,
           \/ EmailExists(p) \/ ProfileThrows(p) \/ ControllerThrows(p)
           \/ NoteIsGone(p) \/ PermissionsThrow(p)
    PROVE  Safe(p)
  <1>1. {"register", "profile.update", "controller.create", "note.update"}
            \subseteq Elsewhere \ {"idle"}
    BY DEF Elsewhere, PC
  <1>2. CASE \/ EmailExists(p) \/ ProfileThrows(p) \/ ControllerThrows(p)
             \/ NoteIsGone(p)
    BY <1>1, <1>2, ThrowAt
    DEF EmailExists, ProfileThrows, ControllerThrows, NoteIsGone
  <1>3. CASE PermissionsThrow(p)
    <2>1. pc[p] \in GrantPCs /\ permissions[arg[p].user] \intersect arg[p].set # {}
          /\ Throw(p)
      BY <1>3 DEF PermissionsThrow, GrantPCs
    <2>2. ~At(p)
      BY <2>1 DEF At, Handler, Fresh
    <2>3. Moves(p)
      BY <2>1, HandlerMoves DEF Throw, Read, GrantPCs
    <2>4. QED
      BY <2>2, <2>3 DEF Safe
  <1>4. QED
    BY <1>2, <1>3

\* A step that reads and goes on with what it holds.
LEMMA ReadOnSafe ==
    ASSUME ActorInv, NEW p \in Clients, NEW step \in Elsewhere \ {"idle"}, NEW a,
           Read(p, step, a), pc[p] \in Elsewhere \ {"idle"},
           At(p) /\ arg[p] \in Arg => a \in Arg,
           At(p) => HoldsUser(step, a) /\ HoldsCode(step, a) /\ HoldsAct(step, a)
                    /\ Fresh(step, a)
    PROVE  Safe(p)
  <1>1. At(p) => arg[p] \in Arg
    BY DEF At, Handler, Holds
  <1>2. At(p) => Handler(step, a)
    BY <1>1 DEF Handler, Holds
  <1>3. QED
    BY <1>2, ReadAt

LEMMA UserReadsSafe ==
    ASSUME ActorInv, NEW p \in Clients,
           CheckNewEmail(p) \/ ComparePassword(p) \/ CheckControllerEmail(p)
              \/ FindController(p) \/ FindForStatus(p)
    PROVE  Safe(p)
  <1> DEFINE From == {"profile", "change", "controller", "permissions", "status"}
             Step == {"profile.update", "change.write", "controller.create",
                      "permissions.delete", "status.update"}
  <1>1. From \cup Step \subseteq Elsewhere \ {"idle"}
    BY DEF Elsewhere, PC
  <1>2. pc[p] \in From
    BY DEF CheckNewEmail, ComparePassword, CheckControllerEmail, FindController,
           FindForStatus
  <1>3. CASE Throw(p)
    BY <1>1, <1>2, <1>3, ThrowAt
  <1>4. ASSUME NEW step \in Step, Read(p, step, arg[p]),
               <<pc[p], step>> \in {<<"profile", "profile.update">>,
                  <<"change", "change.write">>, <<"controller", "controller.create">>,
                  <<"permissions", "permissions.delete">>,
                  <<"status", "status.update">>}
        PROVE  Safe(p)
    <2>1. At(p) => HoldsUser(pc[p], arg[p]) /\ HoldsCode(pc[p], arg[p])
                   /\ HoldsAct(pc[p], arg[p])
      BY DEF At, Handler, Holds
    <2>2. At(p) => HoldsUser(step, arg[p]) /\ HoldsCode(step, arg[p])
                   /\ HoldsAct(step, arg[p])
      BY <1>4, <2>1
      DEF HoldsUser, HoldsCode, HoldsAct, UserPCs, NewUserPCs, SendPCs,
          ValidatePCs, SetPCs, NotePCs
    <2>3. Fresh(step, arg[p])
      BY DEF Fresh, GrantPCs
    <2>4. QED
      BY <1>1, <1>2, <1>4, <2>2, <2>3, ReadOnSafe
  <1>5. QED
    BY <1>3, <1>4
    DEF CheckNewEmail, ComparePassword, CheckControllerEmail, FindController,
        FindForStatus

LEMMA LoginReadSafe ==
    ASSUME ActorInv, NEW p \in Clients, ValidateUser(p)
    PROVE  Safe(p)
  <1>1. {"login", "login.sign"} \subseteq Elsewhere \ {"idle"} /\ pc[p] = "login"
    BY DEF Elsewhere, PC, ValidateUser
  <1>2. CASE Throw(p)
    BY <1>1, <1>2, ThrowAt
  <1>3. ASSUME NEW u \in FindByEmail(arg[p].email),
               Read(p, "login.sign", [NoArg EXCEPT !.user = u, !.role = account[u].role])
        PROVE  Safe(p)
    <2> DEFINE a == [NoArg EXCEPT !.user = u, !.role = account[u].role]
    <2>1. At(p) => u \in Users /\ Exists(u) /\ account[u].role \in Roles
      BY DEF FindByEmail, WithEmail, At, Tables, Exists, Account, OrNone
    <2>2. At(p) => /\ a \in Arg
                   /\ HoldsUser("login.sign", a) /\ HoldsCode("login.sign", a)
                   /\ HoldsAct("login.sign", a)
      BY <2>1
      DEF NoArg, Arg, OrNone, HoldsUser, HoldsCode, HoldsAct, UserPCs,
          NewUserPCs, SendPCs, ValidatePCs, SetPCs, NotePCs
    <2>3. Fresh("login.sign", a)
      BY DEF Fresh, GrantPCs
    <2>4. QED
      BY <1>1, <1>3, <2>2, <2>3, ReadOnSafe
  <1>4. QED
    BY <1>2, <1>3 DEF ValidateUser

LEMMA SendReadsSafe ==
    ASSUME ActorInv, NEW p \in Clients, FindForCode(p) \/ CheckCooldown(p)
    PROVE  Safe(p)
  <1>1. {"code", "code.cooldown", "code.invalidate"} \subseteq Elsewhere \ {"idle"}
        /\ pc[p] \in {"code", "code.cooldown"}
    BY DEF Elsewhere, PC, FindForCode, CheckCooldown
  <1>2. CASE Throw(p)
    BY <1>1, <1>2, ThrowAt
  <1>3. ASSUME NEW u \in FindByEmail(arg[p].email), pc[p] = "code",
               Read(p, "code.cooldown", [arg[p] EXCEPT !.user = u])
        PROVE  Safe(p)
    <2> DEFINE a == [arg[p] EXCEPT !.user = u]
    <2>1. At(p) => u \in Users /\ Exists(u)
      BY DEF FindByEmail, WithEmail
    <2>2. At(p) => /\ arg[p] \in Arg /\ arg[p].email \in Emails
                   /\ arg[p].type \in OtpType
      BY <1>3 DEF At, Handler, Holds, HoldsCode, SendPCs
    <2>3. At(p) => /\ a \in Arg /\ a.user = u /\ a.email = arg[p].email
                   /\ a.type = arg[p].type
      BY <2>1, <2>2 DEF Arg, OrNone
    <2> HIDE DEF a
    <2>4. At(p) => HoldsUser("code.cooldown", a) /\ HoldsCode("code.cooldown", a)
                   /\ HoldsAct("code.cooldown", a)
      BY <2>1, <2>2, <2>3
      DEF HoldsUser, HoldsCode, HoldsAct, UserPCs, NewUserPCs, SendPCs,
          ValidatePCs, SetPCs, NotePCs
    <2>5. Fresh("code.cooldown", a)
      BY DEF Fresh, GrantPCs
    <2>6. Read(p, "code.cooldown", a)
      BY <1>3 DEF a
    <2>7. QED
      BY <1>1, <2>3, <2>4, <2>5, <2>6, ReadOnSafe
  <1>4. ASSUME pc[p] = "code.cooldown",
               Read(p, "code.invalidate", [arg[p] EXCEPT !.expiresAt = now + Expiry])
        PROVE  Safe(p)
    <2> DEFINE a == [arg[p] EXCEPT !.expiresAt = now + Expiry]
    <2>1. At(p) => now + Expiry \in Nat
      BY AccountsAssumption DEF At, Tables
    <2>2. At(p) => /\ arg[p] \in Arg /\ arg[p].email \in Emails
                   /\ arg[p].type \in OtpType /\ arg[p].user \in Users
                   /\ Exists(arg[p].user)
      BY <1>4 DEF At, Handler, Holds, HoldsCode, HoldsUser, SendPCs, UserPCs
    <2>3. At(p) => /\ a \in Arg /\ a.user = arg[p].user /\ a.email = arg[p].email
                   /\ a.type = arg[p].type /\ a.expiresAt \in Nat
      BY <2>1, <2>2 DEF Arg
    <2> HIDE DEF a
    <2>4. At(p) => HoldsUser("code.invalidate", a) /\ HoldsCode("code.invalidate", a)
                   /\ HoldsAct("code.invalidate", a)
      BY <2>2, <2>3
      DEF HoldsUser, HoldsCode, HoldsAct, UserPCs, NewUserPCs, SendPCs,
          ValidatePCs, SetPCs, NotePCs
    <2>5. Fresh("code.invalidate", a)
      BY DEF Fresh, GrantPCs
    <2>6. Read(p, "code.invalidate", a)
      BY <1>4 DEF a
    <2>7. QED
      BY <1>1, <2>3, <2>4, <2>5, <2>6, ReadOnSafe
  <1>5. QED
    BY <1>2, <1>3, <1>4 DEF FindForCode, CheckCooldown

\* What makes a code or an address fresh is what these steps check.
LEMMA ValidateReadsSafe ==
    ASSUME ActorInv, NEW p \in Clients, FindCode(p) \/ FindCodeUser(p)
    PROVE  Safe(p)
  <1>1. {"validate", "validate.use", "validated", "reset.write", "verify.write"}
            \subseteq Elsewhere \ {"idle"}
        /\ pc[p] \in {"validate", "validated"}
    BY DEF Elsewhere, PC, FindCode, FindCodeUser
  <1>2. CASE Throw(p)
    BY <1>1, <1>2, ThrowAt
  <1>0. At(p) => /\ arg[p] \in Arg /\ arg[p].code \in DOMAIN otpTokens
                 /\ arg[p].type \in OtpType /\ arg[p].email \in Emails
                 /\ arg[p].type = "PASSWORD_RESET" => arg[p].password \in Passwords
    BY <1>1 DEF At, Handler, Holds, HoldsCode, ValidatePCs
  <1>3. ASSUME pc[p] = "validate", Read(p, "validate.use", arg[p]),
               Usable(arg[p].code, arg[p].email, arg[p].type)
        PROVE  Safe(p)
    <2>1. At(p) => HoldsUser("validate.use", arg[p]) /\ HoldsCode("validate.use", arg[p])
                   /\ HoldsAct("validate.use", arg[p])
      BY <1>0
      DEF HoldsUser, HoldsCode, HoldsAct, UserPCs, NewUserPCs, SendPCs,
          ValidatePCs, SetPCs, NotePCs
    <2>2. Fresh("validate.use", arg[p])
      BY <1>3 DEF Fresh, GrantPCs, Usable
    <2>3. QED
      BY <1>1, <1>3, <2>1, <2>2, ReadOnSafe
  <1>4. ASSUME NEW u \in FindByEmail(arg[p].email), pc[p] = "validated",
               Read(p, IF arg[p].type = "PASSWORD_RESET"
                       THEN "reset.write" ELSE "verify.write",
                    [arg[p] EXCEPT !.user = u])
        PROVE  Safe(p)
    <2> DEFINE a == [arg[p] EXCEPT !.user = u]
               step == IF arg[p].type = "PASSWORD_RESET"
                       THEN "reset.write" ELSE "verify.write"
    <2>1. At(p) => u \in Users /\ Exists(u) /\ account[u].email = arg[p].email
      BY DEF FindByEmail, WithEmail
    <2>2. At(p) => /\ a \in Arg /\ a.user = u /\ a.email = arg[p].email
                   /\ a.password = arg[p].password
      BY <1>0, <2>1 DEF Arg, OrNone
    <2> HIDE DEF a
    <2>3. At(p) => HoldsUser(step, a) /\ HoldsCode(step, a) /\ HoldsAct(step, a)
      BY <1>0, <2>1, <2>2
      DEF HoldsUser, HoldsCode, HoldsAct, UserPCs, NewUserPCs, SendPCs,
          ValidatePCs, SetPCs, NotePCs
    <2>4. At(p) => Fresh(step, a)
      BY <2>1, <2>2 DEF Fresh, GrantPCs
    <2>5. Read(p, step, a)
      BY <1>4 DEF a
    <2>6. step \in Elsewhere \ {"idle"} /\ pc[p] \in Elsewhere \ {"idle"}
      BY <1>1
    <2> HIDE DEF step
    <2>7. QED
      BY <2>2, <2>3, <2>4, <2>5, <2>6, ReadOnSafe
  <1>5. QED
    BY <1>2, <1>3, <1>4 DEF FindCode, FindCodeUser

LEMMA NoteReadsSafe ==
    ASSUME ActorInv, NEW p \in Clients, FindNoteTarget(p) \/ FindNote(p)
    PROVE  Safe(p)
  <1>1. {"note", "note.create", "note.update"} \subseteq Elsewhere \ {"idle"}
        /\ pc[p] = "note"
    BY DEF Elsewhere, PC, FindNoteTarget, FindNote
  <1>2. CASE Throw(p)
    BY <1>1, <1>2, ThrowAt
  <1>3. ASSUME NEW step \in {"note.create", "note.update"}, Read(p, step, arg[p]),
               step = "note.create" <=> arg[p].does = "added"
        PROVE  Safe(p)
    <2>1. At(p) => HoldsAct("note", arg[p])
      BY <1>1 DEF At, Handler, Holds
    <2>2. At(p) => HoldsUser(step, arg[p]) /\ HoldsCode(step, arg[p])
                   /\ HoldsAct(step, arg[p])
      BY <1>3, <2>1
      DEF HoldsUser, HoldsCode, HoldsAct, UserPCs, NewUserPCs, SendPCs,
          ValidatePCs, SetPCs, NotePCs, NoteActs
    <2>3. Fresh(step, arg[p])
      BY DEF Fresh, GrantPCs
    <2>4. QED
      BY <1>1, <1>3, <2>2, <2>3, ReadOnSafe
  <1>4. QED
    BY <1>2, <1>3 DEF FindNoteTarget, FindNote

----------------------------------------------------------------------------
(* The writes of accounts *)

\* Nothing waits to be logged or granted.
LogNow ==
    /\ \A u \in Users :
        /\ audited.isActive[u] \in {None, Exists(u) /\ account[u].isActive}
        /\ audited.permissions[u] \in {None, permissions[u]}
    /\ \A n \in Notes : audited.note[n] = NoteSays(n)

LEMMA NowIsAt ==
    ASSUME NEW p \in Clients, At(p), pc[p] \in Elsewhere, crashes = 0
    PROVE  permissions = granted /\ LogNow
  BY DEF At, GrantsAt, LogAt, LogNow, WillLogStatus, WillLogPermissions,
         WillLogNote, Elsewhere, GrantPCs

LEMMA LogNowAt ==
    ASSUME NEW p \in Clients, LogNow'
    PROVE  LogAt(p)'
  BY DEF LogNow, LogAt

\* What a write that ends its handler has to show.
LEMMA EndAt ==
    ASSUME NEW p \in Clients, ActorInv, Return(p), crashes' = crashes,
           Tables', AddressesProved', NewestUnused', AcceptedUsed',
           crashes = 0 => permissions' = granted' /\ LogNow'
    PROVE  At(p)'
  <1>1. pc'[p] = "idle"
    BY DEF Return, GotoWith, ActorInv
  <1>2. Handler(pc[p], arg[p])'
    BY <1>1, IdleHandler
  <1>3. crashes = 0 => GrantsAt(p)' /\ LogAt(p)'
    BY LogNowAt DEF GrantsAt
  <1>4. QED
    BY <1>2, <1>3 DEF At

\* A row of an account is written: an account never goes away.
LEMMA RowWritten ==
    ASSUME Tables, NewestUnused, AcceptedUsed,
           NEW u \in Users, NEW row \in Account,
           account' = [account EXCEPT ![u] = row],
           granted' \in [Users -> SUBSET Permissions],
           UNCHANGED <<permissions, token, otpTokens, accepted, notes, audited,
                       now, crashes>>
    PROVE  /\ Tables' /\ NewestUnused' /\ AcceptedUsed'
           /\ account'[u] = row /\ Exists(u)'
           /\ \A w \in Users : w # u => account'[w] = account[w]
  <1>1. /\ account'[u] = row /\ \A w \in Users : w # u => account'[w] = account[w]
        /\ account' \in [Users -> OrNone(Account)]
    BY DEF Tables, OrNone
  <1>2. row # None
    BY NullIsNoRow
  <1>3. \A w \in Users : Exists(w) => Exists(w)'
    BY <1>1, <1>2 DEF Exists
  <1>4. Tables'
    BY <1>1, <1>3 DEF Tables, Exists
  <1>5. NewestUnused' /\ AcceptedUsed'
    BY DEF NewestUnused, AcceptedUsed
  <1>6. QED
    BY <1>1, <1>2, <1>4, <1>5 DEF Exists

\* The log tells the state when the row is new or stays active or not.
LEMMA RowLogged ==
    ASSUME Tables, LogNow, NEW u \in Users, NEW row \in Account,
           account' = [account EXCEPT ![u] = row],
           ~Exists(u) \/ row.isActive = account[u].isActive,
           UNCHANGED <<permissions, notes, audited>>
    PROVE  LogNow'
  <1>1. account'[u] = row /\ \A w \in Users : w # u => account'[w] = account[w]
    BY DEF Tables
  <1>2. row # None
    BY NullIsNoRow
  <1>3. ASSUME NEW w \in Users
        PROVE  audited.isActive[w] \in {None, Exists(w)' /\ account'[w].isActive}
    <2>1. CASE w = u /\ ~Exists(u)
      BY <2>1 DEF Tables
    <2>2. CASE w = u /\ Exists(u)
      BY <1>1, <1>2, <2>2 DEF LogNow, Exists
    <2>3. CASE w # u
      BY <1>1, <2>3 DEF LogNow, Exists
    <2>4. QED
      BY <2>1, <2>2, <2>3
  <1>4. QED
    BY <1>3 DEF LogNow, NoteSays

\* Addresses stay proved when the row that is written is.
LEMMA RowProved ==
    ASSUME Tables, AddressesProved, NEW u \in Users, NEW row,
           account' = [account EXCEPT ![u] = row], proved \subseteq proved',
           row.isEmailVerified => <<u, row.email>> \in proved'
    PROVE  AddressesProved'
  <1>1. account'[u] = row /\ \A w \in Users : w # u => account'[w] = account[w]
    BY DEF Tables
  <1>2. SUFFICES ASSUME NEW w \in Users, account'[w] # None,
                        account'[w].isEmailVerified
                 PROVE  <<w, account'[w].email>> \in proved'
    BY DEF AddressesProved, Exists
  <1>3. CASE w = u
    BY <1>1, <1>2, <1>3
  <1>4. CASE w # u
    BY <1>1, <1>2, <1>4 DEF AddressesProved, Exists
  <1>5. QED
    BY <1>3, <1>4

\* A handler that writes a row of an account, and ends.
LEMMA RowWriteAt ==
    ASSUME ActorInv, NEW p \in Clients, At(p), pc[p] \in Elsewhere, Return(p),
           NEW u \in Users, NEW row \in Account,
           account' = [account EXCEPT ![u] = row],
           ~Exists(u) \/ row.isActive = account[u].isActive,
           proved \subseteq proved',
           row.isEmailVerified => <<u, row.email>> \in proved',
           UNCHANGED <<permissions, granted, token, otpTokens, accepted, notes,
                       audited, now, crashes>>
    PROVE  At(p)'
  <1>0. Tables /\ AddressesProved /\ NewestUnused /\ AcceptedUsed
    BY DEF At
  <1>1. granted' \in [Users -> SUBSET Permissions]
    BY <1>0 DEF Tables
  <1>2. Tables' /\ NewestUnused' /\ AcceptedUsed'
    BY <1>0, <1>1, RowWritten
  <1>3. AddressesProved'
    BY <1>0, RowProved
  <1>4. crashes = 0 => permissions' = granted' /\ LogNow'
    BY <1>0, NowIsAt, RowLogged
  <1>5. QED
    BY <1>2, <1>3, <1>4, EndAt

LEMMA UserWritesSafe ==
    ASSUME ActorInv, NEW p \in Clients,
           CreateUser(p) \/ WriteProfile(p) \/ WritePassword(p)
              \/ MarkEmailAsVerified(p)
    PROVE  Safe(p)
  <1> DEFINE a == arg[p]
  <1>1. /\ Return(p) /\ UNCHANGED boundVars
        /\ UNCHANGED <<permissions, granted, token, otpTokens, accepted, notes,
                       audited, now, crashes>>
    BY DEF CreateUser, WriteProfile, WritePassword, MarkEmailAsVerified,
           WriteAccounts, historyVars, boundVars
  <1>2. pc[p] \in {"register", "profile.update", "change.write", "reset.write",
                   "verify.write"}
    BY DEF CreateUser, WriteProfile, WritePassword, MarkEmailAsVerified
  <1>3. pc[p] \in Elsewhere \ {"idle"}
    BY <1>2 DEF Elsewhere, PC
  <1>4. Moves(p)
    BY <1>1, <1>3, HandlerMoves DEF Return
  <1>5. SUFFICES ASSUME At(p) PROVE At(p)'
    BY <1>4 DEF Safe
  <1>6. /\ a.user \in Users /\ Tables
        /\ pc[p] # "register" => Exists(a.user) /\ account[a.user] \in Account
    BY <1>2, <1>5
    DEF At, Tables, Handler, Holds, HoldsUser, UserPCs, NewUserPCs, Exists, OrNone
  <1>7. CASE CreateUser(p)
    <2> DEFINE row == [email |-> a.email, password |-> a.password,
                       role |-> "CUSTOMER", isEmailVerified |-> FALSE,
                       isActive |-> TRUE]
    <2>1. a.email \in Emails /\ a.password \in Passwords
      BY <1>5, <1>7
      DEF CreateUser, At, Handler, Holds, HoldsUser, NewUserPCs
    <2>2. row \in Account /\ ~row.isEmailVerified
      BY <2>1 DEF Account, Roles
    <2>3. account' = [account EXCEPT ![a.user] = row] /\ ~Exists(a.user)
          /\ proved' = proved
      BY <1>7 DEF CreateUser, WriteAccounts, historyVars
    <2> HIDE DEF row
    <2>4. QED
      BY <1>1, <1>3, <1>5, <1>6, <2>2, <2>3, RowWriteAt
  <1>8. CASE WriteProfile(p)
    <2> DEFINE row == [account[a.user] EXCEPT !.email = a.email,
                                              !.isEmailVerified = FALSE]
    <2>1. a.email \in Emails /\ account[a.user] \in Account
      BY <1>5, <1>6, <1>8
      DEF WriteProfile, At, Handler, Holds, HoldsUser
    <2>2. row \in Account /\ ~row.isEmailVerified
          /\ row.isActive = account[a.user].isActive
      BY <2>1 DEF Account
    <2>3. account' = [account EXCEPT ![a.user] = row] /\ proved' = proved
      BY <1>8 DEF WriteProfile, WriteAccounts, historyVars
    <2> HIDE DEF row
    <2>4. QED
      BY <1>1, <1>3, <1>5, <1>6, <2>2, <2>3, RowWriteAt
  <1>9. CASE WritePassword(p)
    <2> DEFINE row == [account[a.user] EXCEPT !.password = a.password]
    <2>1. a.password \in Passwords /\ account[a.user] \in Account /\ Exists(a.user)
      BY <1>5, <1>6, <1>9
      DEF WritePassword, At, Handler, Holds, HoldsUser
    <2>2. row \in Account /\ row.isActive = account[a.user].isActive
          /\ row.isEmailVerified = account[a.user].isEmailVerified
          /\ row.email = account[a.user].email
      BY <2>1 DEF Account
    <2>3. account' = [account EXCEPT ![a.user] = row] /\ proved' = proved
      BY <1>9 DEF WritePassword, WriteAccounts, historyVars
    <2>4. row.isEmailVerified => <<a.user, row.email>> \in proved'
      BY <1>5, <1>6, <2>1, <2>2, <2>3 DEF At, AddressesProved
    <2> HIDE DEF row
    <2>5. QED
      BY <1>1, <1>3, <1>5, <1>6, <2>2, <2>3, <2>4, RowWriteAt
  <1>10. CASE MarkEmailAsVerified(p)
    <2> DEFINE row == [account[a.user] EXCEPT !.isEmailVerified = TRUE]
    <2>1. account[a.user] \in Account /\ account[a.user].email = a.email
      BY <1>5, <1>6, <1>10
      DEF MarkEmailAsVerified, At, Handler, Fresh
    <2>2. row \in Account /\ row.isActive = account[a.user].isActive
          /\ row.email = a.email
      BY <2>1 DEF Account
    <2>3. account' = [account EXCEPT ![a.user] = row]
          /\ proved' = proved \union {<<a.user, a.email>>}
      BY <1>10 DEF MarkEmailAsVerified, WriteAccounts
    <2> HIDE DEF row
    <2>4. QED
      BY <1>1, <1>3, <1>5, <1>6, <2>2, <2>3, RowWriteAt
  <1>11. QED
    BY <1>7, <1>8, <1>9, <1>10

----------------------------------------------------------------------------
(* The writes of codes and tokens *)

\* A write of codes that leaves the other tables alone.
LEMMA CodesAt ==
    ASSUME ActorInv, NEW p \in Clients, At(p), pc[p] \in Elsewhere,
           NEW step \in Elsewhere, NEW a, GotoWith(p, step, a),
           Handler(step, a)',
           UNCHANGED <<account, permissions, granted, token, notes, audited,
                       proved, now, crashes>>,
           otpTokens' \in Seq(Code), accepted' \in Seq(Nat),
           NewestUnused', AcceptedUsed'
    PROVE  At(p)'
  <1>1. pc'[p] = step /\ arg'[p] = a
    BY DEF GotoWith, ActorInv
  <1>2. Handler(pc[p], arg[p])'
    BY <1>1
  <1>3. Tables' /\ AddressesProved'
    BY DEF At, Tables, AddressesProved, Exists
  <1>4. crashes = 0 => GrantsAt(p)' /\ LogAt(p)'
    BY NowIsAt DEF GrantsAt, LogNow, LogAt, Exists, NoteSays
  <1>5. QED
    BY <1>2, <1>3, <1>4 DEF At

LEMMA InvalidateCodesSafe ==
    ASSUME ActorInv, NEW p \in Clients, InvalidateCodes(p)
    PROVE  Safe(p)
  <1>1. PICK a : a = arg[p]
    OBVIOUS
  <1>2. /\ pc[p] = "code.invalidate" /\ GotoWith(p, "code.create", a)
        /\ otpTokens' = [i \in DOMAIN otpTokens |->
                IF i \in OfKind(a.email, a.type)
                THEN [otpTokens[i] EXCEPT !.used = TRUE] ELSE otpTokens[i]]
        /\ accepted' = accepted /\ UNCHANGED boundVars
        /\ UNCHANGED <<account, permissions, granted, token, notes, audited,
                       proved, now, crashes>>
    BY <1>1 DEF InvalidateCodes, WriteCodes, Goto, historyVars, boundVars
  <1>3. {"code.invalidate", "code.create"} \subseteq Elsewhere \ {"idle"}
    BY DEF Elsewhere, PC
  <1>4. Moves(p)
    BY <1>2, HandlerMoves
  <1>5. SUFFICES ASSUME At(p) PROVE At(p)'
    BY <1>4 DEF Safe
  <1>6. otpTokens \in Seq(Code) /\ NewestUnused /\ AcceptedUsed
        /\ accepted \in Seq(Nat)
    BY <1>5 DEF At, Tables
  <1>7. Len(otpTokens) \in Nat /\ DOMAIN otpTokens = 1 .. Len(otpTokens)
        /\ \A i \in DOMAIN otpTokens : otpTokens[i] \in Code
    BY <1>6, LenProperties, ElementOfSeq
  <1>8. ASSUME NEW i \in DOMAIN otpTokens
        PROVE  /\ otpTokens'[i] \in Code
               /\ SameKind(otpTokens'[i], otpTokens[i])
               /\ otpTokens[i].used => otpTokens'[i].used
               /\ SameKind(otpTokens[i], a) => otpTokens'[i].used
    <2>1. otpTokens[i] \in Code
      BY <1>7
    <2>2. CASE i \in OfKind(a.email, a.type)
      <3>1. otpTokens'[i] = [otpTokens[i] EXCEPT !.used = TRUE]
        BY <1>2, <2>2
      <3>2. QED
        BY <2>1, <3>1 DEF Code, SameKind
    <2>3. CASE i \notin OfKind(a.email, a.type)
      BY <1>2, <2>1, <2>3 DEF SameKind, OfKind
    <2>4. QED
      BY <2>2, <2>3
  <1>9. DOMAIN otpTokens' = DOMAIN otpTokens
    BY <1>2
  <1>10. otpTokens' \in Seq(Code)
    <2>1. otpTokens' \in [1 .. Len(otpTokens) -> Code]
      BY <1>2, <1>7, <1>8, <1>9
    <2>2. QED
      BY <1>7, <2>1
  <1>11. NewestUnused'
    BY <1>6, <1>8, <1>9 DEF NewestUnused, SameKind
  <1>12. AcceptedUsed'
    BY <1>2, <1>6, <1>8, <1>9 DEF AcceptedUsed
  <1>13. Handler("code.create", a)'
    <2>1. /\ a \in Arg /\ a.user \in Users /\ Exists(a.user) /\ a.email \in Emails
          /\ a.type \in OtpType /\ a.expiresAt \in Nat
      BY <1>1, <1>2, <1>5
      DEF At, Handler, Holds, HoldsUser, HoldsCode, UserPCs, SendPCs
    <2>2. Exists(a.user)'
      BY <1>2, <2>1 DEF Exists
    <2>3. Holds("code.create", a)'
      BY <2>1, <2>2
      DEF Holds, HoldsUser, HoldsCode, HoldsAct, UserPCs, NewUserPCs, SendPCs,
          ValidatePCs, SetPCs, NotePCs
    <2>4. Fresh("code.create", a)'
      BY <1>8, <1>9 DEF Fresh, SameKind, GrantPCs
    <2>5. QED
      BY <2>3, <2>4 DEF Handler
  <1>14. QED
    BY <1>2, <1>3, <1>5, <1>6, <1>10, <1>11, <1>12, <1>13, CodesAt

LEMMA CreateCodeSafe ==
    ASSUME ActorInv, NEW p \in Clients, CreateCode(p)
    PROVE  Safe(p)
  <1>1. PICK a : a = arg[p]
    OBVIOUS
  <1> DEFINE code == [user |-> a.user, email |-> a.email, type |-> a.type,
                      createdAt |-> now, expiresAt |-> a.expiresAt, used |-> FALSE]
             n == Len(otpTokens)
  <1>2. /\ pc[p] = "code.create" /\ GotoWith(p, "idle", NoArg)
        /\ otpTokens' = Append(otpTokens, code)
        /\ accepted' = accepted /\ UNCHANGED boundVars
        /\ UNCHANGED <<account, permissions, granted, token, notes, audited,
                       proved, now, crashes>>
    BY <1>1 DEF CreateCode, WriteCodes, Return, historyVars, boundVars
  <1>3. {"code.create", "idle"} \subseteq Elsewhere
    BY DEF Elsewhere, PC
  <1>4. Moves(p)
    BY <1>2, HandlerMoves
  <1>5. SUFFICES ASSUME At(p) PROVE At(p)'
    BY <1>4 DEF Safe
  <1>6. /\ otpTokens \in Seq(Code) /\ NewestUnused /\ AcceptedUsed
        /\ accepted \in Seq(Nat) /\ now \in Nat
    BY <1>5 DEF At, Tables
  <1>7. Handler("code.create", a)
    BY <1>1, <1>2, <1>5 DEF At
  <1>8. /\ code \in Code /\ SameKind(code, a)
        /\ \A i \in DOMAIN otpTokens :
              SameKind(otpTokens[i], code) => otpTokens[i].used
    <2>1. /\ a.user \in Users /\ a.email \in Emails
          /\ a.type \in OtpType /\ a.expiresAt \in Nat
      BY <1>7 DEF Handler, Holds, HoldsUser, HoldsCode, UserPCs, SendPCs
    <2>2. QED
      BY <1>6, <1>7, <2>1 DEF Handler, Fresh, Code, SameKind
  <1> HIDE DEF code
  <1>9. /\ n \in Nat /\ DOMAIN otpTokens = 1 .. n
        /\ otpTokens' \in Seq(Code) /\ DOMAIN otpTokens' = 1 .. n + 1
        /\ \A i \in 1 .. n : otpTokens'[i] = otpTokens[i]
        /\ otpTokens'[n + 1] = code
    BY <1>2, <1>6, <1>8, LenProperties, AppendProperties
  <1>10. NewestUnused'
    <2> SUFFICES ASSUME NEW i \in 1 .. n + 1, NEW j \in 1 .. n + 1, i < j,
                        SameKind(otpTokens'[i], otpTokens'[j])
                 PROVE  otpTokens'[i].used
      BY <1>9 DEF NewestUnused, SameKind
    <2>1. i \in 1 .. n /\ otpTokens'[i] = otpTokens[i]
      BY <1>9
    <2>2. CASE j \in 1 .. n
      BY <1>6, <1>9, <2>1, <2>2 DEF NewestUnused
    <2>3. CASE j = n + 1
      BY <1>8, <1>9, <2>1, <2>3
    <2>4. QED
      BY <1>9, <2>2, <2>3
  <1>11. AcceptedUsed'
    BY <1>2, <1>6, <1>9 DEF AcceptedUsed
  <1>12. QED
    BY <1>2, <1>3, <1>5, <1>6, <1>9, <1>10, <1>11, IdleHandler, CodesAt

LEMMA UseCodeSafe ==
    ASSUME ActorInv, NEW p \in Clients, UseCode(p)
    PROVE  Safe(p)
  <1>1. PICK a : a = arg[p]
    OBVIOUS
  <1>2. /\ pc[p] = "validate.use" /\ GotoWith(p, "validated", a)
        /\ otpTokens' = [otpTokens EXCEPT ![a.code] = [@ EXCEPT !.used = TRUE]]
        /\ accepted' = Append(accepted, a.code) /\ UNCHANGED boundVars
        /\ UNCHANGED <<account, permissions, granted, token, notes, audited,
                       proved, now, crashes>>
    BY <1>1 DEF UseCode, WriteCodes, Goto, historyVars, boundVars
  <1>3. {"validate.use", "validated"} \subseteq Elsewhere \ {"idle"}
    BY DEF Elsewhere, PC
  <1>4. Moves(p)
    BY <1>2, HandlerMoves
  <1>5. SUFFICES ASSUME At(p) PROVE At(p)'
    BY <1>4 DEF Safe
  <1>6. /\ otpTokens \in Seq(Code) /\ NewestUnused /\ AcceptedUsed
        /\ accepted \in Seq(Nat)
    BY <1>5 DEF At, Tables
  <1>7. Handler("validate.use", a)
    BY <1>1, <1>2, <1>5 DEF At
  <1>8. a.code \in DOMAIN otpTokens /\ ~otpTokens[a.code].used
    BY <1>7 DEF Handler, Holds, HoldsCode, Fresh, ValidatePCs
  <1>9. /\ Len(otpTokens) \in Nat /\ DOMAIN otpTokens = 1 .. Len(otpTokens)
        /\ a.code \in Nat /\ otpTokens[a.code] \in Code
    BY <1>6, <1>8, LenProperties, ElementOfSeq
  <1> DEFINE code == [otpTokens[a.code] EXCEPT !.used = TRUE]
  <1>10. code \in Code /\ code.used /\ SameKind(code, otpTokens[a.code])
    BY <1>9 DEF Code, SameKind
  <1>11. otpTokens' = [otpTokens EXCEPT ![a.code] = code]
    BY <1>2
  <1> HIDE DEF code
  <1>12. otpTokens' \in Seq(Code) /\ DOMAIN otpTokens' = DOMAIN otpTokens
    BY <1>6, <1>8, <1>9, <1>10, <1>11, ExceptSeq
  <1>13. /\ otpTokens'[a.code] = code
         /\ \A i \in DOMAIN otpTokens : i # a.code => otpTokens'[i] = otpTokens[i]
    BY <1>8, <1>11
  <1>14. \A i \in DOMAIN otpTokens :
            /\ SameKind(otpTokens'[i], otpTokens[i])
            /\ otpTokens[i].used => otpTokens'[i].used
    BY <1>10, <1>13 DEF SameKind
  <1>15. NewestUnused'
    BY <1>6, <1>12, <1>14 DEF NewestUnused, SameKind
  <1>16. accepted' \in Seq(Nat) /\ AcceptedUsed'
    <2> DEFINE k == Len(accepted)
    <2>1. /\ k \in Nat /\ DOMAIN accepted = 1 .. k
          /\ accepted' \in Seq(Nat) /\ DOMAIN accepted' = 1 .. k + 1
          /\ \A i \in 1 .. k : accepted'[i] = accepted[i]
          /\ accepted'[k + 1] = a.code
      BY <1>2, <1>6, <1>9, LenProperties, AppendProperties
    <2>2. \A i \in 1 .. k : accepted[i] # a.code
      BY <1>6, <1>8, <2>1 DEF AcceptedUsed
    <2>3. \A i \in 1 .. k + 1 : i \in 1 .. k \/ i = k + 1
      BY <2>1
    <2> HIDE DEF k
    <2>4. ASSUME NEW i \in 1 .. k + 1
          PROVE  accepted'[i] \in DOMAIN otpTokens' /\ otpTokens'[accepted'[i]].used
      <3>1. CASE i \in 1 .. k
        BY <1>6, <1>12, <1>14, <2>1, <3>1 DEF AcceptedUsed
      <3>2. CASE i = k + 1
        BY <1>8, <1>10, <1>12, <1>13, <2>1, <3>2
      <3>3. QED
        BY <2>3, <3>1, <3>2
    <2>5. ASSUME NEW i \in 1 .. k + 1, NEW j \in 1 .. k + 1,
                 accepted'[i] = accepted'[j]
          PROVE  i = j
      BY <1>6, <2>1, <2>2, <2>3, <2>5 DEF AcceptedUsed
    <2>6. QED
      BY <2>1, <2>4, <2>5 DEF AcceptedUsed
  <1>17. Handler("validated", a)'
    <2>1. /\ a \in Arg /\ a.type \in OtpType /\ a.email \in Emails
          /\ a.type = "PASSWORD_RESET" => a.password \in Passwords
      BY <1>7 DEF Handler, Holds, HoldsCode, ValidatePCs
    <2>2. a.code \in DOMAIN otpTokens'
      BY <1>8, <1>12
    <2>3. Holds("validated", a)'
      BY <2>1, <2>2
      DEF Holds, HoldsUser, HoldsCode, HoldsAct, UserPCs, NewUserPCs, SendPCs,
          ValidatePCs, SetPCs, NotePCs
    <2>4. Fresh("validated", a)'
      BY DEF Fresh, GrantPCs
    <2>5. QED
      BY <2>3, <2>4 DEF Handler
  <1>18. QED
    BY <1>2, <1>3, <1>5, <1>12, <1>15, <1>16, <1>17, CodesAt

LEMMA SignTokenSafe ==
    ASSUME ActorInv, NEW p \in Clients, SignToken(p)
    PROVE  Safe(p)
  <1>1. PICK a : a = arg[p]
    OBVIOUS
  <1>2. /\ pc[p] = "login.sign" /\ Return(p)
        /\ DOMAIN token' = DOMAIN token
        /\ \A u \in DOMAIN token : u # a.user => token'[u] = token[u]
        /\ UNCHANGED boundVars
        /\ UNCHANGED <<account, permissions, otpTokens, notes, audited,
                       proved, accepted, granted, now, crashes>>
    BY <1>1 DEF SignToken, historyVars, boundVars
  <1>3. "login.sign" \in Elsewhere
    BY DEF Elsewhere, PC
  <1>4. Moves(p)
    BY <1>2, HandlerMoves DEF Return
  <1>5. SUFFICES ASSUME At(p) PROVE At(p)'
    BY <1>4 DEF Safe
  <1>6. Exists(a.user)
    BY <1>1, <1>2, <1>5 DEF At, Handler, Holds, HoldsUser, UserPCs
  <1>7. Tables /\ AddressesProved /\ NewestUnused /\ AcceptedUsed
    BY <1>5 DEF At
  <1>8. Tables'
    BY <1>2, <1>6, <1>7 DEF Tables, Exists
  <1>9. AddressesProved' /\ NewestUnused' /\ AcceptedUsed'
    BY <1>2, <1>7 DEF AddressesProved, NewestUnused, AcceptedUsed, Exists
  <1>10. crashes = 0 => permissions' = granted' /\ LogNow'
    BY <1>2, <1>3, <1>5, NowIsAt DEF LogNow, Exists, NoteSays
  <1>11. QED
    BY <1>2, <1>8, <1>9, <1>10, EndAt

----------------------------------------------------------------------------
(* The writes of administrators *)

LEMMA CreateControllerUserSafe ==
    ASSUME ActorInv, NEW p \in Clients, CreateControllerUser(p)
    PROVE  Safe(p)
  <1>1. PICK a : a = arg[p]
    OBVIOUS
  <1> DEFINE row == [email |-> a.email, password |-> a.password,
                     role |-> "CONTROLLER", isEmailVerified |-> TRUE,
                     isActive |-> TRUE]
  <1>2. /\ pc[p] = "controller.create" /\ GotoWith(p, "controller.grant", a)
        /\ ~Exists(a.user) /\ account' = [account EXCEPT ![a.user] = row]
        /\ proved' = proved \union {<<a.user, a.email>>}
        /\ granted' = [granted EXCEPT ![a.user] = a.set]
        /\ UNCHANGED boundVars
        /\ UNCHANGED <<permissions, token, otpTokens, accepted, notes, audited,
                       now, crashes>>
    BY <1>1 DEF CreateControllerUser, WriteAccounts, Goto, boundVars
  <1>3. "controller.create" \in Elsewhere
    BY DEF Elsewhere, PC
  <1>4. Moves(p)
    BY <1>2, HandlerMoves
  <1>5. SUFFICES ASSUME At(p) PROVE At(p)'
    BY <1>4 DEF Safe
  <1>6. Tables /\ AddressesProved /\ NewestUnused /\ AcceptedUsed
    BY <1>5 DEF At
  <1>7. /\ a \in Arg /\ a.user \in Users /\ a.email \in Emails
        /\ a.password \in Passwords
        /\ a.set \in SUBSET Permissions /\ a.does = "permissions"
    BY <1>1, <1>2, <1>5
    DEF At, Handler, Holds, HoldsUser, HoldsAct, NewUserPCs, SetPCs
  <1>8. row \in Account /\ row.email = a.email
    BY <1>7 DEF Account, Roles
  <1> HIDE DEF row
  <1>9. granted' \in [Users -> SUBSET Permissions]
    BY <1>2, <1>6, <1>7 DEF Tables
  <1>10. /\ Tables' /\ NewestUnused' /\ AcceptedUsed'
         /\ account'[a.user] = row /\ Exists(a.user)'
    BY <1>2, <1>6, <1>7, <1>8, <1>9, RowWritten
  <1>11. AddressesProved'
    BY <1>2, <1>6, <1>7, <1>8, RowProved
  <1>12. crashes = 0 => permissions = granted /\ LogNow'
    BY <1>2, <1>3, <1>5, <1>6, <1>7, <1>8, NowIsAt, RowLogged
  <1>13. Holds("controller.grant", a)'
    BY <1>7, <1>10
    DEF Holds, HoldsUser, HoldsCode, HoldsAct, UserPCs, NewUserPCs, SendPCs,
        ValidatePCs, SetPCs, NotePCs
  <1>14. permissions'[a.user] = {}
    BY <1>2, <1>6, <1>7 DEF Tables
  <1>15. crashes = 0 => granted' = [permissions EXCEPT ![a.user] = a.set]
    BY <1>2, <1>12
  <1>16. Fresh("controller.grant", a)'
    BY <1>2, <1>14, <1>15 DEF Fresh, GrantPCs
  <1>17. pc'[p] = "controller.grant" /\ arg'[p] = a
    BY <1>2 DEF GotoWith, ActorInv
  <1>18. (crashes = 0 => GrantsAt(p) /\ LogAt(p))'
    BY <1>2, <1>12, <1>17, LogNowAt DEF GrantsAt, GrantPCs
  <1>19. QED
    BY <1>10, <1>11, <1>13, <1>16, <1>17, <1>18 DEF At, Handler

LEMMA CreatePermissionsSafe ==
    ASSUME ActorInv, NEW p \in Clients, CreatePermissions(p)
    PROVE  Safe(p)
  <1>1. PICK a : a = arg[p]
    OBVIOUS
  <1>2. /\ pc[p] \in GrantPCs /\ GotoWith(p, "audit", a)
        /\ permissions' = [permissions EXCEPT ![a.user] = @ \union a.set]
        /\ UNCHANGED boundVars
        /\ UNCHANGED <<account, token, otpTokens, accepted, notes, audited,
                       proved, granted, now, crashes>>
    BY <1>1 DEF CreatePermissions, Goto, boundVars, GrantPCs
  <1>3. pc[p] # "audit" /\ pc[p] # "idle"
    BY <1>2 DEF GrantPCs
  <1>4. Moves(p)
    BY <1>2, <1>3, HandlerMoves
  <1>5. SUFFICES ASSUME At(p) PROVE At(p)'
    BY <1>4 DEF Safe
  <1>6. Tables /\ AddressesProved /\ NewestUnused /\ AcceptedUsed
    BY <1>5 DEF At
  <1>7. /\ a \in Arg /\ a.user \in Users /\ Exists(a.user)
        /\ a.set \in SUBSET Permissions /\ a.does = "permissions"
        /\ permissions[a.user] = {}
        /\ crashes = 0 => granted = [permissions EXCEPT ![a.user] = a.set]
    BY <1>1, <1>2, <1>5
    DEF At, Handler, Holds, HoldsUser, HoldsAct, Fresh, UserPCs, SetPCs, GrantPCs
  <1>8. permissions' = [permissions EXCEPT ![a.user] = a.set]
    BY <1>2, <1>7
  <1>9. permissions'[a.user] = a.set
        /\ \A u \in Users : u # a.user => permissions'[u] = permissions[u]
    BY <1>6, <1>7, <1>8 DEF Tables
  <1>10. Tables'
    <2>1. permissions' \in [Users -> SUBSET Permissions]
      BY <1>6, <1>7, <1>8 DEF Tables
    <2>2. \A u \in Users : ~Exists(u) => permissions'[u] = {}
      BY <1>6, <1>7, <1>9 DEF Tables
    <2>3. QED
      BY <1>2, <1>6, <2>1, <2>2 DEF Tables, Exists
  <1>11. AddressesProved' /\ NewestUnused' /\ AcceptedUsed'
    BY <1>2, <1>6 DEF AddressesProved, NewestUnused, AcceptedUsed, Exists
  <1>12. pc'[p] = "audit" /\ arg'[p] = a
    BY <1>2 DEF GotoWith, ActorInv
  <1>13. Handler("audit", a)'
    <2>1. Holds("audit", a)'
      BY <1>7
      DEF Holds, HoldsUser, HoldsCode, HoldsAct, UserPCs, NewUserPCs, SendPCs,
          ValidatePCs, SetPCs, NotePCs
    <2>2. Exists(a.user)'
      BY <1>2, <1>7 DEF Exists
    <2>3. QED
      BY <1>7, <1>9, <2>1, <2>2 DEF Handler, Fresh, GrantPCs
  <1>14. crashes = 0 => GrantsAt(p)'
    BY <1>2, <1>7, <1>8 DEF GrantsAt
  <1>15. crashes = 0 => LogAt(p)'
    <2> SUFFICES ASSUME crashes = 0 PROVE LogAt(p)'
      OBVIOUS
    <2>1. LogAt(p)
      BY <1>5 DEF At
    <2>2. \A u \in Users : ~WillLogStatus(p, u)
          /\ (WillLogPermissions(p, u) => u = a.user)
      BY <1>1, <1>3 DEF WillLogStatus, WillLogPermissions
    <2>3. \A n \in Notes : ~WillLogNote(p, n)
      BY <1>3 DEF WillLogNote
    <2>4. WillLogPermissions(p, a.user)'
      BY <1>7, <1>12 DEF WillLogPermissions
    <2>5. QED
      BY <1>2, <1>9, <2>1, <2>2, <2>3, <2>4 DEF LogAt, Exists, NoteSays
  <1>16. QED
    BY <1>2, <1>10, <1>11, <1>12, <1>13, <1>14, <1>15 DEF At

LEMMA DeletePermissionsSafe ==
    ASSUME ActorInv, NEW p \in Clients, DeletePermissions(p)
    PROVE  Safe(p)
  <1>1. PICK a : a = arg[p]
    OBVIOUS
  <1>2. /\ pc[p] = "permissions.delete" /\ GotoWith(p, "permissions.create", a)
        /\ permissions' = [permissions EXCEPT ![a.user] = {}]
        /\ granted' = [granted EXCEPT ![a.user] = a.set]
        /\ UNCHANGED boundVars
        /\ UNCHANGED <<account, token, otpTokens, accepted, notes, audited,
                       proved, now, crashes>>
    BY <1>1 DEF DeletePermissions, Goto, boundVars
  <1>3. "permissions.delete" \in Elsewhere
    BY DEF Elsewhere, PC
  <1>4. Moves(p)
    BY <1>2, HandlerMoves
  <1>5. SUFFICES ASSUME At(p) PROVE At(p)'
    BY <1>4 DEF Safe
  <1>6. Tables /\ AddressesProved /\ NewestUnused /\ AcceptedUsed
    BY <1>5 DEF At
  <1>7. /\ a \in Arg /\ a.user \in Users /\ Exists(a.user)
        /\ a.set \in SUBSET Permissions /\ a.does = "permissions"
    BY <1>1, <1>2, <1>5
    DEF At, Handler, Holds, HoldsUser, HoldsAct, UserPCs, SetPCs
  <1>8. crashes = 0 => permissions = granted /\ LogNow
    BY <1>2, <1>3, <1>5, NowIsAt
  <1>9. permissions'[a.user] = {}
        /\ \A u \in Users : u # a.user => permissions'[u] = permissions[u]
    BY <1>2, <1>6, <1>7 DEF Tables
  <1>10. Tables'
    <2>1. permissions' \in [Users -> SUBSET Permissions]
          /\ granted' \in [Users -> SUBSET Permissions]
      BY <1>2, <1>6, <1>7 DEF Tables
    <2>2. \A u \in Users : ~Exists(u) => permissions'[u] = {}
      BY <1>6, <1>9 DEF Tables
    <2>3. QED
      BY <1>2, <1>6, <2>1, <2>2 DEF Tables, Exists
  <1>11. AddressesProved' /\ NewestUnused' /\ AcceptedUsed'
    BY <1>2, <1>6 DEF AddressesProved, NewestUnused, AcceptedUsed, Exists
  <1>12. pc'[p] = "permissions.create" /\ arg'[p] = a
    BY <1>2 DEF GotoWith, ActorInv
  <1>13. Handler("permissions.create", a)'
    <2>1. Exists(a.user)'
      BY <1>2, <1>7 DEF Exists
    <2>2. Holds("permissions.create", a)'
      BY <1>7, <2>1
      DEF Holds, HoldsUser, HoldsCode, HoldsAct, UserPCs, NewUserPCs, SendPCs,
          ValidatePCs, SetPCs, NotePCs
    <2>3. crashes = 0 => granted' = [permissions' EXCEPT ![a.user] = a.set]
      BY <1>2, <1>6, <1>8 DEF Tables
    <2>4. Fresh("permissions.create", a)'
      BY <1>2, <1>9, <2>3 DEF Fresh, GrantPCs
    <2>5. QED
      BY <2>2, <2>4 DEF Handler
  <1>14. crashes = 0 => GrantsAt(p)' /\ LogAt(p)'
    <2>1. GrantsAt(p)' /\ WillLogPermissions(p, a.user)'
      BY <1>7, <1>12 DEF GrantsAt, GrantPCs, WillLogPermissions
    <2>2. QED
      BY <1>2, <1>8, <1>9, <2>1 DEF LogNow, LogAt, Exists, NoteSays
  <1>15. QED
    BY <1>2, <1>10, <1>11, <1>12, <1>13, <1>14 DEF At

LEMMA WriteStatusSafe ==
    ASSUME ActorInv, NEW p \in Clients, WriteStatus(p)
    PROVE  Safe(p)
  <1>1. PICK a : a = arg[p]
    OBVIOUS
  <1> DEFINE row == [account[a.user] EXCEPT !.isActive = a.isActive]
  <1>2. /\ pc[p] = "status.update" /\ GotoWith(p, "audit", a)
        /\ account' = [account EXCEPT ![a.user] = row]
        /\ UNCHANGED boundVars
        /\ UNCHANGED <<permissions, token, otpTokens, accepted, notes, audited,
                       proved, granted, now, crashes>>
    BY <1>1 DEF WriteStatus, WriteAccounts, Goto, historyVars, boundVars
  <1>3. "status.update" \in Elsewhere
    BY DEF Elsewhere, PC
  <1>4. Moves(p)
    BY <1>2, HandlerMoves
  <1>5. SUFFICES ASSUME At(p) PROVE At(p)'
    BY <1>4 DEF Safe
  <1>6. Tables /\ AddressesProved /\ NewestUnused /\ AcceptedUsed
    BY <1>5 DEF At
  <1>7. /\ a \in Arg /\ a.user \in Users /\ Exists(a.user)
        /\ a.isActive \in BOOLEAN /\ a.does = "status"
    BY <1>1, <1>2, <1>5
    DEF At, Handler, Holds, HoldsUser, HoldsAct, UserPCs
  <1>8. account[a.user] \in Account
    BY <1>6, <1>7 DEF Tables, Exists, OrNone
  <1>9. /\ row \in Account /\ row.isActive = a.isActive
        /\ row.isEmailVerified = account[a.user].isEmailVerified
        /\ row.email = account[a.user].email
    BY <1>7, <1>8 DEF Account
  <1> HIDE DEF row
  <1>10. granted' \in [Users -> SUBSET Permissions]
    BY <1>2, <1>6 DEF Tables
  <1>11. /\ Tables' /\ NewestUnused' /\ AcceptedUsed'
         /\ account'[a.user] = row /\ Exists(a.user)'
         /\ \A w \in Users : w # a.user => account'[w] = account[w]
    BY <1>2, <1>6, <1>7, <1>9, <1>10, RowWritten
  <1>12. row.isEmailVerified => <<a.user, row.email>> \in proved'
    BY <1>2, <1>6, <1>7, <1>9 DEF AddressesProved
  <1>13. AddressesProved'
    BY <1>2, <1>6, <1>7, <1>12, RowProved
  <1>14. crashes = 0 => permissions = granted /\ LogNow
    BY <1>2, <1>3, <1>5, NowIsAt
  <1>15. pc'[p] = "audit" /\ arg'[p] = a
    BY <1>2 DEF GotoWith, ActorInv
  <1>16. Handler("audit", a)'
    <2>1. Holds("audit", a)'
      BY <1>7
      DEF Holds, HoldsUser, HoldsCode, HoldsAct, UserPCs, NewUserPCs, SendPCs,
          ValidatePCs, SetPCs, NotePCs
    <2>2. QED
      BY <1>7, <1>9, <1>11, <2>1 DEF Handler, Fresh, GrantPCs
  <1>17. crashes = 0 => GrantsAt(p)' /\ LogAt(p)'
    <2>1. WillLogStatus(p, a.user)'
      BY <1>7, <1>15 DEF WillLogStatus
    <2>2. \A w \in Users : w # a.user =>
              (Exists(w)' /\ account'[w].isActive) = (Exists(w) /\ account[w].isActive)
      BY <1>11 DEF Exists
    <2>3. QED
      BY <1>2, <1>14, <2>1, <2>2 DEF GrantsAt, LogNow, LogAt, NoteSays
  <1>18. QED
    BY <1>2, <1>11, <1>13, <1>15, <1>16, <1>17 DEF At

LEMMA LogAuditSafe ==
    ASSUME ActorInv, NEW p \in Clients, LogAudit(p)
    PROVE  Safe(p)
  <1>1. PICK a : a = arg[p]
    OBVIOUS
  <1>2. /\ pc[p] = "audit" /\ Return(p) /\ audited' = Log(p)
        /\ UNCHANGED boundVars
        /\ UNCHANGED <<account, permissions, token, otpTokens, accepted, notes,
                       proved, granted, now, crashes>>
    BY <1>1 DEF LogAudit, historyVars, boundVars
  <1>3. Moves(p)
    BY <1>2, HandlerMoves DEF Return
  <1>4. SUFFICES ASSUME At(p) PROVE At(p)'
    BY <1>3 DEF Safe
  <1>5. Tables /\ AddressesProved /\ NewestUnused /\ AcceptedUsed
    BY <1>4 DEF At
  <1>6. AddressesProved' /\ NewestUnused' /\ AcceptedUsed'
    BY <1>2, <1>5 DEF AddressesProved, NewestUnused, AcceptedUsed, Exists
  <1>7. Fresh("audit", a)
    BY <1>1, <1>2, <1>4 DEF At, Handler
  <1>8. crashes = 0 => permissions = granted /\ LogAt(p)
    BY <1>2, <1>4 DEF At, GrantsAt, GrantPCs
  <1>9. ASSUME audited' \in Audited,
               \A u \in Users : ~Exists(u) => audited'.isActive[u] = None
        PROVE  Tables'
    BY <1>2, <1>5, <1>9 DEF Tables, Exists
  <1>10. CASE a.does = "permissions" /\ a.user \in Users /\ Exists(a.user)
              /\ a.set = permissions[a.user]
    <2>1. audited' = [audited EXCEPT !.permissions = [@ EXCEPT ![a.user] = a.set]]
      BY <1>1, <1>2, <1>10 DEF Log
    <2>2. /\ audited' \in Audited /\ audited'.isActive = audited.isActive
          /\ audited'.note = audited.note
          /\ audited'.permissions[a.user] = a.set
          /\ \A u \in Users : u # a.user =>
                audited'.permissions[u] = audited.permissions[u]
      BY <1>5, <1>10, <2>1 DEF Tables, Audited, OrNone
    <2>3. Tables'
      BY <1>5, <1>9, <2>2 DEF Tables
    <2>4. \A u \in Users : ~WillLogStatus(p, u)
          /\ (WillLogPermissions(p, u) => u = a.user)
      BY <1>1, <1>10 DEF WillLogStatus, WillLogPermissions
    <2>5. \A n \in Notes : ~WillLogNote(p, n)
      BY <1>1, <1>10 DEF WillLogNote, NoteActs
    <2>6. LogAt(p) => LogNow'
      BY <1>2, <1>10, <2>2, <2>4, <2>5 DEF LogAt, LogNow, Exists, NoteSays
    <2>7. QED
      BY <1>2, <1>6, <1>8, <2>3, <2>6, EndAt
  <1>11. CASE a.does = "status" /\ a.user \in Users /\ Exists(a.user)
              /\ a.isActive = account[a.user].isActive
    <2>1. audited' = [audited EXCEPT !.isActive = [@ EXCEPT ![a.user] = a.isActive]]
      BY <1>1, <1>2, <1>11 DEF Log
    <2>2. a.isActive \in BOOLEAN
      BY <1>5, <1>11 DEF Tables, Exists, OrNone, Account
    <2>3. /\ audited' \in Audited /\ audited'.permissions = audited.permissions
          /\ audited'.note = audited.note
          /\ audited'.isActive[a.user] = a.isActive
          /\ \A u \in Users : u # a.user =>
                audited'.isActive[u] = audited.isActive[u]
      BY <1>5, <1>11, <2>1, <2>2 DEF Tables, Audited, OrNone
    <2>4. Tables'
      BY <1>5, <1>9, <1>11, <2>3 DEF Tables
    <2>5. \A u \in Users : ~WillLogPermissions(p, u)
          /\ (WillLogStatus(p, u) => u = a.user)
      BY <1>1, <1>11 DEF WillLogStatus, WillLogPermissions
    <2>6. \A n \in Notes : ~WillLogNote(p, n)
      BY <1>1, <1>11 DEF WillLogNote, NoteActs
    <2>7. LogAt(p) => LogNow'
      <3>1. (Exists(a.user)' /\ account'[a.user].isActive) = a.isActive
        BY <1>2, <1>11, <2>2 DEF Exists
      <3>2. QED
        BY <1>2, <2>3, <2>5, <2>6, <3>1 DEF LogAt, LogNow, Exists, NoteSays
    <2>8. QED
      BY <1>2, <1>6, <1>8, <2>4, <2>7, EndAt
  <1>12. CASE a.does \in NoteActs /\ a.note \in Notes /\ a.does = NoteSays(a.note)
    <2>1. audited' = [audited EXCEPT !.note = [@ EXCEPT ![a.note] = a.does]]
      BY <1>1, <1>2, <1>12 DEF Log, NoteActs
    <2>2. /\ audited' \in Audited /\ audited'.permissions = audited.permissions
          /\ audited'.isActive = audited.isActive
          /\ audited'.note[a.note] = a.does
          /\ \A n \in Notes : n # a.note => audited'.note[n] = audited.note[n]
      BY <1>5, <1>12, <2>1 DEF Tables, Audited, OrNone, NoteActs
    <2>3. Tables'
      BY <1>5, <1>9, <2>2 DEF Tables
    <2>4. \A u \in Users : ~WillLogPermissions(p, u) /\ ~WillLogStatus(p, u)
      BY <1>1, <1>12 DEF WillLogStatus, WillLogPermissions, NoteActs
    <2>5. \A n \in Notes : WillLogNote(p, n) => n = a.note
      BY <1>1 DEF WillLogNote
    <2>6. LogAt(p) => LogNow'
      BY <1>2, <1>12, <2>2, <2>4, <2>5 DEF LogAt, LogNow, Exists, NoteSays
    <2>7. QED
      BY <1>2, <1>6, <1>8, <2>3, <2>6, EndAt
  <1>13. QED
    BY <1>7, <1>10, <1>11, <1>12 DEF Fresh

\* A note is written, and its act is to be logged.
LEMMA NoteWriteAt ==
    ASSUME ActorInv, NEW p \in Clients, At(p), pc[p] \in Elsewhere,
           NEW a \in Arg, GotoWith(p, "audit", a),
           a.note \in Notes, a.does \in NoteActs,
           NEW row \in Note \union {Gone}, notes' = [notes EXCEPT ![a.note] = row],
           a.does = IF row = Gone THEN "deleted"
                    ELSE IF row.edited THEN "updated" ELSE "added",
           UNCHANGED <<account, permissions, granted, token, otpTokens, accepted,
                       audited, proved, now, crashes>>
    PROVE  At(p)'
  <1>1. Tables /\ AddressesProved /\ NewestUnused /\ AcceptedUsed
    BY DEF At
  <1>2. notes'[a.note] = row
        /\ \A n \in Notes : n # a.note => notes'[n] = notes[n]
    BY <1>1 DEF Tables
  <1>3. row # None
    BY NullIsNoRow
  <1>4. NoteSays(a.note)' = a.does
        /\ \A n \in Notes : n # a.note => NoteSays(n)' = NoteSays(n)
    BY <1>2, <1>3 DEF NoteSays
  <1>5. notes' \in [Notes -> Note \union {None, Gone}]
    BY <1>1 DEF Tables
  <1>6. Tables'
    BY <1>1, <1>5 DEF Tables, Exists
  <1>7. AddressesProved' /\ NewestUnused' /\ AcceptedUsed'
    BY <1>1 DEF AddressesProved, NewestUnused, AcceptedUsed, Exists
  <1>8. pc'[p] = "audit" /\ arg'[p] = a
    BY DEF GotoWith, ActorInv
  <1>9. Handler("audit", a)'
    <2>1. Holds("audit", a)'
      BY DEF Holds, HoldsUser, HoldsCode, HoldsAct, UserPCs, NewUserPCs, SendPCs,
             ValidatePCs, SetPCs, NotePCs
    <2>2. Fresh("audit", a)'
      BY <1>4 DEF Fresh, GrantPCs
    <2>3. QED
      BY <2>1, <2>2 DEF Handler
  <1>10. crashes = 0 => permissions = granted /\ LogNow
    BY NowIsAt
  <1>11. crashes = 0 => GrantsAt(p)' /\ LogAt(p)'
    <2>1. WillLogNote(p, a.note)'
      BY <1>8 DEF WillLogNote
    <2>2. QED
      BY <1>4, <1>10, <2>1 DEF GrantsAt, LogNow, LogAt, Exists
  <1>12. QED
    BY <1>6, <1>7, <1>8, <1>9, <1>11 DEF At

LEMMA NoteWritesSafe ==
    ASSUME ActorInv, NEW p \in Clients, CreateNote(p) \/ WriteNote(p)
    PROVE  Safe(p)
  <1>1. PICK a : a = arg[p]
    OBVIOUS
  <1>2. /\ pc[p] \in {"note.create", "note.update"} /\ UNCHANGED boundVars
        /\ GotoWith(p, "audit", a) \/ GotoWith(p, "idle", NoArg)
        /\ UNCHANGED <<account, permissions, granted, token, otpTokens, accepted,
                       audited, proved, now, crashes>>
    BY <1>1 DEF CreateNote, WriteNote, Goto, Return, historyVars, boundVars
  <1>3. {"idle", "note.create", "note.update"} \subseteq Elsewhere
    BY DEF Elsewhere, PC
  <1>4. Moves(p)
    BY <1>2, HandlerMoves
  <1>5. SUFFICES ASSUME At(p) PROVE At(p)'
    BY <1>4 DEF Safe
  <1>6. /\ a \in Arg /\ a.note \in Notes /\ a.user \in Users \union {Operator}
        /\ a.does \in NoteActs
        /\ pc[p] = "note.create" => a.does = "added"
        /\ pc[p] = "note.update" => a.does \in {"updated", "deleted"}
    BY <1>1, <1>2, <1>5 DEF At, Handler, Holds, HoldsAct, NotePCs
  <1>7. notes \in [Notes -> Note \union {None, Gone}]
    BY <1>5 DEF At, Tables
  <1>8. CASE CreateNote(p) /\ ~Unread(a.note)
    <2>1. Return(p) /\ notes' = notes
      BY <1>1, <1>8 DEF CreateNote
    <2>2. Tables' /\ AddressesProved' /\ NewestUnused' /\ AcceptedUsed'
      BY <1>2, <1>5, <2>1
      DEF At, Tables, AddressesProved, NewestUnused, AcceptedUsed, Exists
    <2>3. crashes = 0 => permissions' = granted' /\ LogNow'
      BY <1>2, <1>3, <1>5, <2>1, NowIsAt DEF LogNow, Exists, NoteSays
    <2>4. QED
      BY <1>2, <2>1, <2>2, <2>3, EndAt
  <1>9. CASE CreateNote(p) /\ Unread(a.note)
    <2> DEFINE row == [about |-> a.user, edited |-> FALSE]
    <2>1. row \in Note /\ ~row.edited
      BY <1>6 DEF Note
    <2>2. row # Gone
      BY <2>1, NullIsNoRow
    <2>3. GotoWith(p, "audit", a) /\ notes' = [notes EXCEPT ![a.note] = row]
          /\ a.does = "added"
      BY <1>1, <1>6, <1>9 DEF CreateNote, Goto
    <2> HIDE DEF row
    <2>4. QED
      BY <1>2, <1>3, <1>5, <1>6, <2>1, <2>2, <2>3, NoteWriteAt
  <1>10. CASE WriteNote(p)
    <2>1. notes[a.note] \in Note /\ GotoWith(p, "audit", a)
      BY <1>1, <1>6, <1>7, <1>10 DEF WriteNote, Kept, Goto
    <2>2. a.does \in {"updated", "deleted"}
      BY <1>6, <1>10 DEF WriteNote
    <2> DEFINE row == IF a.does = "deleted" THEN Gone
                      ELSE [notes[a.note] EXCEPT !.edited = TRUE]
    <2>3. row \in Note \union {Gone}
          /\ a.does = IF row = Gone THEN "deleted"
                      ELSE IF row.edited THEN "updated" ELSE "added"
      <3>1. [notes[a.note] EXCEPT !.edited = TRUE] \in Note
            /\ [notes[a.note] EXCEPT !.edited = TRUE].edited
        BY <2>1 DEF Note
      <3>2. [notes[a.note] EXCEPT !.edited = TRUE] # Gone
        BY <3>1, NullIsNoRow
      <3>3. QED
        BY <2>2, <3>1, <3>2
    <2>4. notes' = [notes EXCEPT ![a.note] = row]
      BY <1>1, <1>10 DEF WriteNote
    <2> HIDE DEF row
    <2>5. QED
      BY <1>2, <1>3, <1>5, <1>6, <1>10, <2>1, <2>3, <2>4, NoteWriteAt
  <1>11. QED
    BY <1>8, <1>9, <1>10

----------------------------------------------------------------------------
(* The theorems on requests that do not overlap *)

LEMMA StepsSafe ==
    ASSUME ActorInv, NEW p \in Clients,
           UserStep(p) \/ CodeStep(p) \/ AdminStep(p) \/ NoteStep(p)
    PROVE  Safe(p)
  <1>1. CASE UserStep(p)
    BY <1>1, UserRequestsSafe, UserWritesSafe, ThrowsSafe, UserReadsSafe,
       LoginReadSafe, SignTokenSafe
    DEF UserStep
  <1>2. CASE CodeStep(p)
    BY <1>2, CodeRequestsSafe, SendReadsSafe, ValidateReadsSafe,
       InvalidateCodesSafe, CreateCodeSafe, UseCodeSafe, UserWritesSafe
    DEF CodeStep
  <1>3. CASE AdminStep(p)
    BY <1>3, AdminRequestsSafe, ActRequestsSafe, UserReadsSafe, ThrowsSafe,
       CreateControllerUserSafe, CreatePermissionsSafe, DeletePermissionsSafe,
       WriteStatusSafe, LogAuditSafe
    DEF AdminStep
  <1>4. CASE NoteStep(p)
    BY <1>4, NoteRequestsSafe, NoteReadsSafe, NoteWritesSafe, ThrowsSafe
    DEF NoteStep
  <1>5. QED
    BY <1>1, <1>2, <1>3, <1>4

\* Time passes, and tokens expire.
LEMMA AloneWaits ==
    ASSUME AloneInv, now \in Nat => now' \in Nat,
           DOMAIN token = Users => DOMAIN token' = Users,
           \A u \in Users : token'[u] # None => token[u] # None,
           UNCHANGED <<account, permissions, otpTokens, notes, audited,
                       historyVars, crashes, overlapped, pc, arg>>
    PROVE  AloneInv'
  <1>1. SUFFICES ASSUME ~overlapped' PROVE AloneInv'
    BY DEF AloneInv
  <1>2. /\ AtMostOne /\ Tables /\ AddressesProved /\ NewestUnused /\ AcceptedUsed
        /\ \A p \in Clients : Handler(pc[p], arg[p])
        /\ crashes = 0 => GrantsAndLog
    BY <1>1 DEF AloneInv
  <1>3. AtMostOne' /\ AddressesProved' /\ NewestUnused' /\ AcceptedUsed'
    BY <1>2 DEF AtMostOne, AddressesProved, NewestUnused, AcceptedUsed, Exists,
                historyVars
  <1>4. Tables'
    BY <1>2 DEF Tables, Exists, historyVars
  <1>5. ASSUME NEW p \in Clients PROVE Handler(pc[p], arg[p])'
    BY <1>2 DEF Handler, Holds, HoldsUser, HoldsCode, HoldsAct, Fresh, Exists,
                NoteSays, historyVars
  <1>6. (crashes = 0 => GrantsAndLog)'
    BY <1>2 DEF GrantsAndLog, WillLogStatus, WillLogPermissions, WillLogNote,
                Exists, NoteSays, historyVars
  <1>7. QED
    BY <1>3, <1>4, <1>5, <1>6 DEF AloneInv

\* After a crash there is no handler, and grants and logs may be missing.
LEMMA CrashAlone ==
    ASSUME AloneInv, Crash
    PROVE  AloneInv'
  <1>1. SUFFICES ASSUME ~overlapped' PROVE AloneInv'
    BY DEF AloneInv
  <1>2. /\ Tables /\ AddressesProved /\ NewestUnused /\ AcceptedUsed
        /\ UNCHANGED <<rowVars, historyVars, now>> /\ crashes' = crashes + 1
        /\ \A p \in Clients : pc'[p] = "idle"
    BY <1>1 DEF AloneInv, Crash
  <1>3. AtMostOne' /\ AddressesProved' /\ NewestUnused' /\ AcceptedUsed'
    BY <1>2 DEF AtMostOne, AddressesProved, NewestUnused, AcceptedUsed, Exists,
                rowVars, historyVars
  <1>4. Tables' /\ crashes' # 0
    BY <1>2 DEF Tables, Exists, rowVars, historyVars
  <1>5. \A p \in Clients : Handler(pc[p], arg[p])'
    BY <1>2, IdleHandler
  <1>6. QED
    BY <1>3, <1>4, <1>5 DEF AloneInv

LEMMA InitAlone == Init => AloneInv
  <1> SUFFICES ASSUME Init PROVE AloneInv
    OBVIOUS
  <1>1. AtMostOne /\ \A p \in Clients : Handler(pc[p], arg[p])
    BY IdleHandler DEF Init, AtMostOne
  <1>2. NewestUnused /\ AcceptedUsed
    BY DEF Init, NewestUnused, AcceptedUsed
  <1>3. account \in [Users -> OrNone(Account)]
        /\ \A u \in Users : Exists(u) => ~account[u].isEmailVerified
    <2>1. CASE account = [u \in Users |-> None]
      BY <2>1 DEF OrNone, Exists
    <2>2. ASSUME NEW u \in Users, NEW e \in Emails, NEW w \in Passwords,
                 account = [[x \in Users |-> None] EXCEPT ![u] =
                    [email |-> e, password |-> w, role |-> "CUSTOMER",
                     isEmailVerified |-> FALSE, isActive |-> TRUE]]
          PROVE  /\ account \in [Users -> OrNone(Account)]
                 /\ \A x \in Users : Exists(x) => ~account[x].isEmailVerified
      <3> DEFINE row == [email |-> e, password |-> w, role |-> "CUSTOMER",
                         isEmailVerified |-> FALSE, isActive |-> TRUE]
      <3>1. row \in Account /\ ~row.isEmailVerified
        BY DEF Account, Roles
      <3>2. account = [[x \in Users |-> None] EXCEPT ![u] = row]
        BY <2>2
      <3> HIDE DEF row
      <3>3. QED
        BY <3>1, <3>2 DEF OrNone, Exists
    <2>3. QED
      BY <2>1, <2>2 DEF Init
  <1>4. AddressesProved
    BY <1>3 DEF AddressesProved
  <1>5. audited \in Audited
    BY DEF Init, Audited, OrNone
  <1>6. Tables
    <2>1. otpTokens \in Seq(Code) /\ accepted \in Seq(Nat)
      BY EmptySeq DEF Init
    <2>2. now \in Nat /\ crashes \in Nat
      BY DEF Init
    <2>3. DOMAIN token = Users /\ \A u \in Users : token[u] # None => Exists(u)
      BY DEF Init, Exists
    <2>4. permissions \in [Users -> SUBSET Permissions] /\ granted = permissions
          /\ \A u \in Users : permissions[u] = {} /\ audited.isActive[u] = None
      BY DEF Init
    <2>5. notes \in [Notes -> Note \union {None, Gone}]
      BY DEF Init
    <2>6. QED
      BY <1>3, <1>5, <2>1, <2>2, <2>3, <2>4, <2>5 DEF Tables
  <1>7. GrantsAndLog
    BY DEF Init, GrantsAndLog, NoteSays
  <1>8. QED
    BY <1>1, <1>2, <1>4, <1>6, <1>7 DEF AloneInv

AccountsInv == IInv /\ AloneInv

LEMMA NextAlone == AccountsInv /\ [Next]_vars => AccountsInv'
  <1> SUFFICES ASSUME AccountsInv, [Next]_vars PROVE AloneInv'
    BY NextIInv DEF AccountsInv
  <1>0. AloneInv /\ ActorInv
    BY DEF AccountsInv, IInv
  <1>1. ASSUME NEW p \in Clients,
               UserStep(p) \/ CodeStep(p) \/ AdminStep(p) \/ NoteStep(p)
        PROVE  AloneInv'
    BY <1>0, <1>1, StepsSafe, AloneKept DEF Safe
  <1>2. ASSUME NEW u \in Users, TokenExpires(u) PROVE AloneInv'
    <2>1. \A w \in Users : token'[w] # None => token[w] # None
      BY <1>2 DEF TokenExpires
    <2>2. QED
      BY <1>0, <1>2, <2>1, AloneWaits DEF TokenExpires, historyVars, boundVars
  <1>3. CASE Tick \/ UNCHANGED vars
    <2>1. /\ now \in Nat => now' \in Nat
          /\ UNCHANGED <<token, account, permissions, otpTokens, notes, audited,
                         historyVars, crashes, overlapped, pc, arg>>
      BY <1>3 DEF Tick, vars, rowVars, historyVars, boundVars
    <2>2. QED
      BY <1>0, <2>1, AloneWaits
  <1>4. CASE Crash
    BY <1>0, <1>4, CrashAlone
  <1>5. QED
    BY <1>1, <1>2, <1>3, <1>4 DEF Next

LEMMA AlwaysAlone == Spec => []AccountsInv
  <1>1. Init => AccountsInv
    BY InitIInv, InitAlone DEF AccountsInv
  <1>2. QED
    BY <1>1, NextAlone, PTL DEF Spec

LEMMA AloneHolds == AccountsInv => AccountsHold
  <1> SUFFICES ASSUME AloneInv PROVE AccountsHold
    BY DEF AccountsInv
  <1>1. VerifiedWasProved /\ AcceptedOnce
    BY DEF AloneInv, AddressesProved, AcceptedUsed, VerifiedWasProved, AcceptedOnce
  <1>2. ASSUME Idle, ~overlapped, crashes = 0
        PROVE  permissions = granted /\ LogNow
    <2>1. \A p \in Clients : pc[p] = "idle"
      BY <1>2 DEF Idle
    <2>2. GrantsAndLog
      BY <1>2 DEF AloneInv
    <2>3. QED
      BY <2>1, <2>2
      DEF GrantsAndLog, LogNow, GrantPCs, WillLogStatus, WillLogPermissions,
          WillLogNote
  <1>3. PermissionsAsGranted
    BY <1>2 DEF PermissionsAsGranted
  <1>4. AuditTellsTheState
    BY <1>2 DEF AuditTellsTheState, LogNow, NoteSays
  <1>5. QED
    BY <1>1, <1>3, <1>4 DEF AccountsHold

\* With one request after the other, and any number of users, codes and notes:
\* a verified address was proved by its user, even if the profile changed it
\* while codes were out (users.service.ts:58, auth.service.ts:222); a code is
\* accepted once (otp.service.ts:63); and unless the process crashed, what was
\* last granted is what the table holds (admin.service.ts:2787) and the last
\* entry of the audit log is how things are (admin.controller.ts:258, :923).
THEOREM AccountsHoldAlways == Spec => []AccountsHold
  BY AlwaysAlone, AloneHolds, PTL

\* Codes are accepted by the step that uses them.
LEMMA OnlyUseAccepts ==
    ASSUME [Next]_vars
    PROVE  accepted' = accepted \/ \E p \in Clients : UseCode(p)
  <1>1. ASSUME NEW p, NEW name, NEW step, NEW a, Start(p, name, step, a)
        PROVE  accepted' = accepted
    BY <1>1 DEF Start, historyVars
  <1>2. ASSUME NEW p, NEW step, NEW a, Read(p, step, a)
        PROVE  accepted' = accepted
    BY <1>2 DEF Read, historyVars
  <1>3. ASSUME NEW p \in Clients, UserStep(p)
        PROVE  accepted' = accepted
    <2>1. CASE CreateUser(p) \/ WriteProfile(p) \/ SignToken(p) \/ WritePassword(p)
      BY <2>1 DEF CreateUser, WriteProfile, SignToken, WritePassword, historyVars
    <2>2. CASE EmailExists(p) \/ CheckNewEmail(p) \/ ProfileThrows(p)
               \/ ValidateUser(p) \/ ComparePassword(p)
      BY <1>2, <2>2 DEF EmailExists, CheckNewEmail, ProfileThrows, ValidateUser,
                        ComparePassword, Throw
    <2>3. QED
      BY <1>1, <1>3, <2>1, <2>2 DEF UserStep, Register, UpdateProfile, Login,
                                    ChangePassword
  <1>4. ASSUME NEW p \in Clients, CodeStep(p), ~UseCode(p)
        PROVE  accepted' = accepted
    <2>1. CASE InvalidateCodes(p) \/ CreateCode(p) \/ MarkEmailAsVerified(p)
      BY <2>1 DEF InvalidateCodes, CreateCode, MarkEmailAsVerified, historyVars
    <2>2. CASE FindForCode(p) \/ CheckCooldown(p) \/ FindCode(p) \/ FindCodeUser(p)
      BY <1>2, <2>2 DEF FindForCode, CheckCooldown, FindCode, FindCodeUser, Throw
    <2>3. QED
      BY <1>1, <1>4, <2>1, <2>2
      DEF CodeStep, SendPasswordResetOTP, SendEmailVerificationOTP, ResetPassword,
          VerifyEmail
  <1>5. ASSUME NEW p \in Clients, AdminStep(p)
        PROVE  accepted' = accepted
    <2>1. CASE CreateControllerUser(p) \/ CreatePermissions(p)
               \/ DeletePermissions(p) \/ WriteStatus(p) \/ LogAudit(p)
      BY <2>1 DEF CreateControllerUser, CreatePermissions, DeletePermissions,
                  WriteStatus, LogAudit, historyVars
    <2>2. CASE CheckControllerEmail(p) \/ ControllerThrows(p)
               \/ PermissionsThrow(p) \/ FindController(p) \/ FindForStatus(p)
      BY <1>2, <2>2 DEF CheckControllerEmail, ControllerThrows, PermissionsThrow,
                        FindController, FindForStatus, Throw
    <2>3. QED
      BY <1>1, <1>5, <2>1, <2>2
      DEF AdminStep, CreateController, UpdateControllerPermissions,
          UpdateControllerStatus, UpdateCustomerStatus
  <1>6. ASSUME NEW p \in Clients, NoteStep(p)
        PROVE  accepted' = accepted
    <2>1. CASE CreateNote(p) \/ WriteNote(p)
      BY <2>1 DEF CreateNote, WriteNote, historyVars
    <2>2. CASE FindNoteTarget(p) \/ FindNote(p) \/ NoteIsGone(p)
      BY <1>2, <2>2 DEF FindNoteTarget, FindNote, NoteIsGone, Throw
    <2>3. QED
      BY <1>1, <1>6, <2>1, <2>2
      DEF NoteStep, StartNote, AddOperatorNote, EditOperatorNote,
          DeleteOperatorNote, AddCustomerNote, EditCustomerNote, DeleteCustomerNote
  <1>7. CASE \/ \E u \in Users : TokenExpires(u)
             \/ Tick \/ Crash \/ UNCHANGED vars
    BY <1>7 DEF TokenExpires, Tick, Crash, vars, historyVars
  <1>8. QED
    BY <1>3, <1>4, <1>5, <1>6, <1>7 DEF Next

LEMMA UseIsOfNewest ==
    ASSUME AccountsInv, [Next]_vars, ~overlapped, NEW i \in DOMAIN otpTokens,
           accepted' = Append(accepted, i),
           NEW j \in OfKind(otpTokens[i].email, otpTokens[i].type)
    PROVE  j <= i
  <1>1. Tables /\ NewestUnused /\ \A p \in Clients : Handler(pc[p], arg[p])
    BY DEF AccountsInv, AloneInv
  <1>2. DOMAIN otpTokens \subseteq Nat /\ accepted \in Seq(Nat)
    BY <1>1, LenProperties DEF Tables
  <1>3. i \in Nat /\ j \in Nat /\ j \in DOMAIN otpTokens
        /\ SameKind(otpTokens[i], otpTokens[j])
    BY <1>2 DEF OfKind, SameKind
  <1>4. /\ Len(accepted) \in Nat /\ Len(accepted') = Len(accepted) + 1
        /\ accepted'[Len(accepted) + 1] = i
    BY <1>2, <1>3, LenProperties, AppendProperties
  <1>5. PICK p \in Clients : UseCode(p)
    BY <1>4, OnlyUseAccepts
  <1>6. PICK a : a = arg[p]
    OBVIOUS
  <1>7. a.code \in DOMAIN otpTokens /\ ~otpTokens[a.code].used
        /\ accepted' = Append(accepted, a.code)
    BY <1>1, <1>5, <1>6
    DEF UseCode, Handler, Holds, HoldsCode, Fresh, ValidatePCs
  <1>8. a.code = i
    BY <1>2, <1>4, <1>7, AppendProperties
  <1>9. ~(i < j)
    BY <1>1, <1>3, <1>7, <1>8 DEF NewestUnused
  <1>10. QED
    BY <1>3, <1>9

\* Only the newest code for an address and a purpose is accepted, however many
\* were sent, whatever became of them and wherever sending one crashed: the
\* older ones are spent in a write before the new one's (otp.service.ts:29).
THEOREM NewestIsAcceptedAlways == Spec => NewestIsAccepted
  <1>1. AccountsInv /\ [Next]_vars =>
            [\A i \in DOMAIN otpTokens :
                accepted' = Append(accepted, i) /\ ~overlapped =>
                    \A j \in OfKind(otpTokens[i].email, otpTokens[i].type) :
                        j <= i]_vars
    BY UseIsOfNewest
  <1>2. QED
    BY <1>1, AlwaysAlone, PTL DEF Spec, NewestIsAccepted
=============================================================================
