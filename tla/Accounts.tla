----------------------------- MODULE Accounts ------------------------------
(***************************************************************************)
(* The accounts of customers and controllers: registration, login,         *)
(* one-time codes for a new password and for the e-mail address, and what  *)
(* administrators do with them: controllers and their permissions, account *)
(* status, notes, and the audit log of it.                                 *)
(*                                                                         *)
(* A handler is a sequence of awaits, as in Auction.  A one-time code is   *)
(* its position in otpTokens, and a wrong one is like no request; names    *)
(* and telephone numbers, mails and the request throttle are left out.  A  *)
(* token is the claims of its user's last login.                           *)
(***************************************************************************)
EXTENDS Integers, Sequences, FiniteSets

CONSTANTS
    Clients,      \* concurrent requests
    Menus,        \* sets of requests: a behaviour issues those of one of them
    Users, Admin, \* ids of users, and an administrator
    Operator,     \* the id of an operator's profile
    Emails, Passwords,
    Permissions,  \* of controllers
    Notes,        \* ids of notes
    Cooldown,     \* 60 seconds
    Expiry,       \* 15 minutes
    Horizon,      \* bound on time
    MaxRequests,  \* bound on the requests
    MaxCrashes,   \* bound on crashes
    None, Gone    \* null; the id of a deleted row

ASSUME AccountsAssumption ==
    /\ {Cooldown, Expiry, Horizon, MaxRequests, MaxCrashes} \subseteq Nat
    /\ 0 < Cooldown /\ Cooldown < Expiry
    /\ {Admin, Operator} \intersect Users = {}

VARIABLES
    account,      \* by user: None or the row
    permissions,  \* by user: rows of user_permissions
    token,        \* by user: the claims of its token, or None
    otpTokens,    \* the one-time codes, in the order of their creation
    notes,        \* by id: None, Gone or the row
    audited,      \* what the audit log last says of users and notes
    proved,       \* history: <<user, e-mail>> pairs proved by a code
    accepted,     \* history: codes that were accepted, in order
    granted,      \* history: by user, what was last granted to it
    everGranted,  \* history: by user, all that was ever granted to it
    now, menu, overlapped, issued, crashes,
    pc, arg

rowVars == <<account, permissions, token, otpTokens, notes, audited>>
historyVars == <<proved, accepted, granted, everGranted>>
boundVars == <<now, menu, overlapped, issued, crashes>>
vars == <<rowVars, historyVars, boundVars, pc, arg>>

OrNone(S) == S \union {None}

Roles == {"CUSTOMER", "CONTROLLER"}
Account == [email : Emails, password : Passwords, role : Roles,
            isEmailVerified : BOOLEAN, isActive : BOOLEAN]
OtpType == {"PASSWORD_RESET", "EMAIL_VERIFICATION"}
OtpToken == [user : Users, email : Emails, type : OtpType,
             createdAt : 0 .. Horizon, expiresAt : 0 .. Horizon + Expiry,
             used : BOOLEAN]
Note == [about : Users \union {Operator}, edited : BOOLEAN]
ASSUME NullIsNoRow ==
    None # Gone /\ None \notin Account /\ {None, Gone} \intersect Note = {}
\* status and permissions by user, and whether a note is logged as there.
Audited == [isActive : [Users -> OrNone(BOOLEAN)],
            permissions : [Users -> OrNone(SUBSET Permissions)],
            note : [Notes -> OrNone({"added", "updated", "deleted"})]]
PC == {"idle", "register", "login", "login.sign", "code", "code.cooldown",
       "code.invalidate", "code.create", "validate", "validate.use",
       "validated", "reset.write", "verify.write", "change", "change.write",
       "profile", "profile.update", "controller", "controller.create",
       "controller.grant", "permissions", "permissions.delete",
       "permissions.create", "status", "status.update", "note", "note.create",
       "note.edit", "note.update", "note.remove", "note.delete", "audit"}
NoArg == [actor |-> None, user |-> None, email |-> None, type |-> None,
          password |-> None, current |-> None, code |-> 0, expiresAt |-> 0, role |-> None,
          set |-> {}, isActive |-> None, note |-> None, does |-> None]

TypeOK ==
    /\ \A u \in Users : account[u] \in OrNone(Account)
    /\ permissions \in [Users -> SUBSET Permissions]
    /\ token \in [Users -> OrNone(
            [role : Roles, permissions : SUBSET Permissions])]
    /\ otpTokens \in Seq(OtpToken)
    /\ DOMAIN notes = Notes /\ \A n \in Notes : notes[n] \in Note \union {None, Gone}
    /\ audited \in Audited
    /\ proved \subseteq Users \X Emails
    /\ accepted \in Seq(1 .. Len(otpTokens))
    /\ {granted, everGranted} \subseteq [Users -> SUBSET Permissions]
    /\ now \in 0 .. Horizon /\ menu \in Menus /\ overlapped \in BOOLEAN
    /\ issued \in 0 .. MaxRequests /\ crashes \in 0 .. MaxCrashes
    /\ pc \in [Clients -> PC]
    /\ \A p \in Clients : DOMAIN arg[p] = DOMAIN NoArg

\* One user may have registered and logged in before.
Init ==
    /\ \/ account = [u \in Users |-> None]
       \/ \E u \in Users, e \in Emails, w \in Passwords :
            account = [[x \in Users |-> None] EXCEPT ![u] =
                [email |-> e, password |-> w, role |-> "CUSTOMER",
                 isEmailVerified |-> FALSE, isActive |-> TRUE]]
    /\ permissions = [u \in Users |-> {}]
    /\ token = [u \in Users |-> IF account[u] = None THEN None
                ELSE [role |-> "CUSTOMER", permissions |-> {}]]
    /\ otpTokens = <<>> /\ notes = [n \in Notes |-> None]
    /\ audited = [isActive |-> [u \in Users |-> None],
                  permissions |-> [u \in Users |-> None],
                  note |-> [n \in Notes |-> None]]
    /\ proved = {} /\ accepted = <<>>
    /\ granted = permissions /\ everGranted = permissions
    /\ now = 0 /\ menu \in Menus /\ overlapped = FALSE
    /\ issued = 0 /\ crashes = 0
    /\ pc = [p \in Clients |-> "idle"] /\ arg = [p \in Clients |-> NoArg]

----------------------------------------------------------------------------
(* Handlers *)

Idle == \A p \in Clients : pc[p] = "idle"

GotoWith(p, step, a) ==
    /\ pc' = [pc EXCEPT ![p] = step]
    /\ arg' = [arg EXCEPT ![p] = a]
Goto(p, step) == GotoWith(p, step, arg[p])
Return(p) == GotoWith(p, "idle", NoArg)

Start(p, name, step, a) ==
    /\ name \in menu
    /\ pc[p] = "idle" /\ overlapped' = (overlapped \/ ~Idle)
    /\ issued < MaxRequests /\ issued' = issued + 1
    /\ GotoWith(p, step, a)
    /\ UNCHANGED <<rowVars, historyVars, now, menu, crashes>>

\* A step that only reads; one that throws ends the handler.
Read(p, step, a) ==
    /\ GotoWith(p, step, a)
    /\ UNCHANGED <<rowVars, historyVars, boundVars>>
Throw(p) == Read(p, "idle", NoArg)

\* A step that writes the accounts alone.
WriteAccounts(rows) ==
    /\ account' = rows
    /\ UNCHANGED <<permissions, token, otpTokens, notes, audited, boundVars>>

----------------------------------------------------------------------------
(* Users *)

Exists(u) == account[u] # None
WithEmail(e) == {u \in Users : Exists(u) /\ account[u].email = e}

FindByEmail(e) == {u \in WithEmail(e) : account[u].isActive}

\* check-email: an address of no active user is available.
EmailAvailable(e) == FindByEmail(e) = {}

Register(p, u, e, w) ==
    /\ ~Exists(u)
    /\ Start(p, "register", "register",
             [NoArg EXCEPT !.user = u, !.email = e, !.password = w])
\* The e-mail address is unique in the database.
CreateUser(p) ==
    /\ pc[p] = "register"
    /\ ~Exists(arg[p].user) /\ WithEmail(arg[p].email) = {}
    /\ WriteAccounts([account EXCEPT ![arg[p].user] =
            [email |-> arg[p].email, password |-> arg[p].password,
             role |-> "CUSTOMER", isEmailVerified |-> FALSE, isActive |-> TRUE]])
    /\ UNCHANGED historyVars /\ Return(p)
EmailExists(p) ==
    /\ pc[p] = "register"
    /\ Exists(arg[p].user) \/ WithEmail(arg[p].email) # {}
    /\ Throw(p)

UpdateProfile(p, u, e) ==
    /\ token[u] # None
    /\ Start(p, "profile", "profile", [NoArg EXCEPT !.user = u, !.email = e])
CheckNewEmail(p) ==
    /\ pc[p] = "profile"
    /\ IF WithEmail(arg[p].email) \ {arg[p].user} = {}
       THEN Read(p, "profile.update", arg[p])
       ELSE Throw(p)
\* Seeded bug: the new address counts as verified if the old one was.
WriteProfileOnly(p) ==
    /\ pc[p] = "profile.update"
    /\ WriteAccounts([account EXCEPT ![arg[p].user].email = arg[p].email])
    /\ UNCHANGED historyVars /\ Return(p)
WriteProfile(p) ==
    /\ pc[p] = "profile.update"
    /\ WithEmail(arg[p].email) \ {arg[p].user} = {}
    /\ WriteAccounts([account EXCEPT
            ![arg[p].user] = [@ EXCEPT !.email = arg[p].email,
                                       !.isEmailVerified = FALSE]])
    /\ UNCHANGED historyVars /\ Return(p)
ProfileThrows(p) ==
    /\ pc[p] = "profile.update"
    /\ WithEmail(arg[p].email) \ {arg[p].user} # {}
    /\ Throw(p)

\* The user of the request is found among the active ones, its password
\* compared.
Login(p, e, w) ==
    Start(p, "login", "login", [NoArg EXCEPT !.email = e, !.password = w])
ValidateUser(p) ==
    /\ pc[p] = "login"
    /\ \/ \E u \in FindByEmail(arg[p].email) :
            /\ account[u].password = arg[p].password
            /\ Read(p, "login.sign",
                    [NoArg EXCEPT !.user = u, !.role = account[u].role])
       \/ /\ \A u \in FindByEmail(arg[p].email) :
                account[u].password # arg[p].password
          /\ Throw(p)
\* The permissions of a controller are written into its token.
SignToken(p) ==
    /\ pc[p] = "login.sign"
    /\ token' = [token EXCEPT ![arg[p].user] =
            [role |-> arg[p].role,
             permissions |-> IF arg[p].role = "CONTROLLER"
                             THEN permissions[arg[p].user] ELSE {}]]
    /\ Return(p)
    /\ UNCHANGED <<account, permissions, otpTokens, notes, audited,
                   historyVars, boundVars>>

TokenExpires(u) ==
    /\ token[u] # None /\ token' = [token EXCEPT ![u] = None]
    /\ UNCHANGED <<account, permissions, otpTokens, notes, audited,
                   historyVars, boundVars, pc, arg>>

ChangePassword(p, u, current, w) ==
    /\ token[u] # None
    /\ Start(p, "change", "change",
             [NoArg EXCEPT !.user = u, !.current = current, !.password = w])
ComparePassword(p) ==
    /\ pc[p] = "change"
    /\ IF account[arg[p].user].password = arg[p].current
       THEN Read(p, "change.write", arg[p])
       ELSE Throw(p)

WritePassword(p) ==
    /\ pc[p] \in {"change.write", "reset.write"}
    /\ WriteAccounts([account EXCEPT ![arg[p].user].password = arg[p].password])
    /\ UNCHANGED historyVars /\ Return(p)

----------------------------------------------------------------------------
(* One-time codes *)

SendPasswordResetOTP(p, e) ==
    Start(p, "forgot", "code",
          [NoArg EXCEPT !.email = e, !.type = "PASSWORD_RESET"])
SendEmailVerificationOTP(p, e) ==
    Start(p, "sendVerification", "code",
          [NoArg EXCEPT !.email = e, !.type = "EMAIL_VERIFICATION"])

\* A verified address is not verified again.
FindForCode(p) ==
    /\ pc[p] = "code"
    /\ LET found == {u \in FindByEmail(arg[p].email) :
                arg[p].type = "EMAIL_VERIFICATION" => ~account[u].isEmailVerified}
       IN  \/ \E u \in found :
                Read(p, "code.cooldown", [arg[p] EXCEPT !.user = u])
           \/ found = {} /\ Throw(p)

OfKind(e, t) ==
    {i \in DOMAIN otpTokens : otpTokens[i].email = e /\ otpTokens[i].type = t}

\* The last code for the address must be 60 seconds old.
CanRequestNewOTP(e, t) ==
    OfKind(e, t) # {} =>
        \E i \in OfKind(e, t) :
            /\ \A j \in OfKind(e, t) : j <= i
            /\ now - otpTokens[i].createdAt >= Cooldown
CheckCooldown(p) ==
    /\ pc[p] = "code.cooldown"
    /\ IF CanRequestNewOTP(arg[p].email, arg[p].type)
       THEN Read(p, "code.invalidate", [arg[p] EXCEPT !.expiresAt = now + Expiry])
       ELSE Throw(p)

WriteCodes(codes) ==
    /\ otpTokens' = codes
    /\ UNCHANGED <<account, permissions, token, notes, audited, boundVars>>

\* Codes sent before no longer count.
\* Seeded bug: the codes sent before stay valid.
KeepCodes(p) ==
    /\ pc[p] = "code.invalidate"
    /\ WriteCodes(otpTokens)
    /\ UNCHANGED historyVars /\ Goto(p, "code.create")
InvalidateCodes(p) ==
    /\ pc[p] = "code.invalidate"
    /\ WriteCodes([i \in DOMAIN otpTokens |->
            IF i \in OfKind(arg[p].email, arg[p].type)
            THEN [otpTokens[i] EXCEPT !.used = TRUE] ELSE otpTokens[i]])
    /\ UNCHANGED historyVars /\ Goto(p, "code.create")
CreateCode(p) ==
    /\ pc[p] = "code.create"
    /\ WriteCodes(Append(otpTokens,
            [user |-> arg[p].user, email |-> arg[p].email, type |-> arg[p].type,
             createdAt |-> now, expiresAt |-> arg[p].expiresAt, used |-> FALSE]))
    /\ UNCHANGED historyVars /\ Return(p)

ResetPassword(p, e, i, w) ==
    /\ i \in DOMAIN otpTokens
    /\ Start(p, "reset", "validate", [NoArg EXCEPT !.email = e,
             !.type = "PASSWORD_RESET", !.code = i, !.password = w])
VerifyEmail(p, e, i) ==
    /\ i \in DOMAIN otpTokens
    /\ Start(p, "verify", "validate", [NoArg EXCEPT !.email = e,
             !.type = "EMAIL_VERIFICATION", !.code = i])

Usable(i, e, t) ==
    /\ i \in OfKind(e, t)
    /\ ~otpTokens[i].used /\ otpTokens[i].expiresAt > now
FindCode(p) ==
    /\ pc[p] = "validate"
    /\ IF Usable(arg[p].code, arg[p].email, arg[p].type)
       THEN Read(p, "validate.use", arg[p])
       ELSE Throw(p)

UseCode(p) ==
    /\ pc[p] = "validate.use"
    /\ WriteCodes([otpTokens EXCEPT ![arg[p].code].used = TRUE])
    /\ accepted' = Append(accepted, arg[p].code)
    /\ UNCHANGED <<proved, granted, everGranted>> /\ Goto(p, "validated")

\* The code is used up even if its user is no longer found.
FindCodeUser(p) ==
    /\ pc[p] = "validated"
    /\ \/ \E u \in FindByEmail(arg[p].email) :
            Read(p, IF arg[p].type = "PASSWORD_RESET"
                    THEN "reset.write" ELSE "verify.write",
                 [arg[p] EXCEPT !.user = u])
       \/ FindByEmail(arg[p].email) = {} /\ Throw(p)

MarkEmailAsVerified(p) ==
    /\ pc[p] = "verify.write"
    /\ WriteAccounts([account EXCEPT ![arg[p].user].isEmailVerified = TRUE])
    /\ proved' = proved \union {<<arg[p].user, arg[p].email>>}
    /\ UNCHANGED <<accepted, granted, everGranted>> /\ Return(p)

----------------------------------------------------------------------------
(* Guards and the audit log *)

\* The roles guard: the role of the token.
RoleAllowed(actor) ==
    \/ actor = Admin
    \/ /\ actor \in Users /\ token[actor] # None
       /\ token[actor].role = "CONTROLLER"
\* The permissions guard: administrators may do everything, controllers what
\* their token says.
\* Seeded bug: any controller may do everything.
AllowedRole(actor, permission) == RoleAllowed(actor)
Allowed(actor, permission) ==
    /\ RoleAllowed(actor)
    /\ actor # Admin => permission \in token[actor].permissions

Log(p) ==
    CASE arg[p].does = "status" ->
            [audited EXCEPT !.isActive[arg[p].user] = arg[p].isActive]
      [] arg[p].does = "permissions" ->
            [audited EXCEPT !.permissions[arg[p].user] = arg[p].set]
      [] OTHER -> [audited EXCEPT !.note[arg[p].note] = arg[p].does]
LogAudit(p) ==
    /\ pc[p] = "audit"
    /\ audited' = Log(p)
    /\ UNCHANGED <<account, permissions, token, otpTokens, notes,
                   historyVars, boundVars>> /\ Return(p)

----------------------------------------------------------------------------
(* Controllers and customers *)

CreateController(p, u, e, w, set) ==
    /\ ~Exists(u) /\ set # {}
    /\ Start(p, "controller", "controller",
             [NoArg EXCEPT !.user = u, !.email = e, !.password = w,
                           !.set = set, !.does = "permissions"])
CheckControllerEmail(p) ==
    /\ pc[p] = "controller"
    /\ IF WithEmail(arg[p].email) = {}
       THEN Read(p, "controller.create", arg[p])
       ELSE Throw(p)
CreateControllerUser(p) ==
    /\ pc[p] = "controller.create"
    /\ ~Exists(arg[p].user) /\ WithEmail(arg[p].email) = {}
    /\ WriteAccounts([account EXCEPT ![arg[p].user] =
            [email |-> arg[p].email, password |-> arg[p].password,
             role |-> "CONTROLLER", isEmailVerified |-> TRUE, isActive |-> TRUE]])
    /\ proved' = proved \union {<<arg[p].user, arg[p].email>>}
    /\ granted' = [granted EXCEPT ![arg[p].user] = arg[p].set]
    /\ UNCHANGED <<accepted, everGranted>> /\ Goto(p, "controller.grant")
ControllerThrows(p) ==
    /\ pc[p] = "controller.create"
    /\ Exists(arg[p].user) \/ WithEmail(arg[p].email) # {}
    /\ Throw(p)

\* The rows are created at once, or none if one of them is there.
CreatePermissions(p) ==
    /\ pc[p] \in {"controller.grant", "permissions.create"}
    /\ permissions[arg[p].user] \intersect arg[p].set = {}
    /\ permissions' = [permissions EXCEPT ![arg[p].user] = @ \union arg[p].set]
    /\ everGranted' = [everGranted EXCEPT ![arg[p].user] = @ \union arg[p].set]
    /\ UNCHANGED <<account, token, otpTokens, notes, audited, proved, accepted,
                   granted, boundVars>> /\ Goto(p, "audit")
PermissionsThrow(p) ==
    /\ pc[p] \in {"controller.grant", "permissions.create"}
    /\ permissions[arg[p].user] \intersect arg[p].set # {}
    /\ Throw(p)

HasRole(u, role) == Exists(u) /\ account[u].role = role

UpdateControllerPermissions(p, u, set) ==
    /\ Exists(u)
    /\ Start(p, "permissions", "permissions",
             [NoArg EXCEPT !.user = u, !.set = set, !.does = "permissions"])
FindController(p) ==
    /\ pc[p] = "permissions"
    /\ IF HasRole(arg[p].user, "CONTROLLER")
       THEN Read(p, "permissions.delete", arg[p])
       ELSE Throw(p)
DeletePermissions(p) ==
    /\ pc[p] = "permissions.delete"
    /\ permissions' = [permissions EXCEPT ![arg[p].user] = {}]
    /\ granted' = [granted EXCEPT ![arg[p].user] = arg[p].set]
    /\ UNCHANGED <<account, token, otpTokens, notes, audited, proved, accepted,
                   everGranted, boundVars>> /\ Goto(p, "permissions.create")

UpdateControllerStatus(p, u, isActive) ==
    /\ Exists(u)
    /\ Start(p, "controllerStatus", "status",
             [NoArg EXCEPT !.user = u, !.role = "CONTROLLER",
                           !.isActive = isActive, !.does = "status"])
UpdateCustomerStatus(p, actor, u, isActive) ==
    /\ Exists(u) /\ Allowed(actor, "CUSTOMER_UPDATE_STATUS")
    /\ Start(p, "customerStatus", "status",
             [NoArg EXCEPT !.actor = actor, !.user = u, !.role = "CUSTOMER",
                           !.isActive = isActive, !.does = "status"])
FindForStatus(p) ==
    /\ pc[p] = "status"
    /\ IF HasRole(arg[p].user, arg[p].role)
       THEN Read(p, "status.update", arg[p])
       ELSE Throw(p)
WriteStatus(p) ==
    /\ pc[p] = "status.update"
    /\ WriteAccounts([account EXCEPT ![arg[p].user].isActive = arg[p].isActive])
    /\ UNCHANGED historyVars /\ Goto(p, "audit")

----------------------------------------------------------------------------
(* Notes of administrators on customers and operators *)

Unread(n) == notes[n] = None
Kept(n) == notes[n] \notin {None, Gone}

StartNote(p, actor, t, n, does) ==
    Start(p, "notes", "note", [NoArg EXCEPT !.actor = actor, !.user = t,
                                            !.note = n, !.does = does])

AddCustomerNote(p, actor, u, n) ==
    /\ Allowed(actor, "CUSTOMER_ADD_NOTE") /\ Unread(n)
    /\ StartNote(p, actor, u, n, "added")
AddOperatorNote(p, actor, n) ==
    /\ Allowed(actor, "OPERATOR_ADD_NOTE") /\ Unread(n)
    /\ StartNote(p, actor, Operator, n, "added")
FindNoteTarget(p) ==
    /\ pc[p] = "note" /\ arg[p].does = "added"
    /\ IF arg[p].user = Operator \/ HasRole(arg[p].user, "CUSTOMER")
       THEN Read(p, "note.create", arg[p])
       ELSE Throw(p)
CreateNote(p) ==
    /\ pc[p] = "note.create"
    /\ IF Unread(arg[p].note)
       THEN /\ notes' = [notes EXCEPT ![arg[p].note] =
                            [about |-> arg[p].user, edited |-> FALSE]]
            /\ Goto(p, "audit")
       ELSE notes' = notes /\ Return(p)
    /\ UNCHANGED <<account, permissions, token, otpTokens, audited,
                   historyVars, boundVars>>

EditCustomerNote(p, actor, u, n) ==
    /\ Allowed(actor, "CUSTOMER_EDIT_NOTE")
    /\ StartNote(p, actor, u, n, "updated")
EditOperatorNote(p, actor, n) ==
    /\ Allowed(actor, "OPERATOR_EDIT_NOTE")
    /\ StartNote(p, actor, Operator, n, "updated")
\* Only administrators delete notes.
DeleteCustomerNote(p, actor, u, n) ==
    /\ actor = Admin
    /\ StartNote(p, actor, u, n, "deleted")
DeleteOperatorNote(p, actor, n) ==
    /\ actor = Admin
    /\ StartNote(p, actor, Operator, n, "deleted")

\* The note must be about the customer or operator of the request.
FindNote(p) ==
    /\ pc[p] = "note" /\ arg[p].does # "added"
    /\ IF Kept(arg[p].note) /\ notes[arg[p].note].about = arg[p].user
       THEN Read(p, "note.update", arg[p])
       ELSE Throw(p)
\* A note that was deleted meanwhile is neither updated nor deleted.
WriteNote(p) ==
    /\ pc[p] = "note.update" /\ Kept(arg[p].note)
    /\ notes' = [notes EXCEPT ![arg[p].note] =
            IF arg[p].does = "deleted" THEN Gone ELSE [@ EXCEPT !.edited = TRUE]]
    /\ UNCHANGED <<account, permissions, token, otpTokens, audited,
                   historyVars, boundVars>> /\ Goto(p, "audit")
NoteIsGone(p) ==
    /\ pc[p] = "note.update" /\ ~Kept(arg[p].note)
    /\ Throw(p)

----------------------------------------------------------------------------
(* The specification *)

Tick ==
    /\ now < Horizon /\ now' = now + 1
    /\ UNCHANGED <<rowVars, historyVars, menu, overlapped, issued, crashes, pc,
                   arg>>

\* The process stops: what its handlers had not yet written is lost.
Crash ==
    /\ crashes < MaxCrashes /\ crashes' = crashes + 1
    /\ ~Idle
    /\ pc' = [p \in Clients |-> "idle"] /\ arg' = [p \in Clients |-> NoArg]
    /\ UNCHANGED <<rowVars, historyVars, now, menu, overlapped, issued>>

UserStep(p) ==
    \/ \E u \in Users, e \in Emails :
        \/ \E w \in Passwords : Register(p, u, e, w)
        \/ UpdateProfile(p, u, e)
    \/ CreateUser(p) \/ EmailExists(p)
    \/ CheckNewEmail(p) \/ WriteProfile(p) \/ ProfileThrows(p)
    \/ \E e \in Emails, w \in Passwords : Login(p, e, w)
    \/ ValidateUser(p) \/ SignToken(p)
    \/ \E u \in Users, v, w \in Passwords : ChangePassword(p, u, v, w)
    \/ ComparePassword(p) \/ WritePassword(p)
CodeStep(p) ==
    \/ \E e \in Emails :
        \/ SendPasswordResetOTP(p, e) \/ SendEmailVerificationOTP(p, e)
        \/ \E i \in DOMAIN otpTokens :
            \/ \E w \in Passwords : ResetPassword(p, e, i, w)
            \/ VerifyEmail(p, e, i)
    \/ FindForCode(p) \/ CheckCooldown(p) \/ InvalidateCodes(p) \/ CreateCode(p)
    \/ FindCode(p) \/ UseCode(p) \/ FindCodeUser(p) \/ MarkEmailAsVerified(p)
AdminStep(p) ==
    \/ \E u \in Users, set \in SUBSET Permissions :
        \/ \E e \in Emails, w \in Passwords : CreateController(p, u, e, w, set)
        \/ set # {} /\ UpdateControllerPermissions(p, u, set)
    \/ CheckControllerEmail(p) \/ CreateControllerUser(p) \/ ControllerThrows(p)
    \/ CreatePermissions(p) \/ PermissionsThrow(p)
    \/ FindController(p) \/ DeletePermissions(p)
    \/ \E u \in Users, b \in BOOLEAN :
        \/ UpdateControllerStatus(p, u, b)
        \/ \E actor \in Users \union {Admin} : UpdateCustomerStatus(p, actor, u, b)
    \/ FindForStatus(p) \/ WriteStatus(p) \/ LogAudit(p)
NoteStep(p) ==
    \/ \E actor \in Users \union {Admin}, n \in Notes :
        \/ AddOperatorNote(p, actor, n) \/ EditOperatorNote(p, actor, n)
        \/ DeleteOperatorNote(p, actor, n)
        \/ \E u \in Users :
            \/ AddCustomerNote(p, actor, u, n) \/ EditCustomerNote(p, actor, u, n)
            \/ DeleteCustomerNote(p, actor, u, n)
    \/ FindNoteTarget(p) \/ CreateNote(p) \/ FindNote(p) \/ WriteNote(p)
    \/ NoteIsGone(p)

Next ==
    \/ \E p \in Clients :
        UserStep(p) \/ CodeStep(p) \/ AdminStep(p) \/ NoteStep(p)
    \/ \E u \in Users : TokenExpires(u)
    \/ Tick \/ Crash

Spec == Init /\ [][Next]_vars

----------------------------------------------------------------------------
(* Properties *)

\* A verified address was proved by a code sent to it, or entered by an
\* administrator, by the user whose address it is now: a profile may change
\* the address while codes are out (users.service.ts:58, auth.service.ts:222).
\* A change between the reads and the write of a verification escapes this.
VerifiedWasProved ==
    ~overlapped => \A u \in Users :
        Exists(u) /\ account[u].isEmailVerified => <<u, account[u].email>> \in proved

\* A code is accepted once, unless two uses of it overlap (otp.service.ts:63).
AcceptedOnce ==
    ~overlapped => \A i, j \in DOMAIN accepted : accepted[i] = accepted[j] => i = j

\* A controller has the permissions that were last granted to it when the
\* requests ran one after the other and to their end: the old ones are
\* deleted and the new ones created in two awaits (admin.service.ts:2787).
PermissionsAsGranted ==
    Idle /\ ~overlapped /\ crashes = 0 => permissions = granted

\* The last entry of the audit log about a user's status or permissions, or
\* about a note, tells how it is: the entry is written after the change, in
\* another await (admin.controller.ts:258, :923).
AuditTellsTheState ==
    Idle /\ ~overlapped /\ crashes = 0 =>
        /\ \A u \in Users :
            /\ audited.isActive[u] \in {None, Exists(u) /\ account[u].isActive}
            /\ audited.permissions[u] \in {None, permissions[u]}
        /\ \A n \in Notes : audited.note[n] =
            IF notes[n] = None THEN None
            ELSE IF notes[n] = Gone THEN "deleted"
            ELSE IF notes[n].edited THEN "updated" ELSE "added"

\* What accounts, permissions and the audit log say was proved, asked or done.
AccountsHold ==
    /\ VerifiedWasProved /\ AcceptedOnce
    /\ PermissionsAsGranted /\ AuditTellsTheState

\* A code is accepted only while it is the newest for its address and kind,
\* whatever codes were sent, used or expired before: sending one spends the
\* others in a write of its own (otp.service.ts:29).  A request between search
\* and use escapes this.
NewestIsAccepted ==
    [][\A i \in DOMAIN otpTokens :
        accepted' = Append(accepted, i) /\ ~overlapped =>
            \A j \in OfKind(otpTokens[i].email, otpTokens[i].type) : j <= i]_vars

\* A customer's status is changed by an administrator, or by a controller
\* that was granted this permission, though it is the token that is asked,
\* whatever overlaps and crashes (permissions.guard.ts:34).
ActsAreGranted ==
    [][\A u \in Users, p \in Clients :
        pc[p] = "status.update" /\ pc'[p] = "audit" /\ arg[p].role = "CUSTOMER"
          => \/ arg[p].actor = Admin
             \/ "CUSTOMER_UPDATE_STATUS" \in everGranted[arg[p].actor]]_vars

\* As PermissionsAsGranted, of what a controller can do: its token keeps the
\* permissions of its login.
TokenAsGranted ==
    Idle /\ ~overlapped /\ crashes = 0 => \A u \in Users :
        token[u] # None /\ token[u].role = "CONTROLLER"
            => token[u].permissions = permissions[u]

\* auth.controller.ts:46, check-email: an address that is available can be
\* registered.
AvailableIsFree == \A e \in Emails : EmailAvailable(e) => WithEmail(e) = {}
=============================================================================
