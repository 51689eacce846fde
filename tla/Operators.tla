----------------------------- MODULE Operators -----------------------------
(***************************************************************************)
(* One operator: registration, profile, documents and approval, and its    *)
(* fleet: vehicles, their photos and drivers, with the administrators who  *)
(* approve them.                                                           *)
(*                                                                         *)
(* A handler is a sequence of awaits, as in Auction; a database            *)
(* transaction is one step, and one that throws is like no request.        *)
(* Descriptive fields, file storage and notices are left out, and there is *)
(* at most one document of a type.  An id is used once.                    *)
(***************************************************************************)
EXTENDS Integers, FiniteSets

CONSTANTS
    Clients,      \* concurrent requests, of the operator and administrators
    Requests,     \* the requests that are issued
    Areas,        \* postcodes
    Documents,    \* the document types that approval requires
    Vehicles, Drivers,  \* ids
    Badges,       \* drivers' badge numbers
    PhotoTypes,
    FleetSizes,   \* fleet sizes an operator enters
    MaxRequests,  \* bound on the requests
    MaxCrashes,   \* bound on crashes
    None, Gone    \* null; the id of a deleted row

ASSUME OperatorsAssumption ==
    /\ FleetSizes \subseteq Nat /\ {MaxRequests, MaxCrashes} \subseteq Nat
    /\ IsFiniteSet(Vehicles) /\ None \notin Vehicles
    /\ None \notin BOOLEAN
    /\ None \notin {"PENDING", "APPROVED", "REJECTED", "SUSPENDED"}
    /\ \A x \in {None, Gone} : x \notin [isApproved : BOOLEAN, isActive : BOOLEAN]

VARIABLES
    approvalStatus,  \* None before the registration
    bankDetails,     \* the bank account is entered
    areas, documents,
    fleetSize,
    vehicles,        \* by id: None, Gone or the row
    drivers,
    photos,          \* by vehicle: the types of its photos
    asked,           \* history: the areas that were last asked for
    reinstated,      \* history: an administrator reinstated the operator
    overlapped,      \* history: a handler ran between two awaits of another
    issued, crashes,
    pc, arg

profileVars == <<approvalStatus, bankDetails, areas, documents>>
fleetVars == <<fleetSize, vehicles, drivers, photos>>
historyVars == <<asked, reinstated>>
boundVars == <<overlapped, issued, crashes>>
vars == <<profileVars, fleetVars, historyVars, boundVars, pc, arg>>

OrNone(S) == S \union {None}

ApprovalStatus == {"PENDING", "APPROVED", "REJECTED", "SUSPENDED"}
Vehicle == [isApproved : BOOLEAN, isActive : BOOLEAN]
Driver == [vehicle : OrNone(Vehicles), badge : Badges, isApproved : BOOLEAN,
           isActive : BOOLEAN]
PC == {"idle", "register", "register.areas", "profile", "profile.areas",
       "profile.update", "upload", "document", "review", "approval", "createVehicle",
       "updateVehicle", "photos", "photos.upsert", "createDriver",
       "updateDriver", "deleteDriver", "approveDriver", "approveVehicle"}
\* The ids and values of a request, and the driver's row as it was read.
Arg == [status : ApprovalStatus, set : SUBSET (Areas \union PhotoTypes),
        document : OrNone(Documents), size : OrNone(FleetSizes),
        vehicle : OrNone(Vehicles) \union {"keep"}, driver : OrNone(Drivers),
        badge : OrNone(Badges), isActive : OrNone(BOOLEAN),
        row : OrNone(Driver)]
NoArg == [status |-> "PENDING", set |-> {}, document |-> None, size |-> None,
          vehicle |-> None, driver |-> None, badge |-> None,
          isActive |-> None, row |-> None]

Live(rows) == {x \in DOMAIN rows : rows[x] \notin {None, Gone}}
ActiveVehicles(rows) == {v \in Live(rows) : rows[v].isActive}

TypeOK ==
    /\ approvalStatus \in OrNone(ApprovalStatus) /\ bankDetails \in BOOLEAN
    /\ areas \subseteq Areas /\ documents \subseteq Documents
    /\ fleetSize \in OrNone(FleetSizes \union 0 .. Cardinality(Vehicles))
    /\ DOMAIN vehicles = Vehicles /\ DOMAIN drivers = Drivers
    /\ \A v \in Live(vehicles) : vehicles[v] \in Vehicle
    /\ \A d \in Live(drivers) : drivers[d] \in Driver
    /\ photos \in [Vehicles -> SUBSET PhotoTypes]
    /\ asked \subseteq Areas /\ reinstated \in BOOLEAN /\ overlapped \in BOOLEAN
    /\ issued \in 0 .. MaxRequests /\ crashes \in 0 .. MaxCrashes
    /\ pc \in [Clients -> PC] /\ DOMAIN arg = Clients
    /\ \A p \in Clients : DOMAIN arg[p] = DOMAIN NoArg

\* A user before its registration, or an operator that was approved as it
\* should be and has the first drivers with their approved vehicles.
Unregistered ==
    /\ approvalStatus = None /\ bankDetails = FALSE
    /\ areas = {} /\ documents = {} /\ fleetSize = None
    /\ vehicles = [v \in Vehicles |-> None]
    /\ drivers = [d \in Drivers |-> None]
Approved ==
    /\ approvalStatus = "APPROVED" /\ bankDetails = TRUE
    /\ areas = Areas /\ documents = Documents /\ fleetSize = 1
    /\ \E v \in Vehicles, d \in Drivers, b \in Badges :
        /\ vehicles = [[x \in Vehicles |-> None] EXCEPT
                            ![v] = [isApproved |-> TRUE, isActive |-> TRUE]]
        /\ drivers = [[x \in Drivers |-> None] EXCEPT
                            ![d] = [vehicle |-> v, badge |-> b,
                                    isApproved |-> TRUE, isActive |-> TRUE]]
Init ==
    /\ Unregistered \/ Approved
    /\ photos = [v \in Vehicles |-> {}]
    /\ asked = areas /\ reinstated = FALSE /\ overlapped = FALSE
    /\ issued = 0 /\ crashes = 0
    /\ pc = [p \in Clients |-> "idle"] /\ arg = [p \in Clients |-> NoArg]

----------------------------------------------------------------------------
(* Handlers *)

Idle == \A p \in Clients : pc[p] = "idle"

Request(p, name) ==
    /\ name \in Requests
    /\ pc[p] = "idle" /\ overlapped' = (overlapped \/ ~Idle)
    /\ issued < MaxRequests /\ issued' = issued + 1

GotoWith(p, step, a) ==
    /\ pc' = [pc EXCEPT ![p] = step]
    /\ arg' = [arg EXCEPT ![p] = a]
Goto(p, step) == GotoWith(p, step, arg[p])
Return(p) == GotoWith(p, "idle", NoArg)

Start(p, name, step, a) ==
    /\ Request(p, name)
    /\ GotoWith(p, step, a)
    /\ UNCHANGED <<profileVars, fleetVars, historyVars, crashes>>

\* A step that throws: the handler ends and nothing is written.
Throw(p) ==
    /\ Return(p)
    /\ UNCHANGED <<profileVars, fleetVars, historyVars, boundVars>>

----------------------------------------------------------------------------
(* Registration and profile *)

Register(p, postcodes) ==
    /\ approvalStatus = None
    /\ Start(p, "register", "register", [NoArg EXCEPT !.set = postcodes])

\* The user has one profile at most: the second creation throws.
WriteProfile(p) ==
    /\ pc[p] = "register" /\ approvalStatus = None
    /\ approvalStatus' = "PENDING" /\ asked' = arg[p].set
    /\ Goto(p, "register.areas")
    /\ UNCHANGED <<bankDetails, areas, documents, fleetVars, reinstated,
                   boundVars>>
RegisterAgain(p) ==
    /\ pc[p] = "register" /\ approvalStatus # None
    /\ Throw(p)

\* One creation for each service area.
CreateServiceArea(p, a) ==
    /\ pc[p] = "register.areas" /\ a \in arg[p].set
    /\ areas' = areas \union {a}
    /\ IF arg[p].set = {a} THEN Return(p)
       ELSE GotoWith(p, "register.areas", [arg[p] EXCEPT !.set = @ \ {a}])
    /\ UNCHANGED <<approvalStatus, bankDetails, documents, fleetVars,
                   historyVars, boundVars>>

UpdateProfile(p, postcodes, size) ==
    /\ approvalStatus # None
    /\ Start(p, "profile", "profile",
             [NoArg EXCEPT !.set = postcodes, !.size = size])

DeleteAreas(p) ==
    /\ pc[p] = "profile"
    /\ areas' = {} /\ asked' = arg[p].set
    /\ Goto(p, "profile.areas")
    /\ UNCHANGED <<approvalStatus, bankDetails, documents, fleetVars,
                   reinstated, boundVars>>

CreateAreas(p) ==
    /\ pc[p] = "profile.areas"
    /\ areas' = areas \union arg[p].set
    /\ Goto(p, "profile.update")
    /\ UNCHANGED <<approvalStatus, bankDetails, documents, fleetVars,
                   historyVars, boundVars>>

WriteProfileUpdate(p) ==
    /\ pc[p] = "profile.update"
    /\ fleetSize' = IF arg[p].size = None THEN fleetSize ELSE arg[p].size
    /\ Return(p)
    /\ UNCHANGED <<profileVars, vehicles, drivers, photos, historyVars,
                   boundVars>>

UpdateBankDetails(p) ==
    /\ Request(p, "bank") /\ approvalStatus # None
    /\ bankDetails' = TRUE
    /\ UNCHANGED <<approvalStatus, areas, documents, fleetVars, historyVars,
                   crashes, pc, arg>>

----------------------------------------------------------------------------
(* Documents and approval *)

\* confirmUpload, of a file that is stored
ConfirmUpload(p, t) ==
    /\ approvalStatus # None /\ t \notin documents
    /\ Start(p, "upload", "upload", [NoArg EXCEPT !.document = t])

WriteDocument(p) ==
    /\ pc[p] = "upload"
    /\ documents' = documents \union {arg[p].document}
    /\ Goto(p, "review")
    /\ UNCHANGED <<approvalStatus, bankDetails, areas, fleetVars, historyVars,
                   boundVars>>

DeleteDocument(p, t) ==
    /\ t \in documents
    /\ Start(p, "document", "document", [NoArg EXCEPT !.document = t])

\* Seeded bug: the approval is kept when a document is removed.
WriteDocumentDeletedOnly(p) ==
    /\ pc[p] = "document" /\ arg[p].document \in documents
    /\ documents' = documents \ {arg[p].document}
    /\ Return(p)
    /\ UNCHANGED <<approvalStatus, bankDetails, areas, fleetVars, historyVars,
                   boundVars>>

WriteDocumentDeleted(p) ==
    /\ pc[p] = "document" /\ arg[p].document \in documents
    /\ documents' = documents \ {arg[p].document}
    /\ Goto(p, "review")
    /\ UNCHANGED <<approvalStatus, bankDetails, areas, fleetVars, historyVars,
                   boundVars>>
DocumentIsGone(p) ==
    /\ pc[p] = "document" /\ arg[p].document \notin documents
    /\ Throw(p)

\* "Reset approval status to PENDING so admin re-reviews"
ResetApproval(p) ==
    /\ pc[p] = "review"
    /\ approvalStatus' = "PENDING"
    /\ Return(p)
    /\ UNCHANGED <<bankDetails, areas, documents, fleetVars, historyVars,
                   boundVars>>

NothingMissing == bankDetails /\ areas # {} /\ documents = Documents

\* updateOperatorApproval, suspendOperator, reinstateOperator, rejectOperator
MayDecide(name, s) ==
    CASE name = "approve" -> s = "APPROVED" => NothingMissing
      [] name = "suspend" -> s = "SUSPENDED" /\ approvalStatus # "SUSPENDED"
      [] name = "reinstate" -> s = "APPROVED" /\ approvalStatus = "SUSPENDED"
      [] name = "reject" -> s = "REJECTED" /\ approvalStatus = "PENDING"

Decide(p, name, s) ==
    /\ approvalStatus # None
    /\ MayDecide(name, s)
    /\ GotoWith(p, "approval", [NoArg EXCEPT !.status = s])
    /\ Request(p, name)
    /\ reinstated' = (reinstated \/ name = "reinstate")
    /\ UNCHANGED <<profileVars, fleetVars, asked, crashes>>

WriteApproval(p) ==
    /\ pc[p] = "approval"
    /\ approvalStatus' = arg[p].status
    /\ Return(p)
    /\ UNCHANGED <<bankDetails, areas, documents, fleetVars, historyVars,
                   boundVars>>

----------------------------------------------------------------------------
(* Vehicles *)

\* What a step of the fleet leaves alone.
FleetStep == UNCHANGED <<profileVars, historyVars, boundVars>>

WithoutVehicle == {d \in Live(drivers) : drivers[d].vehicle = None}

\* createVehicle, for a driver that has none, or for no driver
CreateVehicle(p, v, d) ==
    /\ approvalStatus # None /\ vehicles[v] = None
    /\ d \in WithoutVehicle \union {None}
    /\ Start(p, "createVehicle", "createVehicle",
             [NoArg EXCEPT !.vehicle = v, !.driver = d])

\* The driver may have got another vehicle since: it is replaced.
WriteVehicle(p) ==
    LET v == arg[p].vehicle
        d == arg[p].driver
    IN  /\ pc[p] = "createVehicle"
        /\ vehicles[v] = None /\ d \in Live(drivers) \union {None}
        /\ vehicles' = [vehicles EXCEPT
                ![v] = [isApproved |-> FALSE, isActive |-> FALSE]]
        /\ drivers' = IF d = None THEN drivers
                      ELSE [drivers EXCEPT ![d].vehicle = v]
        /\ fleetSize' = Cardinality(ActiveVehicles(vehicles'))
        /\ Return(p)
        /\ UNCHANGED photos /\ FleetStep

UpdateVehicle(p, v, active) ==
    /\ v \in Live(vehicles)
    /\ active => vehicles[v].isActive \/ vehicles[v].isApproved
    /\ Start(p, "updateVehicle", "updateVehicle",
             [NoArg EXCEPT !.vehicle = v, !.isActive = active])

\* The fleet size is counted in the same transaction.
WriteVehicleUpdate(p) ==
    LET v == arg[p].vehicle
    IN  /\ pc[p] = "updateVehicle" /\ v \in Live(vehicles)
        /\ vehicles' = [vehicles EXCEPT ![v].isActive = arg[p].isActive]
        /\ fleetSize' = IF vehicles'[v].isActive = vehicles[v].isActive
                          THEN fleetSize
                          ELSE Cardinality(ActiveVehicles(vehicles'))
        /\ Return(p)
        /\ UNCHANGED <<drivers, photos>> /\ FleetStep

\* The driver keeps its row without the vehicle (onDelete: SetNull).
Unlinked(v, rows) ==
    [d \in Drivers |->
        IF d \in Live(rows) /\ rows[d].vehicle = v
          THEN [rows[d] EXCEPT !.vehicle = None] ELSE rows[d]]

\* The linked driver loses its approval with its vehicle.
Disapproved(v, rows) ==
    [d \in Drivers |->
        IF d \in Live(rows) /\ rows[d].vehicle = v
          THEN [rows[d] EXCEPT !.isApproved = FALSE, !.isActive = FALSE]
          ELSE rows[d]]

\* deleteVehicle: all that is read before the transaction is that the
\* vehicle exists, and its owner.
DeleteVehicle(p, v) ==
    /\ Request(p, "deleteVehicle") /\ v \in Live(vehicles)
    /\ drivers' = Unlinked(v, Disapproved(v, drivers))
    /\ vehicles' = [vehicles EXCEPT ![v] = Gone]
    /\ photos' = [photos EXCEPT ![v] = {}]
    /\ fleetSize' = Cardinality(ActiveVehicles(vehicles'))
    /\ UNCHANGED <<profileVars, historyVars, crashes, pc, arg>>

UpdateVehiclePhotos(p, v, types) ==
    /\ v \in Live(vehicles)
    /\ Start(p, "photos", "photos", [NoArg EXCEPT !.vehicle = v, !.set = types])

\* The types that are not provided are deleted, the others written in
\* parallel.
DeletePhotos(p) ==
    /\ pc[p] = "photos"
    /\ photos' = [photos EXCEPT ![arg[p].vehicle] = @ \intersect arg[p].set]
    /\ IF arg[p].set = {} THEN Return(p) ELSE Goto(p, "photos.upsert")
    /\ UNCHANGED <<fleetSize, vehicles, drivers>> /\ FleetStep

UpsertPhoto(p, t) ==
    /\ pc[p] = "photos.upsert" /\ t \in arg[p].set
    /\ arg[p].vehicle \in Live(vehicles)
    /\ photos' = [photos EXCEPT ![arg[p].vehicle] = @ \union {t}]
    /\ IF arg[p].set = {t} THEN Return(p)
       ELSE GotoWith(p, "photos.upsert", [arg[p] EXCEPT !.set = @ \ {t}])
    /\ UNCHANGED <<fleetSize, vehicles, drivers>> /\ FleetStep

----------------------------------------------------------------------------
(* Drivers *)

BadgesInUse == {drivers[d].badge : d \in Live(drivers)}

CreateDriver(p, d, b) ==
    /\ approvalStatus # None /\ drivers[d] = None
    /\ b \notin BadgesInUse
    /\ Start(p, "createDriver", "createDriver",
             [NoArg EXCEPT !.driver = d, !.badge = b])

WriteDriver(p) ==
    /\ pc[p] = "createDriver" /\ drivers[arg[p].driver] = None
    /\ drivers' = [drivers EXCEPT ![arg[p].driver] =
            [vehicle |-> None, badge |-> arg[p].badge,
             isApproved |-> FALSE, isActive |-> FALSE]]
    /\ Return(p)
    /\ UNCHANGED <<fleetSize, vehicles, photos>> /\ FleetStep

Deactivates(a) == a.isActive = FALSE /\ a.row.isActive
Reactivates(a) == a.isActive = TRUE /\ ~a.row.isActive

\* updateDriver: active, badge and v say what is to change, v = None that the
\* vehicle is disconnected.  The badge number is not looked for.
UpdateDriver(p, d, active, b, v) ==
    /\ d \in Live(drivers)
    /\ active = TRUE /\ ~drivers[d].isActive
            => drivers[d].isApproved /\ drivers[d].vehicle # None
    /\ Start(p, "updateDriver", "updateDriver",
             [NoArg EXCEPT !.driver = d, !.isActive = active, !.badge = b,
                           !.vehicle = v, !.row = drivers[d]])

\* Seeded bug: the vehicle is not taken from the driver that had it.
UpdatedDriversShare(a) ==
    [drivers EXCEPT ![a.driver] =
        [@ EXCEPT !.vehicle = IF a.vehicle = "keep" THEN @ ELSE a.vehicle]]

\* The row after the update; a vehicle is taken from the driver that had it.
UpdatedDrivers(a) ==
    LET d == a.driver
        free == IF a.vehicle \in Vehicles THEN Unlinked(a.vehicle, drivers)
                ELSE drivers
        row == free[d]
    IN  [free EXCEPT ![d] =
            [vehicle |-> IF a.vehicle = "keep" THEN row.vehicle ELSE a.vehicle,
             badge |-> IF a.badge = None THEN row.badge ELSE a.badge,
             isApproved |-> row.isApproved /\ ~Deactivates(a),
             isActive |-> IF a.isActive = None THEN row.isActive
                          ELSE a.isActive]]

\* The vehicle that was linked when the driver was read follows the driver.
FollowsDriver(a) == a.row.vehicle # None /\ (Deactivates(a) \/ Reactivates(a))

\* Seeded bug: the vehicle of a deactivated driver stays active.
UpdatedVehiclesStayActive(a) ==
    IF ~FollowsDriver(a) THEN vehicles
    ELSE [vehicles EXCEPT ![a.row.vehicle] =
            [isApproved |-> FALSE, isActive |-> vehicles[a.row.vehicle].isActive]]
UpdatedVehicles(a) ==
    IF ~FollowsDriver(a) THEN vehicles
    ELSE [vehicles EXCEPT ![a.row.vehicle] =
            [isApproved |-> @.isApproved /\ ~Deactivates(a),
             isActive |-> ~Deactivates(a)]]

WriteDriverUpdate(p) ==
    LET a == arg[p]
    IN  /\ pc[p] = "updateDriver" /\ a.driver \in Live(drivers)
        /\ a.vehicle \in Vehicles => a.vehicle \in Live(vehicles)
        /\ FollowsDriver(a) =>
                /\ a.row.vehicle \in Live(vehicles)
                /\ Reactivates(a) => vehicles[a.row.vehicle].isApproved
        /\ drivers' = UpdatedDrivers(a)
        /\ vehicles' = UpdatedVehicles(a)
        /\ fleetSize' = IF FollowsDriver(a)
                          THEN Cardinality(ActiveVehicles(vehicles'))
                          ELSE fleetSize
        /\ Return(p)
        /\ UNCHANGED photos /\ FleetStep

DeleteDriver(p, d) ==
    /\ d \in Live(drivers)
    /\ Start(p, "deleteDriver", "deleteDriver",
             [NoArg EXCEPT !.driver = d, !.vehicle = drivers[d].vehicle])

\* With the vehicle that was linked when the driver was read.
WriteDriverDeleted(p) ==
    LET v == arg[p].vehicle
    IN  /\ pc[p] = "deleteDriver" /\ arg[p].driver \in Live(drivers)
        /\ v \in Live(vehicles) \union {None}
        /\ drivers' = [Unlinked(v, drivers) EXCEPT ![arg[p].driver] = Gone]
        /\ vehicles' = IF v = None THEN vehicles
                       ELSE [vehicles EXCEPT ![v] = Gone]
        /\ photos' = IF v = None THEN photos ELSE [photos EXCEPT ![v] = {}]
        /\ fleetSize' = IF v = None THEN fleetSize
                        ELSE Cardinality(ActiveVehicles(vehicles'))
        /\ Return(p)
        /\ FleetStep

\* By an administrator; the fleet size is not counted.
ApproveDriver(p, d) ==
    /\ d \in Live(drivers) /\ drivers[d].vehicle # None
    /\ approvalStatus = "APPROVED"
    /\ Start(p, "approveDriver", "approveDriver",
             [NoArg EXCEPT !.driver = d, !.vehicle = drivers[d].vehicle])

Approve(rows, x) ==
    [rows EXCEPT ![x].isApproved = TRUE, ![x].isActive = TRUE]

WriteDriverApproved(p) ==
    /\ pc[p] = "approveDriver"
    /\ arg[p].driver \in Live(drivers) /\ arg[p].vehicle \in Live(vehicles)
    /\ drivers' = Approve(drivers, arg[p].driver)
    /\ vehicles' = Approve(vehicles, arg[p].vehicle)
    /\ Return(p)
    /\ UNCHANGED <<fleetSize, photos>> /\ FleetStep

ApproveVehicle(p, v) ==
    /\ v \in Live(vehicles) /\ approvalStatus = "APPROVED"
    /\ Start(p, "approveVehicle", "approveVehicle",
             [NoArg EXCEPT !.vehicle = v])

WriteVehicleApproved(p) ==
    /\ pc[p] = "approveVehicle" /\ arg[p].vehicle \in Live(vehicles)
    /\ vehicles' = Approve(vehicles, arg[p].vehicle)
    /\ Return(p)
    /\ UNCHANGED <<fleetSize, drivers, photos>> /\ FleetStep

\* A transaction or an upsert whose row is gone, or whose id or vehicle was
\* used meanwhile.
TransactionThrows(p) ==
    LET a == arg[p]
        noVehicle == a.vehicle \in Vehicles /\ a.vehicle \notin Live(vehicles)
        noDriver == a.driver # None /\ a.driver \notin Live(drivers)
        noLink == FollowsDriver(a) /\
                    \/ a.row.vehicle \notin Live(vehicles)
                    \/ Reactivates(a) /\ ~vehicles[a.row.vehicle].isApproved
    IN  /\ CASE pc[p] = "updateDriver" -> noDriver \/ noVehicle \/ noLink
              [] pc[p] \in {"updateVehicle", "approveVehicle", "approveDriver",
                            "deleteDriver", "photos.upsert"} ->
                    noDriver \/ noVehicle
              [] pc[p] = "createVehicle" -> noDriver \/ ~noVehicle
              [] pc[p] = "createDriver" -> drivers[a.driver] # None
              [] OTHER -> FALSE
        /\ Throw(p)

----------------------------------------------------------------------------
(* The specification *)

\* The process stops; its handlers are gone.
Crash ==
    /\ crashes < MaxCrashes /\ ~Idle
    /\ crashes' = crashes + 1
    /\ pc' = [p \in Clients |-> "idle"] /\ arg' = [p \in Clients |-> NoArg]
    /\ UNCHANGED <<profileVars, fleetVars, historyVars, overlapped, issued>>

ProfileStep(p) ==
    \/ \E set \in SUBSET Areas :
        \/ set # {} /\ Register(p, set)
        \/ \E size \in OrNone(FleetSizes) : UpdateProfile(p, set, size)
    \/ WriteProfile(p) \/ RegisterAgain(p)
    \/ \E a \in Areas : CreateServiceArea(p, a)
    \/ DeleteAreas(p) \/ CreateAreas(p) \/ WriteProfileUpdate(p)
    \/ UpdateBankDetails(p)
    \/ \E t \in Documents : ConfirmUpload(p, t) \/ DeleteDocument(p, t)
    \/ WriteDocument(p) \/ WriteDocumentDeleted(p) \/ DocumentIsGone(p)
    \/ ResetApproval(p)
    \/ \E name \in {"approve", "suspend", "reinstate", "reject"},
          s \in ApprovalStatus \ {"PENDING"} : Decide(p, name, s)
    \/ WriteApproval(p)

FleetSteps(p) ==
    \/ \E v \in Vehicles :
        \/ \E d \in OrNone(Drivers) : CreateVehicle(p, v, d)
        \/ \E active \in BOOLEAN : UpdateVehicle(p, v, active)
        \/ DeleteVehicle(p, v) \/ ApproveVehicle(p, v)
        \/ \E types \in SUBSET PhotoTypes : UpdateVehiclePhotos(p, v, types)
    \/ WriteVehicle(p) \/ WriteVehicleUpdate(p) \/ WriteVehicleApproved(p)
    \/ DeletePhotos(p) \/ \E t \in PhotoTypes : UpsertPhoto(p, t)
    \/ \E d \in Drivers :
        \/ \E b \in Badges : CreateDriver(p, d, b)
        \/ \E active \in OrNone(BOOLEAN), b \in OrNone(Badges),
              v \in Vehicles \union {None, "keep"} :
                UpdateDriver(p, d, active, b, v)
        \/ DeleteDriver(p, d) \/ ApproveDriver(p, d)
    \/ WriteDriver(p) \/ WriteDriverUpdate(p) \/ WriteDriverDeleted(p)
    \/ WriteDriverApproved(p)
    \/ TransactionThrows(p)

Next ==
    \/ \E p \in Clients : ProfileStep(p) \/ FleetSteps(p)
    \/ Crash

Spec == Init /\ [][Next]_vars

----------------------------------------------------------------------------
(* Properties *)

\* An approved operator has every required document, as long as requests do
\* not overlap, nothing crashes between the removal of a document and the
\* reset of the approval (operators.service.ts:392), and no operator is
\* reinstated, which checks nothing (admin.service.ts:627).
ApprovedHasDocuments ==
    ~overlapped /\ crashes = 0 /\ ~reinstated /\ Idle
        /\ approvalStatus = "APPROVED" => documents = Documents

\* Vehicles and drivers are active only while they are approved, over any
\* sequence of approvals, deactivations, links and removals
\* (operators.service.ts:914, :1221): a stale read can break this only when
\* requests overlap.
ActiveIsApproved ==
    ~overlapped =>
        /\ \A v \in Live(vehicles) : vehicles[v].isActive => vehicles[v].isApproved
        /\ \A d \in Live(drivers) : drivers[d].isActive => drivers[d].isApproved

\* A driver and a vehicle belong together: nobody shares a vehicle, and the
\* vehicle exists, whatever overlaps or crashes.
OneDriverPerVehicle ==
    \A d \in Live(drivers) : drivers[d].vehicle # None =>
        /\ drivers[d].vehicle \in Live(vehicles)
        /\ \A e \in Live(drivers) \ {d} : drivers[e].vehicle # drivers[d].vehicle

\* The service areas, which decide who hears of a job, are those last asked
\* for, when the handlers ran one after the other and to their end: they are
\* deleted and created in two awaits (operators.service.ts:255).
AreasAsAsked ==
    Idle /\ ~overlapped /\ crashes = 0 => areas = asked

\* The two promises of the profile.
ProfileHolds == ApprovedHasDocuments /\ AreasAsAsked

\* operators.service.ts:869, "Update fleet size using centralized method":
\* the fleet size counts the active vehicles.  An approval does not count.
FleetSizeCounts ==
    Idle /\ ~overlapped => fleetSize \in {None, Cardinality(ActiveVehicles(vehicles))}

\* operators.service.ts:1228, "Driver must have a linked vehicle before it can
\* be activated".  An active driver's vehicle can be disconnected.
ActiveDriverHasVehicle ==
    ~overlapped => \A d \in Live(drivers) :
        drivers[d].isActive => drivers[d].vehicle # None

\* admin.service.ts:562, "Cannot approve operator. Missing required fields".
\* A suspended operator that never had them is reinstated to APPROVED.
ApprovedIsComplete ==
    ~overlapped /\ crashes = 0 /\ Idle /\ approvalStatus = "APPROVED"
        => documents = Documents
=============================================================================
