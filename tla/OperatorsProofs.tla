--------------------------- MODULE OperatorsProofs --------------------------
(***************************************************************************)
(* For any number of vehicles, drivers and concurrent requests: no two     *)
(* drivers share a vehicle, and a driver's vehicle exists, since the       *)
(* transactions of Operators keep the links however stale what their       *)
(* handlers read.  While requests do not overlap, what is active is        *)
(* approved, and the profile keeps its two promises: what a handler read   *)
(* is then still so when it writes.                                        *)
(***************************************************************************)
EXTENDS Operators, TLAPS

FleetTyped ==
    /\ vehicles \in [Vehicles -> Vehicle \union {None, Gone}]
    /\ drivers \in [Drivers -> Driver \union {None, Gone}]

\* The rows, and the links between them.
FleetInv == FleetTyped /\ OneDriverPerVehicle

\* What a handler holds that is about to write a row of a vehicle or driver.
HeldBy(step, a) ==
    /\ step = "createVehicle" => a.vehicle \in Vehicles
    /\ step = "createDriver" => a.badge \in Badges
    /\ step = "updateDriver" => a.row \in Driver
    /\ step = "updateVehicle" => a.isActive \in BOOLEAN

ProcsInv ==
    /\ pc \in [Clients -> PC]
    /\ arg \in [Clients -> Arg]
    /\ \A p \in Clients : HeldBy(pc[p], arg[p])

IInv == FleetInv /\ ProcsInv

----------------------------------------------------------------------------
(* Handlers *)

LEMMA NoArgType == NoArg \in Arg
  BY DEF NoArg, Arg, OrNone, ApprovalStatus

LEMMA GotoWithKeeps ==
    ASSUME ProcsInv, NEW p \in Clients, NEW step \in PC, NEW a \in Arg,
           HeldBy(step, a), GotoWith(p, step, a)
    PROVE  ProcsInv'
  BY DEF ProcsInv, GotoWith, HeldBy

LEMMA ReturnKeeps ==
    ASSUME ProcsInv, NEW p \in Clients, Return(p)
    PROVE  ProcsInv'
  <1>1. "idle" \in PC /\ HeldBy("idle", NoArg)
    BY DEF PC, HeldBy
  <1>2. QED
    BY <1>1, NoArgType, GotoWithKeeps DEF Return

\* A step that holds nothing that the later write depends on.
Careless == PC \ {"createVehicle", "createDriver", "updateDriver", "updateVehicle"}

LEMMA GotoKeeps ==
    ASSUME ProcsInv, NEW p \in Clients, NEW step \in Careless, Goto(p, step)
    PROVE  ProcsInv'
  <1>1. step \in PC /\ HeldBy(step, arg[p]) /\ arg[p] \in Arg
    BY DEF Careless, HeldBy, ProcsInv
  <1>2. QED
    BY <1>1, GotoWithKeeps DEF Goto

LEMMA CarelessKeeps ==
    ASSUME ProcsInv, NEW p \in Clients, NEW step \in Careless, NEW a \in Arg,
           GotoWith(p, step, a)
    PROVE  ProcsInv'
  <1>1. step \in PC /\ HeldBy(step, a)
    BY DEF Careless, HeldBy
  <1>2. QED
    BY <1>1, GotoWithKeeps

LEMMA InitProcs == Init => ProcsInv
  <1>1. "idle" \in PC /\ HeldBy("idle", NoArg)
    BY DEF PC, HeldBy
  <1>2. QED
    BY <1>1, NoArgType DEF Init, ProcsInv

LEMMA CrashKeeps == ProcsInv /\ Crash => ProcsInv'
  <1>1. "idle" \in PC /\ HeldBy("idle", NoArg)
    BY DEF PC, HeldBy
  <1>2. QED
    BY <1>1, NoArgType DEF Crash, ProcsInv

LEMMA ThrowKeeps ==
    ASSUME ProcsInv, NEW p \in Clients, Throw(p)
    PROVE  ProcsInv' /\ UNCHANGED <<vehicles, drivers>>
  BY ReturnKeeps DEF Throw, fleetVars

\* Registration, profile, documents and approval: the fleet is left alone.
LEMMA ProfileStepKeeps ==
    ASSUME ProcsInv, NEW p \in Clients, ProfileStep(p)
    PROVE  ProcsInv' /\ UNCHANGED <<vehicles, drivers>>
  <1>1. ASSUME NEW set \in SUBSET Areas, Register(p, set)
        PROVE  ProcsInv' /\ UNCHANGED <<vehicles, drivers>>
    <2>1. [NoArg EXCEPT !.set = set] \in Arg /\ "register" \in Careless
      BY DEF NoArg, Arg, OrNone, ApprovalStatus, Careless, PC
    <2>2. QED
      BY <1>1, <2>1, CarelessKeeps DEF Register, Start, fleetVars
  <1>2. ASSUME NEW set \in SUBSET Areas, NEW size \in OrNone(FleetSizes),
               UpdateProfile(p, set, size)
        PROVE  ProcsInv' /\ UNCHANGED <<vehicles, drivers>>
    <2>1. [NoArg EXCEPT !.set = set, !.size = size] \in Arg
          /\ "profile" \in Careless
      BY DEF NoArg, Arg, OrNone, ApprovalStatus, Careless, PC
    <2>2. QED
      BY <1>2, <2>1, CarelessKeeps DEF UpdateProfile, Start, fleetVars
  <1>3. ASSUME WriteProfile(p) PROVE ProcsInv' /\ UNCHANGED <<vehicles, drivers>>
    <2>1. "register.areas" \in Careless
      BY DEF Careless, PC
    <2>2. QED
      BY <1>3, <2>1, GotoKeeps DEF WriteProfile, fleetVars
  <1>4. ASSUME NEW a \in Areas, CreateServiceArea(p, a)
        PROVE  ProcsInv' /\ UNCHANGED <<vehicles, drivers>>
    <2>1. [arg[p] EXCEPT !.set = @ \ {a}] \in Arg /\ "register.areas" \in Careless
      BY DEF ProcsInv, Arg, Careless, PC
    <2>2. CASE Return(p)
      BY <1>4, <2>2, ReturnKeeps DEF CreateServiceArea, fleetVars
    <2>3. CASE GotoWith(p, "register.areas", [arg[p] EXCEPT !.set = @ \ {a}])
      BY <1>4, <2>1, <2>3, CarelessKeeps DEF CreateServiceArea, fleetVars
    <2>4. QED
      BY <1>4, <2>2, <2>3 DEF CreateServiceArea
  <1>5. ASSUME DeleteAreas(p) PROVE ProcsInv' /\ UNCHANGED <<vehicles, drivers>>
    <2>1. "profile.areas" \in Careless
      BY DEF Careless, PC
    <2>2. QED
      BY <1>5, <2>1, GotoKeeps DEF DeleteAreas, fleetVars
  <1>6. ASSUME CreateAreas(p) PROVE ProcsInv' /\ UNCHANGED <<vehicles, drivers>>
    <2>1. "profile.update" \in Careless
      BY DEF Careless, PC
    <2>2. QED
      BY <1>6, <2>1, GotoKeeps DEF CreateAreas, fleetVars
  <1>7. ASSUME WriteDocument(p) \/ WriteDocumentDeleted(p)
        PROVE  ProcsInv' /\ UNCHANGED <<vehicles, drivers>>
    <2>1. "review" \in Careless
      BY DEF Careless, PC
    <2>2. QED
      BY <1>7, <2>1, GotoKeeps DEF WriteDocument, WriteDocumentDeleted, fleetVars
  <1>8. ASSUME NEW t \in Documents, ConfirmUpload(p, t) \/ DeleteDocument(p, t)
        PROVE  ProcsInv' /\ UNCHANGED <<vehicles, drivers>>
    <2>1. [NoArg EXCEPT !.document = t] \in Arg
          /\ "upload" \in Careless /\ "document" \in Careless
      BY DEF NoArg, Arg, OrNone, ApprovalStatus, Careless, PC
    <2>2. QED
      BY <1>8, <2>1, CarelessKeeps
      DEF ConfirmUpload, DeleteDocument, Start, fleetVars
  <1>9. ASSUME NEW name \in {"approve", "suspend", "reinstate", "reject"},
               NEW s \in ApprovalStatus, Decide(p, name, s)
        PROVE  ProcsInv' /\ UNCHANGED <<vehicles, drivers>>
    <2>1. [NoArg EXCEPT !.status = s] \in Arg /\ "approval" \in Careless
      BY DEF NoArg, Arg, OrNone, Careless, PC
    <2>2. GotoWith(p, "approval", [NoArg EXCEPT !.status = s])
          /\ UNCHANGED <<vehicles, drivers>>
      BY <1>9 DEF Decide, fleetVars
    <2>3. QED
      BY <2>1, <2>2, CarelessKeeps
  <1>10. ASSUME UpdateBankDetails(p)
         PROVE  ProcsInv' /\ UNCHANGED <<vehicles, drivers>>
    BY <1>10 DEF UpdateBankDetails, ProcsInv, fleetVars
  <1>11. ASSUME RegisterAgain(p) \/ DocumentIsGone(p)
         PROVE  ProcsInv' /\ UNCHANGED <<vehicles, drivers>>
    BY <1>11, ThrowKeeps DEF RegisterAgain, DocumentIsGone
  <1>12. ASSUME WriteProfileUpdate(p) \/ ResetApproval(p) \/ WriteApproval(p)
         PROVE  ProcsInv' /\ UNCHANGED <<vehicles, drivers>>
    BY <1>12, ReturnKeeps
    DEF WriteProfileUpdate, ResetApproval, WriteApproval, fleetVars
  <1>13. QED
    BY <1>1, <1>2, <1>3, <1>4, <1>5, <1>6, <1>7, <1>8, <1>9, <1>10, <1>11, <1>12
    DEF ProfileStep

----------------------------------------------------------------------------
(* Requests and failures of the fleet, which write no vehicle and no driver *)

\* What a request of a vehicle reads is kept for its write.
LEMMA VehicleRequestKeeps ==
    ASSUME ProcsInv, NEW p \in Clients, NEW v \in Vehicles,
           \/ \E d \in OrNone(Drivers) : CreateVehicle(p, v, d)
           \/ \E active \in BOOLEAN : UpdateVehicle(p, v, active)
           \/ ApproveVehicle(p, v)
           \/ \E types \in SUBSET PhotoTypes : UpdateVehiclePhotos(p, v, types)
    PROVE  ProcsInv' /\ UNCHANGED <<vehicles, drivers>>
  <1>1. ASSUME NEW e \in OrNone(Drivers), CreateVehicle(p, v, e)
        PROVE  ProcsInv' /\ UNCHANGED <<vehicles, drivers>>
    <2>1. [NoArg EXCEPT !.vehicle = v, !.driver = e] \in Arg
          /\ HeldBy("createVehicle", [NoArg EXCEPT !.vehicle = v, !.driver = e])
          /\ "createVehicle" \in PC
      BY DEF NoArg, Arg, OrNone, ApprovalStatus, HeldBy, PC
    <2>2. QED
      BY <1>1, <2>1, GotoWithKeeps DEF CreateVehicle, Start, fleetVars
  <1>2. ASSUME NEW active \in BOOLEAN, UpdateVehicle(p, v, active)
        PROVE  ProcsInv' /\ UNCHANGED <<vehicles, drivers>>
    <2>1. [NoArg EXCEPT !.vehicle = v, !.isActive = active] \in Arg
          /\ HeldBy("updateVehicle",
                    [NoArg EXCEPT !.vehicle = v, !.isActive = active])
          /\ "updateVehicle" \in PC
      BY DEF NoArg, Arg, OrNone, ApprovalStatus, HeldBy, PC
    <2>2. QED
      BY <1>2, <2>1, GotoWithKeeps DEF UpdateVehicle, Start, fleetVars
  <1>3. ASSUME NEW types \in SUBSET PhotoTypes, UpdateVehiclePhotos(p, v, types)
        PROVE  ProcsInv' /\ UNCHANGED <<vehicles, drivers>>
    <2>1. [NoArg EXCEPT !.vehicle = v, !.set = types] \in Arg
          /\ "photos" \in Careless
      BY DEF NoArg, Arg, OrNone, ApprovalStatus, Careless, PC
    <2>2. QED
      BY <1>3, <2>1, CarelessKeeps DEF UpdateVehiclePhotos, Start, fleetVars
  <1>4. ASSUME ApproveVehicle(p, v)
        PROVE  ProcsInv' /\ UNCHANGED <<vehicles, drivers>>
    <2>1. [NoArg EXCEPT !.vehicle = v] \in Arg /\ "approveVehicle" \in Careless
      BY DEF NoArg, Arg, OrNone, ApprovalStatus, Careless, PC
    <2>2. QED
      BY <1>4, <2>1, CarelessKeeps DEF ApproveVehicle, Start, fleetVars
  <1>5. QED
    BY <1>1, <1>2, <1>3, <1>4

\* As above, of a driver: its row and its vehicle are read before the await.
LEMMA DriverRequestKeeps ==
    ASSUME FleetTyped, ProcsInv, NEW p \in Clients, NEW d \in Drivers,
           \/ \E b \in Badges : CreateDriver(p, d, b)
           \/ \E active \in OrNone(BOOLEAN), b \in OrNone(Badges),
                 v \in Vehicles \union {None, "keep"} :
                   UpdateDriver(p, d, active, b, v)
           \/ DeleteDriver(p, d) \/ ApproveDriver(p, d)
    PROVE  ProcsInv' /\ UNCHANGED <<vehicles, drivers>>
  <1>1. ASSUME NEW b \in Badges, CreateDriver(p, d, b)
        PROVE  ProcsInv' /\ UNCHANGED <<vehicles, drivers>>
    <2>1. [NoArg EXCEPT !.driver = d, !.badge = b] \in Arg
          /\ HeldBy("createDriver", [NoArg EXCEPT !.driver = d, !.badge = b])
          /\ "createDriver" \in PC
      BY DEF NoArg, Arg, OrNone, ApprovalStatus, HeldBy, PC
    <2>2. QED
      BY <1>1, <2>1, GotoWithKeeps DEF CreateDriver, Start, fleetVars
  <1>2. ASSUME NEW active \in OrNone(BOOLEAN), NEW b \in OrNone(Badges),
               NEW w \in Vehicles \union {None, "keep"},
               UpdateDriver(p, d, active, b, w)
        PROVE  ProcsInv' /\ UNCHANGED <<vehicles, drivers>>
    <2> DEFINE a == [NoArg EXCEPT !.driver = d, !.isActive = active, !.badge = b,
                                  !.vehicle = w, !.row = drivers[d]]
    <2>1. drivers[d] \in Driver
      BY <1>2 DEF UpdateDriver, Live, FleetTyped
    <2>2. a \in Arg /\ HeldBy("updateDriver", a) /\ "updateDriver" \in PC
      BY <2>1 DEF NoArg, Arg, OrNone, ApprovalStatus, HeldBy, PC
    <2>3. GotoWith(p, "updateDriver", a) /\ UNCHANGED <<vehicles, drivers>>
      BY <1>2 DEF UpdateDriver, Start, fleetVars
    <2>4. QED
      BY <2>2, <2>3, GotoWithKeeps
  <1>3. ASSUME DeleteDriver(p, d) \/ ApproveDriver(p, d)
        PROVE  ProcsInv' /\ UNCHANGED <<vehicles, drivers>>
    <2>1. drivers[d] \in Driver
      BY <1>3 DEF DeleteDriver, ApproveDriver, Live, FleetTyped
    <2>2. drivers[d].vehicle \in OrNone(Vehicles)
      BY <2>1 DEF Driver
    <2>3. [NoArg EXCEPT !.driver = d, !.vehicle = drivers[d].vehicle] \in Arg
          /\ "deleteDriver" \in Careless /\ "approveDriver" \in Careless
      BY <2>2 DEF NoArg, Arg, OrNone, ApprovalStatus, Careless, PC
    <2>4. QED
      BY <1>3, <2>3, CarelessKeeps DEF DeleteDriver, ApproveDriver, Start, fleetVars
  <1>4. QED
    BY <1>1, <1>2, <1>3

LEMMA PhotosKeep ==
    ASSUME ProcsInv, NEW p \in Clients,
           DeletePhotos(p) \/ \E t \in PhotoTypes : UpsertPhoto(p, t)
    PROVE  ProcsInv' /\ UNCHANGED <<vehicles, drivers>>
  <1>1. "photos.upsert" \in Careless
    BY DEF Careless, PC
  <1>2. CASE DeletePhotos(p)
    BY <1>1, <1>2, GotoKeeps, ReturnKeeps DEF DeletePhotos
  <1>3. ASSUME NEW t \in PhotoTypes, UpsertPhoto(p, t)
        PROVE  ProcsInv' /\ UNCHANGED <<vehicles, drivers>>
    <2>1. [arg[p] EXCEPT !.set = @ \ {t}] \in Arg
      BY DEF ProcsInv, Arg
    <2>2. CASE Return(p)
      BY <1>3, <2>2, ReturnKeeps DEF UpsertPhoto
    <2>3. CASE GotoWith(p, "photos.upsert", [arg[p] EXCEPT !.set = @ \ {t}])
      BY <1>1, <1>3, <2>1, <2>3, CarelessKeeps DEF UpsertPhoto
    <2>4. QED
      BY <1>3, <2>2, <2>3 DEF UpsertPhoto
  <1>4. QED
    BY <1>2, <1>3

LEMMA TransactionThrowsKeeps ==
    ASSUME ProcsInv, NEW p \in Clients, TransactionThrows(p)
    PROVE  ProcsInv' /\ UNCHANGED <<vehicles, drivers>>
  BY ThrowKeeps DEF TransactionThrows

----------------------------------------------------------------------------
(* The transactions of the fleet *)

\* null and a deleted row are no row.
LEMMA NoRow == None \notin Vehicle /\ Gone \notin Vehicle
  BY OperatorsAssumption DEF Vehicle

LEMMA LiveVehicles ==
    ASSUME FleetTyped, NEW v \in Vehicles
    PROVE  v \in Live(vehicles) <=> vehicles[v] \in Vehicle
  BY OperatorsAssumption DEF FleetTyped, Live, Vehicle

LEMMA LiveDrivers ==
    ASSUME FleetTyped
    PROVE  \A d \in Live(drivers) :
                d \in Drivers /\ drivers[d] \in Driver
                /\ drivers[d].vehicle \in Vehicles \union {None}
  BY DEF FleetTyped, Live, Driver, OrNone

\* Links are kept by a step after which every live driver has the link it
\* had or none, and the vehicles that are linked still exist.
LEMMA LinksKept ==
    ASSUME OneDriverPerVehicle,
           \A d \in Live(drivers)' :
              \/ (drivers[d].vehicle)' = None
              \/ /\ d \in Live(drivers)
                 /\ (drivers[d].vehicle)' = drivers[d].vehicle
                 /\ drivers[d].vehicle \in Live(vehicles) =>
                        drivers[d].vehicle \in Live(vehicles)'
    PROVE  OneDriverPerVehicle'
  BY DEF OneDriverPerVehicle

\* ... or one driver got a vehicle that no other has.
LEMMA LinkMade ==
    ASSUME OneDriverPerVehicle, NEW v \in Vehicles, NEW e,
           v \in Live(vehicles)',
           \A d \in Live(drivers)' : d # e => (drivers[d].vehicle)' # v,
           e \in Live(drivers)' => (drivers[e].vehicle)' = v,
           \A d \in Live(drivers)' : d # e =>
              \/ (drivers[d].vehicle)' = None
              \/ /\ d \in Live(drivers)
                 /\ (drivers[d].vehicle)' = drivers[d].vehicle
                 /\ drivers[d].vehicle \in Live(vehicles) =>
                        drivers[d].vehicle \in Live(vehicles)'
    PROVE  OneDriverPerVehicle'
  BY DEF OneDriverPerVehicle

LEMMA WriteVehicleKeeps ==
    ASSUME FleetInv, ProcsInv, NEW p \in Clients, WriteVehicle(p)
    PROVE  FleetInv'
  <1> DEFINE v == arg[p].vehicle
             d == arg[p].driver
             row == [isApproved |-> FALSE, isActive |-> FALSE]
  <1>1. v \in Vehicles /\ vehicles[v] = None /\ d \in Live(drivers) \union {None}
        /\ vehicles' = [vehicles EXCEPT ![v] = row]
        /\ drivers' = IF d = None THEN drivers
                      ELSE [drivers EXCEPT ![d].vehicle = v]
    BY DEF WriteVehicle, ProcsInv, HeldBy
  <1>2. row \in Vehicle
    BY DEF Vehicle
  <1>3. FleetTyped'
    <2>1. vehicles' \in [Vehicles -> Vehicle \union {None, Gone}]
      BY <1>1, <1>2 DEF FleetInv, FleetTyped
    <2>2. drivers' \in [Drivers -> Driver \union {None, Gone}]
      BY <1>1, LiveDrivers DEF FleetInv, FleetTyped, Driver, OrNone
    <2>3. QED
      BY <2>1, <2>2 DEF FleetTyped
  <1>4. v \notin Live(vehicles) /\ Live(vehicles)' = Live(vehicles) \union {v}
    BY <1>1, <1>2, NoRow DEF Live, FleetInv, FleetTyped
  <1>5. CASE d = None
    BY <1>1, <1>4, <1>5, <1>3, LinksKept DEF FleetInv, Live
  <1>6. CASE d # None
    <2>1. d \in Live(drivers) /\ d \in Drivers /\ drivers[d] \in Driver
      BY <1>1, <1>6, LiveDrivers DEF FleetInv
    <2>2. drivers'[d].vehicle = v
      BY <1>1, <1>6, <2>1 DEF FleetInv, FleetTyped, Driver
    <2>3. \A e \in Live(drivers)' : e # d =>
             e \in Live(drivers) /\ drivers'[e].vehicle = drivers[e].vehicle
      BY <1>1, <1>6, <2>1 DEF FleetInv, FleetTyped, Live
    <2>4. \A e \in Live(drivers) : drivers[e].vehicle # v
      BY <1>1, <1>4, LiveDrivers, OperatorsAssumption
      DEF FleetInv, OneDriverPerVehicle
    <2>5. OneDriverPerVehicle'
      <3>1. SUFFICES ASSUME NEW x \in Live(drivers)', drivers'[x].vehicle # None
                     PROVE  /\ drivers'[x].vehicle \in Live(vehicles)'
                            /\ \A y \in Live(drivers)' \ {x} :
                                  drivers'[y].vehicle # drivers'[x].vehicle
        BY DEF OneDriverPerVehicle
      <3>2. CASE x = d
        BY <1>4, <2>2, <2>3, <2>4, <3>2
      <3>3. CASE x # d
        BY <1>4, <2>2, <2>3, <2>4, <3>1, <3>3 DEF FleetInv, OneDriverPerVehicle
      <3>4. QED
        BY <3>2, <3>3
    <2>6. QED
      BY <1>3, <2>5 DEF FleetInv
  <1>7. QED
    BY <1>5, <1>6

DriverRows == [Drivers -> Driver \union {None, Gone}]

LEMMA LiveRows ==
    ASSUME NEW rows \in DriverRows
    PROVE  /\ \A d \in Live(rows) : d \in Drivers /\ rows[d] \in Driver
           /\ \A d \in Drivers \ Live(rows) : rows[d] \in {None, Gone}
  BY DEF DriverRows, Live

\* Unlinking leaves the rows alone but for the link, and nobody linked.
LEMMA UnlinkedRows ==
    ASSUME NEW rows \in DriverRows, NEW v
    PROVE  /\ Unlinked(v, rows) \in DriverRows
           /\ \A d \in Live(rows) :
                Unlinked(v, rows)[d].vehicle =
                    IF rows[d].vehicle = v THEN None ELSE rows[d].vehicle
           /\ \A d \in Live(Unlinked(v, rows)) : d \in Live(rows)
  <1>1. ASSUME NEW d \in Live(rows)
        PROVE  /\ d \in Drivers
               /\ Unlinked(v, rows)[d] \in Driver
               /\ Unlinked(v, rows)[d].vehicle =
                    IF rows[d].vehicle = v THEN None ELSE rows[d].vehicle
    <2>1. d \in Drivers /\ rows[d] \in Driver
      BY LiveRows
    <2>2. QED
      BY <2>1 DEF Unlinked, Driver, OrNone
  <1>2. ASSUME NEW d \in Drivers \ Live(rows)
        PROVE  Unlinked(v, rows)[d] \in {None, Gone}
    BY LiveRows DEF Unlinked
  <1>3. Unlinked(v, rows) = [d \in Drivers |-> Unlinked(v, rows)[d]]
    BY DEF Unlinked
  <1>4. Unlinked(v, rows) \in DriverRows
    BY <1>1, <1>2, <1>3 DEF DriverRows
  <1>5. ASSUME NEW d \in Live(Unlinked(v, rows))
        PROVE  d \in Live(rows)
    BY <1>2, <1>4 DEF Live, DriverRows
  <1>6. QED
    BY <1>1, <1>4, <1>5

LEMMA DisapprovedRows ==
    ASSUME NEW rows \in DriverRows, NEW v
    PROVE  /\ Disapproved(v, rows) \in DriverRows
           /\ \A d \in Live(rows) : Disapproved(v, rows)[d].vehicle = rows[d].vehicle
           /\ \A d \in Live(Disapproved(v, rows)) : d \in Live(rows)
  <1>1. ASSUME NEW d \in Live(rows)
        PROVE  /\ d \in Drivers
               /\ Disapproved(v, rows)[d] \in Driver
               /\ Disapproved(v, rows)[d].vehicle = rows[d].vehicle
    <2>1. d \in Drivers /\ rows[d] \in Driver
      BY LiveRows
    <2>2. QED
      BY <2>1 DEF Disapproved, Driver, OrNone
  <1>2. ASSUME NEW d \in Drivers \ Live(rows)
        PROVE  Disapproved(v, rows)[d] \in {None, Gone}
    BY LiveRows DEF Disapproved
  <1>3. Disapproved(v, rows) = [d \in Drivers |-> Disapproved(v, rows)[d]]
    BY DEF Disapproved
  <1>4. Disapproved(v, rows) \in DriverRows
    BY <1>1, <1>2, <1>3 DEF DriverRows
  <1>5. ASSUME NEW d \in Live(Disapproved(v, rows))
        PROVE  d \in Live(rows)
    BY <1>2, <1>4 DEF Live, DriverRows
  <1>6. QED
    BY <1>1, <1>4, <1>5

\* A vehicle that is written stays.
LEMMA VehicleWritten ==
    ASSUME FleetTyped, NEW v \in Live(vehicles), NEW row \in Vehicle,
           vehicles' = [vehicles EXCEPT ![v] = row]
    PROVE  /\ vehicles' \in [Vehicles -> Vehicle \union {None, Gone}]
           /\ Live(vehicles)' = Live(vehicles)
  BY OperatorsAssumption DEF FleetTyped, Live, Vehicle

\* Approve as one write of the row.
LEMMA ApprovedVehicle ==
    ASSUME FleetTyped, NEW v \in Vehicles, vehicles[v] \in Vehicle
    PROVE  \E row \in Vehicle : Approve(vehicles, v) = [vehicles EXCEPT ![v] = row]
  <1> DEFINE row == [[vehicles[v] EXCEPT !.isApproved = TRUE] EXCEPT !.isActive = TRUE]
  <1>1. row \in Vehicle
    BY DEF Vehicle
  <1>2. Approve(vehicles, v) = [vehicles EXCEPT ![v] = row]
    BY DEF FleetTyped, Approve
  <1>3. QED
    BY <1>1, <1>2

LEMMA VehicleUpdateKeeps ==
    ASSUME FleetInv, ProcsInv, NEW p \in Clients,
           WriteVehicleUpdate(p) \/ WriteVehicleApproved(p)
    PROVE  FleetInv'
  <1> DEFINE v == arg[p].vehicle
  <1>1. v \in Live(vehicles) /\ UNCHANGED drivers
    BY DEF WriteVehicleUpdate, WriteVehicleApproved
  <1>2. vehicles[v] \in Vehicle /\ v \in Vehicles
    BY <1>1, LiveVehicles DEF FleetInv, FleetTyped, Live
  <1>3. Live(vehicles)' = Live(vehicles)
        /\ vehicles' \in [Vehicles -> Vehicle \union {None, Gone}]
    <2>1. CASE WriteVehicleUpdate(p)
      <3>1. arg[p].isActive \in BOOLEAN
        BY <2>1 DEF WriteVehicleUpdate, ProcsInv, HeldBy
      <3>2. [vehicles[v] EXCEPT !.isActive = arg[p].isActive] \in Vehicle
        BY <3>1, <1>2 DEF Vehicle
      <3>3. vehicles' = [vehicles EXCEPT
                ![v] = [vehicles[v] EXCEPT !.isActive = arg[p].isActive]]
        BY <2>1 DEF WriteVehicleUpdate
      <3>4. QED
        BY <3>2, <3>3, <1>1, VehicleWritten DEF FleetInv
    <2>2. CASE WriteVehicleApproved(p)
      <3>1. PICK r \in Vehicle : vehicles' = [vehicles EXCEPT ![v] = r]
        BY <2>2, <1>2, ApprovedVehicle DEF WriteVehicleApproved, FleetInv
      <3>2. QED
        BY <3>1, <1>1, VehicleWritten DEF FleetInv
    <2>3. QED
      BY <2>1, <2>2
  <1>4. FleetTyped' /\ OneDriverPerVehicle'
    BY <1>1, <1>3, LinksKept DEF FleetInv, FleetTyped, Live
  <1>5. QED
    BY <1>4 DEF FleetInv

LEMMA DeleteVehicleKeeps ==
    ASSUME FleetInv, NEW p \in Clients, NEW v \in Vehicles, DeleteVehicle(p, v)
    PROVE  FleetInv'
  <1> DEFINE rows == Disapproved(v, drivers)
  <1>1. drivers' = Unlinked(v, rows) /\ vehicles' = [vehicles EXCEPT ![v] = Gone]
    BY DEF DeleteVehicle
  <1>2. drivers \in DriverRows /\ rows \in DriverRows /\ drivers' \in DriverRows
    BY <1>1, DisapprovedRows, UnlinkedRows DEF FleetInv, FleetTyped, DriverRows
  <1>3. \A d \in Live(drivers)' :
           /\ d \in Live(drivers)
           /\ drivers'[d].vehicle = IF drivers[d].vehicle = v THEN None
                                    ELSE drivers[d].vehicle
    <2>1. ASSUME NEW d \in Live(drivers)'
          PROVE  d \in Live(rows) /\ d \in Live(drivers)
      <3>1. d \in Live(Unlinked(v, rows))
        BY <1>1 DEF Live
      <3>2. QED
        BY <3>1, <1>2, UnlinkedRows, DisapprovedRows
    <2>2. QED
      BY <2>1, <1>1, <1>2, UnlinkedRows, DisapprovedRows
  <1>4. \A w \in Live(vehicles) : w # v => w \in Live(vehicles)'
    BY <1>1 DEF Live, FleetInv, FleetTyped
  <1>5. OneDriverPerVehicle'
    BY <1>3, <1>4, LinksKept DEF FleetInv
  <1>6. QED
    BY <1>1, <1>2, <1>5 DEF FleetInv, FleetTyped, DriverRows

LEMMA WriteDriverKeeps ==
    ASSUME FleetInv, ProcsInv, NEW p \in Clients, WriteDriver(p)
    PROVE  FleetInv'
  <1> DEFINE row == [vehicle |-> None, badge |-> arg[p].badge,
                     isApproved |-> FALSE, isActive |-> FALSE]
  <1>1. arg[p].badge \in Badges
    BY DEF WriteDriver, ProcsInv, HeldBy
  <1>2. row \in Driver /\ row.vehicle = None
    BY <1>1 DEF Driver, OrNone
  <1>3. drivers' = [drivers EXCEPT ![arg[p].driver] = row]
        /\ vehicles' = vehicles /\ drivers \in DriverRows
    BY DEF WriteDriver, FleetInv, FleetTyped, DriverRows
  <1>4. drivers' \in DriverRows
    BY <1>2, <1>3 DEF DriverRows
  <1>5. \A d \in Live(drivers)' :
           \/ drivers'[d].vehicle = None
           \/ d \in Live(drivers) /\ drivers'[d].vehicle = drivers[d].vehicle
    BY <1>2, <1>3 DEF Live, DriverRows
  <1>6. OneDriverPerVehicle'
    BY <1>3, <1>5, LinksKept DEF FleetInv, Live
  <1>7. QED
    BY <1>3, <1>4, <1>6 DEF FleetInv, FleetTyped, DriverRows

LEMMA WriteDriverApprovedKeeps ==
    ASSUME FleetInv, NEW p \in Clients, WriteDriverApproved(p)
    PROVE  FleetInv'
  <1> DEFINE v == arg[p].vehicle
             d == arg[p].driver
             row == [[drivers[d] EXCEPT !.isApproved = TRUE] EXCEPT !.isActive = TRUE]
  <1>1. d \in Live(drivers) /\ v \in Live(vehicles)
        /\ drivers' = Approve(drivers, d) /\ vehicles' = Approve(vehicles, v)
        /\ drivers \in DriverRows
    BY DEF WriteDriverApproved, FleetInv, FleetTyped, DriverRows
  <1>2. v \in Vehicles /\ vehicles[v] \in Vehicle
    BY <1>1, LiveVehicles DEF FleetInv, FleetTyped, Live
  <1>3. Live(vehicles)' = Live(vehicles)
        /\ vehicles' \in [Vehicles -> Vehicle \union {None, Gone}]
    <2>1. PICK r \in Vehicle : vehicles' = [vehicles EXCEPT ![v] = r]
      BY <1>1, <1>2, ApprovedVehicle DEF FleetInv
    <2>2. QED
      BY <2>1, <1>1, VehicleWritten DEF FleetInv
  <1>4. d \in Drivers /\ row \in Driver /\ row.vehicle = drivers[d].vehicle
    <2>1. d \in Drivers /\ drivers[d] \in Driver
      BY <1>1, LiveRows
    <2>2. QED
      BY <2>1 DEF Driver
  <1>5. drivers' = [drivers EXCEPT ![d] = row]
    BY <1>1, <1>4 DEF Approve, DriverRows
  <1>6. drivers' \in DriverRows
    BY <1>1, <1>4, <1>5 DEF DriverRows
  <1>7. \A e \in Live(drivers)' :
           e \in Live(drivers) /\ drivers'[e].vehicle = drivers[e].vehicle
    BY <1>1, <1>4, <1>5 DEF Live, DriverRows
  <1>8. OneDriverPerVehicle'
    BY <1>3, <1>7, LinksKept DEF FleetInv
  <1>9. QED
    BY <1>3, <1>6, <1>8 DEF FleetInv, FleetTyped, DriverRows

LEMMA WriteDriverDeletedKeeps ==
    ASSUME FleetInv, NEW p \in Clients, WriteDriverDeleted(p)
    PROVE  FleetInv'
  <1> DEFINE v == arg[p].vehicle
             d == arg[p].driver
             rows == Unlinked(v, drivers)
  <1>1. /\ v \in Live(vehicles) \union {None}
        /\ drivers' = [rows EXCEPT ![d] = Gone]
        /\ vehicles' = IF v = None THEN vehicles ELSE [vehicles EXCEPT ![v] = Gone]
        /\ drivers \in DriverRows
    BY DEF WriteDriverDeleted, FleetInv, FleetTyped, DriverRows
  <1>2. rows \in DriverRows
    BY <1>1, UnlinkedRows
  <1>3. drivers' \in DriverRows
    BY <1>1, <1>2 DEF DriverRows
  <1>4. \A e \in Live(drivers)' : e \in Live(rows) /\ drivers'[e] = rows[e]
    BY <1>1, <1>2 DEF DriverRows, Live
  <1>5. \A e \in Live(drivers)' :
           /\ e \in Live(drivers)
           /\ drivers'[e].vehicle = IF drivers[e].vehicle = v THEN None
                                    ELSE drivers[e].vehicle
    BY <1>1, <1>4, UnlinkedRows
  <1>6. \A w \in Live(vehicles) : w # v => w \in Live(vehicles)'
    BY <1>1 DEF Live, FleetInv, FleetTyped
  <1>7. OneDriverPerVehicle'
    BY <1>5, <1>6, LinksKept DEF FleetInv
  <1>8. vehicles' \in [Vehicles -> Vehicle \union {None, Gone}]
    BY <1>1 DEF FleetInv, FleetTyped
  <1>9. QED
    BY <1>3, <1>7, <1>8 DEF FleetInv, FleetTyped, DriverRows

\* The transaction of updateDriver: links change for the driver it writes and
\* for the one that had the vehicle, and no vehicle appears or disappears.
LEMMA WriteDriverUpdateKeeps ==
    ASSUME FleetInv, ProcsInv, NEW p \in Clients, WriteDriverUpdate(p)
    PROVE  FleetInv'
  <1> DEFINE a == arg[p]
             d == arg[p].driver
             v == arg[p].vehicle
             free == IF v \in Vehicles THEN Unlinked(v, drivers) ELSE drivers
             row == [vehicle |-> IF v = "keep" THEN free[d].vehicle ELSE v,
                     badge |-> IF a.badge = None THEN free[d].badge ELSE a.badge,
                     isApproved |-> free[d].isApproved /\ ~Deactivates(a),
                     isActive |-> IF a.isActive = None THEN free[d].isActive
                                  ELSE a.isActive]
  <1>1. /\ d \in Live(drivers)
        /\ v \in Vehicles => v \in Live(vehicles)
        /\ FollowsDriver(a) => a.row.vehicle \in Live(vehicles)
        /\ vehicles' = UpdatedVehicles(a)
        /\ drivers \in DriverRows
    BY DEF WriteDriverUpdate, FleetInv, FleetTyped, DriverRows
  <1>2. drivers' = [free EXCEPT ![d] = row]
    BY DEF WriteDriverUpdate, UpdatedDrivers
  <1>3. /\ a.badge \in OrNone(Badges) /\ a.isActive \in OrNone(BOOLEAN)
        /\ v \in OrNone(Vehicles) \union {"keep"}
    BY DEF ProcsInv, Arg
  <1>4. /\ free \in DriverRows
        /\ \A e \in Live(free) : e \in Live(drivers)
        /\ \A e \in Live(drivers) :
              free[e].vehicle = IF v \in Vehicles /\ drivers[e].vehicle = v
                                THEN None ELSE drivers[e].vehicle
    BY <1>1, UnlinkedRows
  <1>5. d \in Drivers /\ free[d] \in Driver
    <2>1. d \in Drivers /\ drivers[d] \in Driver
      BY <1>1, LiveRows
    <2>2. CASE v \in Vehicles
      BY <1>1, <2>1, <2>2 DEF Unlinked, Driver, OrNone
    <2>3. CASE v \notin Vehicles
      BY <2>1, <2>3
    <2>4. QED
      BY <2>1, <2>2, <2>3
  <1>6. row \in Driver
    BY <1>3, <1>5 DEF Driver, OrNone
  <1>7. drivers' \in DriverRows
    BY <1>2, <1>4, <1>6 DEF DriverRows
  <1>8. Live(vehicles)' = Live(vehicles)
        /\ vehicles' \in [Vehicles -> Vehicle \union {None, Gone}]
    <2>1. CASE ~FollowsDriver(a)
      BY <1>1, <2>1 DEF UpdatedVehicles, FleetInv, FleetTyped, Live
    <2>2. CASE FollowsDriver(a)
      <3> DEFINE w == arg[p].row.vehicle
                 new == [isApproved |-> vehicles[w].isApproved /\ ~Deactivates(a),
                         isActive |-> ~Deactivates(a)]
      <3>1. new \in Vehicle
        BY DEF Vehicle
      <3>2. vehicles' = [vehicles EXCEPT ![w] = new] /\ w \in Live(vehicles)
        BY <1>1, <2>2 DEF UpdatedVehicles
      <3>3. QED
        BY <3>1, <3>2, VehicleWritten DEF FleetInv
    <2>3. QED
      BY <2>1, <2>2
  <1>9. /\ \A e \in Live(drivers)' : e # d =>
              e \in Live(drivers) /\ drivers'[e].vehicle = free[e].vehicle
        /\ drivers'[d].vehicle = row.vehicle
    BY <1>2, <1>4, <1>5 DEF Live, DriverRows
  <1>10. CASE v \in Vehicles /\ v # "keep"
    <2>1. \A e \in Live(drivers)' :
             IF e = d THEN drivers'[e].vehicle = v
             ELSE /\ e \in Live(drivers) /\ drivers'[e].vehicle # v
                  /\ drivers'[e].vehicle \in {None, drivers[e].vehicle}
      BY <1>4, <1>9, <1>10, OperatorsAssumption
    <2>2. SUFFICES ASSUME NEW x \in Live(drivers)', drivers'[x].vehicle # None
                   PROVE  /\ drivers'[x].vehicle \in Live(vehicles)'
                          /\ \A y \in Live(drivers)' \ {x} :
                                drivers'[y].vehicle # drivers'[x].vehicle
      BY <1>7, <1>8 DEF FleetInv, FleetTyped, DriverRows, OneDriverPerVehicle
    <2>3. CASE x = d
      BY <1>1, <1>8, <1>10, <2>1, <2>3
    <2>4. CASE x # d
      BY <1>8, <2>1, <2>2, <2>4 DEF FleetInv, OneDriverPerVehicle
    <2>5. QED
      BY <2>3, <2>4
  <1>11. CASE ~(v \in Vehicles /\ v # "keep")
    <2>1. row.vehicle \in {None, drivers[d].vehicle}
      BY <1>1, <1>3, <1>4, <1>11 DEF OrNone
    <2>2. \A e \in Live(drivers)' :
             \/ drivers'[e].vehicle = None
             \/ e \in Live(drivers) /\ drivers'[e].vehicle = drivers[e].vehicle
      BY <1>1, <1>4, <1>9, <2>1
    <2>3. OneDriverPerVehicle'
      BY <1>8, <2>2, LinksKept DEF FleetInv
    <2>4. QED
      BY <1>7, <1>8, <2>3 DEF FleetInv, FleetTyped, DriverRows
  <1>12. QED
    BY <1>10, <1>11

----------------------------------------------------------------------------
(* The links are kept by every step *)

LEMMA InitIInv == Init => IInv
  <1> SUFFICES ASSUME Init PROVE IInv
    OBVIOUS
  <1>1. ASSUME Unregistered PROVE FleetInv
    BY <1>1 DEF Unregistered, FleetInv, FleetTyped, OneDriverPerVehicle, Live
  <1>2. ASSUME Approved PROVE FleetInv
    <2>1. PICK v \in Vehicles, d \in Drivers, b \in Badges :
            /\ vehicles = [[x \in Vehicles |-> None] EXCEPT
                                ![v] = [isApproved |-> TRUE, isActive |-> TRUE]]
            /\ drivers = [[x \in Drivers |-> None] EXCEPT
                                ![d] = [vehicle |-> v, badge |-> b,
                                        isApproved |-> TRUE, isActive |-> TRUE]]
      BY <1>2 DEF Approved
    <2>2. /\ [isApproved |-> TRUE, isActive |-> TRUE] \in Vehicle
          /\ [vehicle |-> v, badge |-> b, isApproved |-> TRUE,
              isActive |-> TRUE] \in Driver
      BY DEF Vehicle, Driver, OrNone
    <2>3. FleetTyped
      BY <2>1, <2>2 DEF FleetTyped
    <2>4. v \in Live(vehicles) /\ \A e \in Live(drivers) : e = d
      BY <2>1, <2>2, OperatorsAssumption DEF Live, Vehicle
    <2>5. drivers[d].vehicle = v
      BY <2>1
    <2>6. QED
      BY <2>3, <2>4, <2>5 DEF FleetInv, OneDriverPerVehicle
  <1>3. FleetInv
    BY <1>1, <1>2 DEF Init
  <1>4. QED
    BY <1>3, InitProcs DEF IInv

LEMMA UnchangedKeeps ==
    ASSUME FleetInv, UNCHANGED <<vehicles, drivers>>
    PROVE  FleetInv'
  BY DEF FleetInv, FleetTyped, OneDriverPerVehicle, Live

LEMMA FleetStepsKeep ==
    ASSUME IInv, NEW p \in Clients, FleetSteps(p)
    PROVE  IInv'
  <1> USE DEF IInv
  <1>1. FleetInv /\ FleetTyped /\ ProcsInv
    BY DEF FleetInv
  <1>2. ASSUME NEW v \in Vehicles, DeleteVehicle(p, v) PROVE IInv'
    <2>1. ProcsInv'
      BY <1>1, <1>2 DEF DeleteVehicle, ProcsInv
    <2>2. QED
      BY <1>1, <1>2, <2>1, DeleteVehicleKeeps
  <1>3. CASE WriteVehicle(p)
    BY <1>1, <1>3, WriteVehicleKeeps, ReturnKeeps DEF WriteVehicle
  <1>4. CASE WriteVehicleUpdate(p) \/ WriteVehicleApproved(p)
    BY <1>1, <1>4, VehicleUpdateKeeps, ReturnKeeps
    DEF WriteVehicleUpdate, WriteVehicleApproved
  <1>5. CASE WriteDriver(p)
    BY <1>1, <1>5, WriteDriverKeeps, ReturnKeeps DEF WriteDriver
  <1>6. CASE WriteDriverUpdate(p)
    BY <1>1, <1>6, WriteDriverUpdateKeeps, ReturnKeeps DEF WriteDriverUpdate
  <1>7. CASE WriteDriverDeleted(p)
    BY <1>1, <1>7, WriteDriverDeletedKeeps, ReturnKeeps DEF WriteDriverDeleted
  <1>8. CASE WriteDriverApproved(p)
    BY <1>1, <1>8, WriteDriverApprovedKeeps, ReturnKeeps DEF WriteDriverApproved
  <1>9. CASE TransactionThrows(p) \/ DeletePhotos(p)
                \/ \E t \in PhotoTypes : UpsertPhoto(p, t)
    BY <1>1, <1>9, TransactionThrowsKeeps, PhotosKeep, UnchangedKeeps
  <1>10. ASSUME NEW v \in Vehicles,
                \/ \E d \in OrNone(Drivers) : CreateVehicle(p, v, d)
                \/ \E active \in BOOLEAN : UpdateVehicle(p, v, active)
                \/ ApproveVehicle(p, v)
                \/ \E types \in SUBSET PhotoTypes : UpdateVehiclePhotos(p, v, types)
         PROVE  IInv'
    BY <1>1, <1>10, VehicleRequestKeeps, UnchangedKeeps
  <1>11. ASSUME NEW d \in Drivers,
                \/ \E b \in Badges : CreateDriver(p, d, b)
                \/ \E active \in OrNone(BOOLEAN), b \in OrNone(Badges),
                      v \in Vehicles \union {None, "keep"} :
                        UpdateDriver(p, d, active, b, v)
                \/ DeleteDriver(p, d) \/ ApproveDriver(p, d)
         PROVE  IInv'
    BY <1>1, <1>11, DriverRequestKeeps, UnchangedKeeps
  <1>12. QED
    BY <1>2, <1>3, <1>4, <1>5, <1>6, <1>7, <1>8, <1>9, <1>10, <1>11 DEF FleetSteps

LEMMA NextIInv == IInv /\ [Next]_vars => IInv'
  <1> SUFFICES ASSUME IInv, [Next]_vars PROVE IInv'
    OBVIOUS
  <1>1. ASSUME NEW p \in Clients, ProfileStep(p) PROVE IInv'
    BY <1>1, ProfileStepKeeps, UnchangedKeeps DEF IInv
  <1>2. ASSUME NEW p \in Clients, FleetSteps(p) PROVE IInv'
    BY <1>2, FleetStepsKeep
  <1>3. CASE Crash
    BY <1>3, CrashKeeps, UnchangedKeeps DEF IInv, Crash, fleetVars
  <1>4. CASE UNCHANGED vars
    <2>1. ProcsInv'
      BY <1>4 DEF vars, ProcsInv, IInv
    <2>2. QED
      BY <1>4, <2>1, UnchangedKeeps DEF IInv, vars, fleetVars
  <1>5. QED
    BY <1>1, <1>2, <1>3, <1>4 DEF Next

\* No two drivers share a vehicle, and the vehicle of a driver exists, in
\* every state that Operators can reach: whatever requests overlap, whatever
\* stale row a handler holds and wherever a crash ends one
\* (operators.service.ts:819-997, :1130-1334).
THEOREM OneDriverPerVehicleAlways == Spec => []OneDriverPerVehicle
  <1>1. IInv => OneDriverPerVehicle
    BY DEF IInv, FleetInv
  <1>2. QED
    BY InitIInv, NextIInv, <1>1, PTL DEF Spec

----------------------------------------------------------------------------
(* One request after the other *)

\* Where a handler of the profile and one of the fleet stands.
ProfilePCs == {"idle", "register", "register.areas", "profile", "profile.areas",
               "profile.update", "upload", "document", "review", "approval"}
FleetPCs == {"idle", "createVehicle", "updateVehicle", "photos",
             "photos.upsert", "createDriver", "updateDriver", "deleteDriver",
             "approveDriver", "approveVehicle"}

\* A step of p's handler, to one of these places: a request is noticed when
\* it overlaps another, and every other handler stands still.
Moves(p, places) ==
    /\ \E step \in places : pc' = [pc EXCEPT ![p] = step]
    /\ ~overlapped' => ~overlapped /\ (pc[p] = "idle" => Idle)
    /\ crashes' = crashes

AtMostOne == \A p, q \in Clients : pc[p] # "idle" /\ pc[q] # "idle" => p = q
OneAtATime == ~overlapped => AtMostOne

\* While nothing overlaps, the handler that moves is the only one there is.
LEMMA MovesAlone ==
    ASSUME ProcsInv, OneAtATime, NEW p \in Clients, NEW places,
           Moves(p, places), ~overlapped'
    PROVE  /\ ~overlapped
           /\ \A q \in Clients \ {p} : pc[q] = "idle" /\ pc'[q] = "idle"
           /\ pc'[p] \in places
  <1>1. pc \in [Clients -> PC]
    BY DEF ProcsInv
  <1>2. PICK step \in places : pc' = [pc EXCEPT ![p] = step]
    BY DEF Moves
  <1>3. pc'[p] = step /\ \A q \in Clients \ {p} : pc'[q] = pc[q]
    BY <1>1, <1>2
  <1>4. ~overlapped /\ (pc[p] = "idle" => Idle)
    BY DEF Moves
  <1>5. \A q \in Clients \ {p} : pc[q] = "idle"
    BY <1>4 DEF Idle, OneAtATime, AtMostOne
  <1>6. QED
    BY <1>3, <1>4, <1>5

LEMMA OneAtATimeKept ==
    ASSUME ProcsInv, OneAtATime, NEW p \in Clients, NEW places, Moves(p, places)
    PROVE  OneAtATime'
  BY MovesAlone DEF OneAtATime, AtMostOne

\* What it takes to be such a step.
LEMMA StartMoves ==
    ASSUME ProcsInv, NEW p \in Clients, NEW places, NEW step \in places, NEW a,
           NEW name, Start(p, name, step, a)
    PROVE  Moves(p, places)
  BY DEF Start, Request, GotoWith, Moves

LEMMA HandlerMoves ==
    ASSUME ProcsInv, NEW p \in Clients, NEW places, NEW step \in places, NEW a,
           pc[p] # "idle", GotoWith(p, step, a), UNCHANGED boundVars
    PROVE  Moves(p, places)
  BY DEF GotoWith, Moves, boundVars

LEMMA RequestMoves ==
    ASSUME ProcsInv, NEW p \in Clients, NEW places, "idle" \in places, NEW name,
           Request(p, name), UNCHANGED <<crashes, pc>>
    PROVE  Moves(p, places)
  <1>1. pc' = [pc EXCEPT ![p] = "idle"]
    BY DEF Request, ProcsInv
  <1>2. QED
    BY <1>1 DEF Request, Moves

LEMMA ProfileMoves ==
    ASSUME ProcsInv, NEW p \in Clients, ProfileStep(p)
    PROVE  Moves(p, ProfilePCs)
  <1> USE DEF ProfilePCs
  <1>1. ASSUME NEW set \in SUBSET Areas, NEW size \in OrNone(FleetSizes),
               UpdateProfile(p, set, size)
        PROVE  Moves(p, ProfilePCs)
    BY <1>1, StartMoves DEF UpdateProfile
  <1>2. ASSUME NEW set \in SUBSET Areas, Register(p, set)
        PROVE  Moves(p, ProfilePCs)
    BY <1>2, StartMoves DEF Register
  <1>3. ASSUME NEW a \in Areas, CreateServiceArea(p, a)
        PROVE  Moves(p, ProfilePCs)
    BY <1>3, HandlerMoves DEF CreateServiceArea, Return
  <1>4. CASE WriteProfile(p) \/ DeleteAreas(p) \/ CreateAreas(p)
                \/ WriteDocument(p) \/ WriteDocumentDeleted(p)
    BY <1>4, HandlerMoves
    DEF WriteProfile, DeleteAreas, CreateAreas, WriteDocument,
        WriteDocumentDeleted, Goto
  <1>5. CASE WriteProfileUpdate(p) \/ ResetApproval(p) \/ WriteApproval(p)
    BY <1>5, HandlerMoves
    DEF WriteProfileUpdate, ResetApproval, WriteApproval, Return
  <1>6. CASE RegisterAgain(p) \/ DocumentIsGone(p)
    BY <1>6, HandlerMoves DEF RegisterAgain, DocumentIsGone, Throw, Return
  <1>7. CASE UpdateBankDetails(p)
    BY <1>7, RequestMoves DEF UpdateBankDetails
  <1>8. ASSUME NEW t \in Documents, ConfirmUpload(p, t) \/ DeleteDocument(p, t)
        PROVE  Moves(p, ProfilePCs)
    BY <1>8, StartMoves DEF ConfirmUpload, DeleteDocument
  <1>9. ASSUME NEW name, NEW s, Decide(p, name, s)
        PROVE  Moves(p, ProfilePCs)
    BY <1>9 DEF Decide, Request, GotoWith, Moves
  <1>10. QED
    BY <1>1, <1>2, <1>3, <1>4, <1>5, <1>6, <1>7, <1>8, <1>9 DEF ProfileStep

\* A step of the fleet leaves the profile alone.
LEMMA FleetMoves ==
    ASSUME ProcsInv, NEW p \in Clients, FleetSteps(p)
    PROVE  Moves(p, FleetPCs) /\ UNCHANGED <<profileVars, historyVars>>
  <1> USE DEF FleetPCs
  <1>1. ASSUME NEW v \in Vehicles,
               \/ \E d \in OrNone(Drivers) : CreateVehicle(p, v, d)
               \/ \E active \in BOOLEAN : UpdateVehicle(p, v, active)
               \/ ApproveVehicle(p, v)
               \/ \E types \in SUBSET PhotoTypes : UpdateVehiclePhotos(p, v, types)
        PROVE  Moves(p, FleetPCs) /\ UNCHANGED <<profileVars, historyVars>>
    BY <1>1, StartMoves
    DEF CreateVehicle, UpdateVehicle, ApproveVehicle, UpdateVehiclePhotos, Start
  <1>2. ASSUME NEW d \in Drivers,
               \/ \E b \in Badges : CreateDriver(p, d, b)
               \/ \E active \in OrNone(BOOLEAN), b \in OrNone(Badges),
                     v \in Vehicles \union {None, "keep"} :
                       UpdateDriver(p, d, active, b, v)
               \/ DeleteDriver(p, d) \/ ApproveDriver(p, d)
        PROVE  Moves(p, FleetPCs) /\ UNCHANGED <<profileVars, historyVars>>
    BY <1>2, StartMoves
    DEF CreateDriver, UpdateDriver, DeleteDriver, ApproveDriver, Start
  <1>3. ASSUME NEW v \in Vehicles, DeleteVehicle(p, v)
        PROVE  Moves(p, FleetPCs) /\ UNCHANGED <<profileVars, historyVars>>
    BY <1>3, RequestMoves DEF DeleteVehicle
  <1>4. CASE WriteVehicle(p) \/ WriteVehicleUpdate(p) \/ WriteVehicleApproved(p)
    BY <1>4, HandlerMoves
    DEF WriteVehicle, WriteVehicleUpdate, WriteVehicleApproved, Return, FleetStep
  <1>5. CASE WriteDriver(p) \/ WriteDriverUpdate(p) \/ WriteDriverDeleted(p)
                \/ WriteDriverApproved(p)
    BY <1>5, HandlerMoves
    DEF WriteDriver, WriteDriverUpdate, WriteDriverDeleted, WriteDriverApproved,
        Return, FleetStep
  <1>6. CASE DeletePhotos(p)
    BY <1>6, HandlerMoves DEF DeletePhotos, Return, Goto, FleetStep
  <1>7. ASSUME NEW t \in PhotoTypes, UpsertPhoto(p, t)
        PROVE  Moves(p, FleetPCs) /\ UNCHANGED <<profileVars, historyVars>>
    BY <1>7, HandlerMoves DEF UpsertPhoto, Return, FleetStep
  <1>8. CASE TransactionThrows(p)
    <2>1. pc[p] # "idle" /\ Throw(p)
      BY <1>8 DEF TransactionThrows
    <2>2. QED
      BY <2>1, HandlerMoves DEF Throw, Return
  <1>9. QED
    BY <1>1, <1>2, <1>3, <1>4, <1>5, <1>6, <1>7, <1>8 DEF FleetSteps

----------------------------------------------------------------------------
(* Active rows are approved *)

\* A row that is active is approved.
RowOK(row) == row.isActive => row.isApproved
RowsOK ==
    /\ \A v \in Live(vehicles) : RowOK(vehicles[v])
    /\ \A d \in Live(drivers) : RowOK(drivers[d])

\* What a handler read is still so when nothing ran meanwhile.
ReadIsFresh(p) ==
    /\ pc[p] = "updateVehicle" /\ arg[p].isActive =>
        vehicles[arg[p].vehicle].isApproved
    /\ pc[p] = "updateDriver" =>
        /\ arg[p].row = drivers[arg[p].driver]
        /\ arg[p].isActive = TRUE => drivers[arg[p].driver].isApproved

ActiveInv == ~overlapped => RowsOK /\ \A p \in Clients : ReadIsFresh(p)

\* A step after which the rows are right and nobody updates.
LEMMA ActiveKept ==
    ASSUME ProcsInv, OneAtATime, NEW p \in Clients, NEW places,
           Moves(p, places),
           ~overlapped' /\ ~overlapped => RowsOK' /\ ReadIsFresh(p)'
    PROVE  ActiveInv'
  <1>1. SUFFICES ASSUME ~overlapped'
                 PROVE  RowsOK' /\ \A q \in Clients : ReadIsFresh(q)'
    BY DEF ActiveInv
  <1>2. ~overlapped /\ \A q \in Clients \ {p} : pc'[q] = "idle"
    BY <1>1, MovesAlone
  <1>3. \A q \in Clients \ {p} : ReadIsFresh(q)'
    BY <1>2 DEF ReadIsFresh
  <1>4. QED
    BY <1>1, <1>2, <1>3

LEMMA NobodyUpdates ==
    ASSUME NEW p \in Clients, pc'[p] \notin {"updateVehicle", "updateDriver"}
    PROVE  ReadIsFresh(p)'
  BY DEF ReadIsFresh

LEMMA RowsUnchanged ==
    ASSUME RowsOK, UNCHANGED <<vehicles, drivers>>
    PROVE  RowsOK'
  BY DEF RowsOK, Live

\* A row is written with an approval if it is active.
LEMMA VehicleRowWritten ==
    ASSUME FleetTyped, RowsOK, NEW v, NEW row, RowOK(row),
           vehicles' = [vehicles EXCEPT ![v] = row]
    PROVE  \A w \in Live(vehicles)' : RowOK(vehicles'[w])
  BY DEF FleetTyped, RowsOK, Live

LEMMA VehicleRowGone ==
    ASSUME FleetTyped, RowsOK, NEW v, vehicles' = [vehicles EXCEPT ![v] = Gone]
    PROVE  \A w \in Live(vehicles)' : RowOK(vehicles'[w])
  BY DEF FleetTyped, RowsOK, Live

LEMMA DriverRowWritten ==
    ASSUME NEW rows \in DriverRows, \A e \in Live(rows) : RowOK(rows[e]),
           NEW d, NEW row, RowOK(row) \/ row = Gone
    PROVE  \A e \in Live([rows EXCEPT ![d] = row]) :
                RowOK([rows EXCEPT ![d] = row][e])
  BY DEF DriverRows, Live

LEMMA UnlinkedRowsOK ==
    ASSUME NEW rows \in DriverRows, \A e \in Live(rows) : RowOK(rows[e]), NEW v
    PROVE  \A e \in Live(Unlinked(v, rows)) :
              /\ RowOK(Unlinked(v, rows)[e])
              /\ Unlinked(v, rows)[e].isActive = rows[e].isActive
              /\ Unlinked(v, rows)[e].isApproved = rows[e].isApproved
  <1>1. SUFFICES ASSUME NEW e \in Live(Unlinked(v, rows))
                 PROVE  /\ Unlinked(v, rows)[e].isActive = rows[e].isActive
                        /\ Unlinked(v, rows)[e].isApproved = rows[e].isApproved
                        /\ RowOK(rows[e])
    BY DEF RowOK
  <1>2. e \in Live(rows) /\ e \in Drivers /\ rows[e] \in Driver
    BY UnlinkedRows, LiveRows
  <1>3. QED
    BY <1>2 DEF Unlinked, Driver

LEMMA DisapprovedRowsOK ==
    ASSUME NEW rows \in DriverRows, \A e \in Live(rows) : RowOK(rows[e]), NEW v
    PROVE  \A e \in Live(Disapproved(v, rows)) : RowOK(Disapproved(v, rows)[e])
  <1>1. SUFFICES ASSUME NEW e \in Live(Disapproved(v, rows))
                 PROVE  RowOK(Disapproved(v, rows)[e])
    OBVIOUS
  <1>2. e \in Live(rows) /\ e \in Drivers /\ rows[e] \in Driver
    BY DisapprovedRows, LiveRows
  <1>3. QED
    BY <1>2 DEF Disapproved, Driver, RowOK

\* The transactions write such rows when what they read is fresh.
LEMMA VehicleWrites ==
    ASSUME FleetInv, ProcsInv, RowsOK, NEW p \in Clients, ReadIsFresh(p),
           \/ WriteVehicle(p) \/ WriteVehicleUpdate(p) \/ WriteVehicleApproved(p)
           \/ \E v \in Vehicles : DeleteVehicle(p, v)
    PROVE  RowsOK'
  <1> DEFINE w == arg[p].vehicle
             d == arg[p].driver
  <1>0. FleetTyped /\ drivers \in DriverRows
        /\ \A e \in Live(drivers) : RowOK(drivers[e])
    BY DEF FleetInv, FleetTyped, DriverRows, RowsOK
  <1>1. CASE WriteVehicle(p)
    <2>1. /\ vehicles' = [vehicles EXCEPT
                ![w] = [isApproved |-> FALSE, isActive |-> FALSE]]
          /\ d \in Live(drivers) \union {None}
          /\ drivers' = IF d = None THEN drivers
                        ELSE [drivers EXCEPT ![d].vehicle = w]
      BY <1>1 DEF WriteVehicle
    <2>2. RowOK([isApproved |-> FALSE, isActive |-> FALSE])
      BY DEF RowOK
    <2>3. \A v \in Live(vehicles)' : RowOK(vehicles'[v])
      BY <1>0, <2>1, <2>2, VehicleRowWritten
    <2>4. \A e \in Live(drivers)' : RowOK(drivers'[e])
      <3>1. CASE d = None
        BY <1>0, <2>1, <3>1 DEF Live
      <3>2. CASE d # None
        <4>1. d \in Live(drivers) /\ drivers[d] \in Driver
          BY <1>0, <2>1, <3>2, LiveRows
        <4>2. RowOK([drivers[d] EXCEPT !.vehicle = w])
          BY <1>0, <4>1 DEF RowOK, Driver
        <4>3. drivers' = [drivers EXCEPT ![d] = [drivers[d] EXCEPT !.vehicle = w]]
          BY <2>1, <3>2
        <4>4. QED
          BY <1>0, <4>2, <4>3, DriverRowWritten DEF Live
      <3>3. QED
        BY <3>1, <3>2
    <2>5. QED
      BY <2>3, <2>4 DEF RowsOK
  <1>2. CASE WriteVehicleUpdate(p)
    <2>1. /\ vehicles' = [vehicles EXCEPT
                ![w] = [vehicles[w] EXCEPT !.isActive = arg[p].isActive]]
          /\ drivers' = drivers /\ w \in Live(vehicles) /\ pc[p] = "updateVehicle"
      BY <1>2 DEF WriteVehicleUpdate
    <2>2. vehicles[w] \in Vehicle
      BY <2>1, <1>0 DEF FleetTyped, Live
    <2>3. RowOK([vehicles[w] EXCEPT !.isActive = arg[p].isActive])
      BY <2>1, <2>2 DEF RowOK, Vehicle, ReadIsFresh
    <2>4. QED
      BY <1>0, <2>1, <2>3, VehicleRowWritten DEF RowsOK, Live
  <1>3. CASE WriteVehicleApproved(p)
    <2> DEFINE row == [[vehicles[w] EXCEPT !.isApproved = TRUE] EXCEPT !.isActive = TRUE]
    <2>1. /\ vehicles' = [vehicles EXCEPT ![w] = row]
          /\ drivers' = drivers /\ w \in Live(vehicles)
      BY <1>3, <1>0 DEF WriteVehicleApproved, Approve, FleetTyped, Live
    <2>2. vehicles[w] \in Vehicle
      BY <2>1, <1>0 DEF FleetTyped, Live
    <2>3. RowOK(row)
      BY <2>2 DEF RowOK, Vehicle
    <2>4. QED
      BY <1>0, <2>1, <2>3, VehicleRowWritten DEF RowsOK, Live
  <1>4. ASSUME NEW v \in Vehicles, DeleteVehicle(p, v)
        PROVE  RowsOK'
    <2>1. /\ drivers' = Unlinked(v, Disapproved(v, drivers))
          /\ vehicles' = [vehicles EXCEPT ![v] = Gone]
      BY <1>4 DEF DeleteVehicle
    <2>2. /\ Disapproved(v, drivers) \in DriverRows
          /\ \A e \in Live(Disapproved(v, drivers)) :
                RowOK(Disapproved(v, drivers)[e])
      BY <1>0, DisapprovedRows, DisapprovedRowsOK
    <2>3. \A e \in Live(drivers)' : RowOK(drivers'[e])
      BY <2>1, <2>2, UnlinkedRowsOK DEF Live
    <2>4. QED
      BY <1>0, <2>1, <2>3, VehicleRowGone DEF RowsOK
  <1>5. QED
    BY <1>1, <1>2, <1>3, <1>4

\* As above: a driver's update writes what was read, one way or the other.
LEMMA DriverUpdateWrites ==
    ASSUME FleetInv, ProcsInv, RowsOK, NEW p \in Clients, ReadIsFresh(p),
           WriteDriverUpdate(p)
    PROVE  RowsOK'
  <1> DEFINE a == arg[p]
             d == arg[p].driver
             free == IF a.vehicle \in Vehicles THEN Unlinked(a.vehicle, drivers)
                     ELSE drivers
             row == [vehicle |-> IF a.vehicle = "keep" THEN free[d].vehicle
                                 ELSE a.vehicle,
                     badge |-> IF a.badge = None THEN free[d].badge ELSE a.badge,
                     isApproved |-> free[d].isApproved /\ ~Deactivates(a),
                     isActive |-> IF a.isActive = None THEN free[d].isActive
                                  ELSE a.isActive]
  <1>0. FleetTyped /\ drivers \in DriverRows
        /\ \A e \in Live(drivers) : RowOK(drivers[e])
    BY DEF FleetInv, FleetTyped, DriverRows, RowsOK
  <1>1. /\ pc[p] = "updateDriver" /\ d \in Live(drivers)
        /\ FollowsDriver(a) /\ Reactivates(a) => vehicles[a.row.vehicle].isApproved
        /\ drivers' = [free EXCEPT ![d] = row]
        /\ vehicles' = UpdatedVehicles(a)
    BY DEF WriteDriverUpdate, UpdatedDrivers
  <1>2. /\ a.row = drivers[d]
        /\ a.isActive = TRUE => drivers[d].isApproved
        /\ a.isActive \in OrNone(BOOLEAN) /\ d \in Drivers /\ drivers[d] \in Driver
    BY <1>0, <1>1, LiveRows DEF ReadIsFresh, ProcsInv, Arg
  <1>3. /\ free \in DriverRows
        /\ \A e \in Live(free) : RowOK(free[e])
        /\ free[d].isActive = drivers[d].isActive
        /\ free[d].isApproved = drivers[d].isApproved
    <2>1. CASE a.vehicle \in Vehicles
      <3>1. free = Unlinked(a.vehicle, drivers)
        BY <2>1
      <3>2. free[d].isActive = drivers[d].isActive
            /\ free[d].isApproved = drivers[d].isApproved
        BY <1>2, <3>1 DEF Unlinked, Driver
      <3>3. QED
        BY <1>0, <3>1, <3>2, UnlinkedRows, UnlinkedRowsOK
    <2>2. CASE a.vehicle \notin Vehicles
      BY <1>0, <2>2
    <2>3. QED
      BY <2>1, <2>2
  <1>4. RowOK(row)
    <2>1. SUFFICES ASSUME row.isActive PROVE row.isApproved
      BY DEF RowOK
    <2>2. RowOK(drivers[d]) /\ drivers[d].isActive \in BOOLEAN
      BY <1>0, <1>1, <1>2 DEF Driver
    <2>3. CASE a.isActive = None
      BY <1>2, <1>3, <2>1, <2>2, <2>3, OperatorsAssumption
      DEF RowOK, Deactivates
    <2>4. CASE a.isActive # None
      <3>1. a.isActive = TRUE
        BY <1>2, <2>1, <2>4 DEF OrNone
      <3>2. QED
        BY <1>2, <1>3, <3>1 DEF Deactivates
    <2>5. QED
      BY <2>3, <2>4
  <1>5. \A e \in Live(drivers)' : RowOK(drivers'[e])
    BY <1>1, <1>3, <1>4, DriverRowWritten DEF Live
  <1>6. \A v \in Live(vehicles)' : RowOK(vehicles'[v])
    <2>1. CASE ~FollowsDriver(a)
      BY <1>1, <2>1 DEF UpdatedVehicles, RowsOK, Live
    <2>2. CASE FollowsDriver(a)
      <3> DEFINE w == a.row.vehicle
                 new == [isApproved |-> vehicles[w].isApproved /\ ~Deactivates(a),
                         isActive |-> ~Deactivates(a)]
      <3>1. vehicles' = [vehicles EXCEPT ![w] = new]
        BY <1>0, <1>1, <2>2 DEF UpdatedVehicles, FleetTyped
      <3>2. RowOK(new)
        BY <1>1, <2>2 DEF RowOK, FollowsDriver
      <3>3. QED
        BY <1>0, <3>1, <3>2, VehicleRowWritten
    <2>3. QED
      BY <2>1, <2>2
  <1>7. QED
    BY <1>5, <1>6 DEF RowsOK

LEMMA DriverWrites ==
    ASSUME FleetInv, RowsOK, NEW p \in Clients,
           WriteDriver(p) \/ WriteDriverDeleted(p) \/ WriteDriverApproved(p)
    PROVE  RowsOK'
  <1> DEFINE v == arg[p].vehicle
             d == arg[p].driver
  <1>0. FleetTyped /\ drivers \in DriverRows
        /\ \A e \in Live(drivers) : RowOK(drivers[e])
    BY DEF FleetInv, FleetTyped, DriverRows, RowsOK
  <1>1. CASE WriteDriver(p)
    <2> DEFINE row == [vehicle |-> None, badge |-> arg[p].badge,
                       isApproved |-> FALSE, isActive |-> FALSE]
    <2>1. RowOK(row) /\ drivers' = [drivers EXCEPT ![d] = row]
          /\ vehicles' = vehicles
      BY <1>1 DEF WriteDriver, RowOK
    <2>2. \A e \in Live(drivers)' : RowOK(drivers'[e])
      BY <1>0, <2>1, DriverRowWritten DEF Live
    <2>3. QED
      BY <2>1, <2>2 DEF RowsOK, Live
  <1>2. CASE WriteDriverDeleted(p)
    <2> DEFINE rows == Unlinked(v, drivers)
    <2>1. /\ drivers' = [rows EXCEPT ![d] = Gone]
          /\ vehicles' = IF v = None THEN vehicles ELSE [vehicles EXCEPT ![v] = Gone]
      BY <1>2 DEF WriteDriverDeleted
    <2>2. rows \in DriverRows /\ \A e \in Live(rows) : RowOK(rows[e])
      BY <1>0, UnlinkedRows, UnlinkedRowsOK
    <2>3. \A e \in Live(drivers)' : RowOK(drivers'[e])
      BY <2>1, <2>2, DriverRowWritten DEF Live
    <2>4. \A w \in Live(vehicles)' : RowOK(vehicles'[w])
      BY <1>0, <2>1, VehicleRowGone DEF RowsOK, Live
    <2>5. QED
      BY <2>3, <2>4 DEF RowsOK
  <1>3. CASE WriteDriverApproved(p)
    <2> DEFINE row == [[drivers[d] EXCEPT !.isApproved = TRUE] EXCEPT !.isActive = TRUE]
               new == [[vehicles[v] EXCEPT !.isApproved = TRUE] EXCEPT !.isActive = TRUE]
    <2>1. d \in Live(drivers) /\ v \in Live(vehicles)
          /\ drivers' = Approve(drivers, d) /\ vehicles' = Approve(vehicles, v)
      BY <1>3 DEF WriteDriverApproved
    <2>2. drivers[d] \in Driver /\ vehicles[v] \in Vehicle
          /\ d \in Drivers /\ v \in Vehicles
      BY <1>0, <2>1, LiveRows DEF FleetTyped, Live
    <2>3. RowOK(row) /\ RowOK(new)
      BY <2>2 DEF RowOK, Driver, Vehicle
    <2>4. drivers' = [drivers EXCEPT ![d] = row]
          /\ vehicles' = [vehicles EXCEPT ![v] = new]
      BY <1>0, <2>1, <2>2 DEF Approve, FleetTyped, DriverRows
    <2>5. \A e \in Live(drivers)' : RowOK(drivers'[e])
      BY <1>0, <2>3, <2>4, DriverRowWritten DEF Live
    <2>6. \A w \in Live(vehicles)' : RowOK(vehicles'[w])
      BY <1>0, <2>3, <2>4, VehicleRowWritten
    <2>7. QED
      BY <2>5, <2>6 DEF RowsOK
  <1>4. QED
    BY <1>1, <1>2, <1>3

\* The requests of an update read rows that are right, and keep them.
LEMMA UpdateReadsFresh ==
    ASSUME FleetInv, ProcsInv, RowsOK, NEW p \in Clients,
           \/ \E v \in Vehicles, active \in BOOLEAN : UpdateVehicle(p, v, active)
           \/ \E d \in Drivers, active \in OrNone(BOOLEAN), b \in OrNone(Badges),
                 v \in Vehicles \union {None, "keep"} :
                    UpdateDriver(p, d, active, b, v)
    PROVE  RowsOK' /\ ReadIsFresh(p)'
  <1>1. ASSUME NEW v \in Vehicles, NEW active \in BOOLEAN,
               UpdateVehicle(p, v, active)
        PROVE  RowsOK' /\ ReadIsFresh(p)'
    <2> DEFINE a == [NoArg EXCEPT !.vehicle = v, !.isActive = active]
    <2>1. /\ pc'[p] = "updateVehicle" /\ arg'[p] = a
          /\ UNCHANGED <<vehicles, drivers>> /\ v \in Live(vehicles)
          /\ active => vehicles[v].isActive \/ vehicles[v].isApproved
      BY <1>1 DEF UpdateVehicle, Start, GotoWith, ProcsInv, fleetVars
    <2>2. a.vehicle = v /\ a.isActive = active
      BY DEF NoArg
    <2>3. active => vehicles[v].isApproved
      BY <2>1 DEF RowsOK, RowOK
    <2>4. QED
      BY <2>1, <2>2, <2>3, RowsUnchanged DEF ReadIsFresh
  <1>2. ASSUME NEW d \in Drivers, NEW active \in OrNone(BOOLEAN),
               NEW b \in OrNone(Badges), NEW v \in Vehicles \union {None, "keep"},
               UpdateDriver(p, d, active, b, v)
        PROVE  RowsOK' /\ ReadIsFresh(p)'
    <2> DEFINE a == [NoArg EXCEPT !.driver = d, !.isActive = active, !.badge = b,
                                  !.vehicle = v, !.row = drivers[d]]
    <2>1. /\ pc'[p] = "updateDriver" /\ arg'[p] = a
          /\ UNCHANGED <<vehicles, drivers>> /\ d \in Live(drivers)
          /\ active = TRUE /\ ~drivers[d].isActive => drivers[d].isApproved
      BY <1>2 DEF UpdateDriver, Start, GotoWith, ProcsInv, fleetVars
    <2>2. a.driver = d /\ a.isActive = active /\ a.row = drivers[d]
      BY DEF NoArg
    <2>3. active = TRUE => drivers[d].isApproved
      BY <2>1 DEF RowsOK, RowOK
    <2>4. QED
      BY <2>1, <2>2, <2>3, RowsUnchanged DEF ReadIsFresh
  <1>3. QED
    BY <1>1, <1>2

LEMMA FleetKeepsActive ==
    ASSUME IInv, OneAtATime, ActiveInv, NEW p \in Clients, FleetSteps(p)
    PROVE  ActiveInv'
  <1>0. FleetInv /\ ProcsInv /\ Moves(p, FleetPCs)
    BY FleetMoves DEF IInv
  <1>1. SUFFICES ASSUME ~overlapped', ~overlapped
                 PROVE  RowsOK' /\ ReadIsFresh(p)'
    BY <1>0, ActiveKept
  <1>2. RowsOK /\ ReadIsFresh(p)
    BY <1>1 DEF ActiveInv
  <1> DEFINE Quiet == /\ UNCHANGED <<vehicles, drivers>>
                      /\ pc'[p] \notin {"updateVehicle", "updateDriver"}
  <1>3. CASE Quiet
    BY <1>2, <1>3, RowsUnchanged, NobodyUpdates
  <1>4. ASSUME NEW v \in Vehicles,
               \/ \E d \in OrNone(Drivers) : CreateVehicle(p, v, d)
               \/ ApproveVehicle(p, v)
               \/ \E types \in SUBSET PhotoTypes : UpdateVehiclePhotos(p, v, types)
        PROVE  Quiet
    BY <1>0, <1>4
    DEF CreateVehicle, ApproveVehicle, UpdateVehiclePhotos, Start, GotoWith,
        ProcsInv, fleetVars
  <1>5. ASSUME NEW d \in Drivers,
               \/ \E b \in Badges : CreateDriver(p, d, b)
               \/ DeleteDriver(p, d) \/ ApproveDriver(p, d)
        PROVE  Quiet
    BY <1>0, <1>5
    DEF CreateDriver, DeleteDriver, ApproveDriver, Start, GotoWith, ProcsInv,
        fleetVars
  <1>6. ASSUME \/ DeletePhotos(p) \/ \E t \in PhotoTypes : UpsertPhoto(p, t)
               \/ TransactionThrows(p)
        PROVE  Quiet
    BY <1>0, <1>6
    DEF DeletePhotos, UpsertPhoto, TransactionThrows, Throw, Return, Goto,
        GotoWith, ProcsInv, fleetVars
  <1>7. CASE \/ WriteVehicle(p) \/ WriteVehicleUpdate(p) \/ WriteVehicleApproved(p)
             \/ WriteDriver(p) \/ WriteDriverUpdate(p) \/ WriteDriverDeleted(p)
             \/ WriteDriverApproved(p)
    <2>1. RowsOK'
      BY <1>0, <1>2, <1>7, VehicleWrites, DriverUpdateWrites, DriverWrites
    <2>2. pc'[p] = "idle"
      BY <1>0, <1>7
      DEF WriteVehicle, WriteVehicleUpdate, WriteVehicleApproved, WriteDriver,
          WriteDriverUpdate, WriteDriverDeleted, WriteDriverApproved, Return,
          GotoWith, ProcsInv
    <2>3. QED
      BY <2>1, <2>2, NobodyUpdates
  <1>8. ASSUME NEW v \in Vehicles, DeleteVehicle(p, v)
        PROVE  RowsOK' /\ ReadIsFresh(p)'
    <2>1. RowsOK'
      BY <1>0, <1>2, <1>8, VehicleWrites
    <2>2. pc'[p] = "idle"
      BY <1>8 DEF DeleteVehicle, Request
    <2>3. QED
      BY <2>1, <2>2, NobodyUpdates
  <1>9. ASSUME \/ \E v \in Vehicles, active \in BOOLEAN : UpdateVehicle(p, v, active)
               \/ \E d \in Drivers, active \in OrNone(BOOLEAN), b \in OrNone(Badges),
                     v \in Vehicles \union {None, "keep"} :
                        UpdateDriver(p, d, active, b, v)
        PROVE  RowsOK' /\ ReadIsFresh(p)'
    BY <1>0, <1>2, <1>9, UpdateReadsFresh
  <1>10. QED
    BY <1>3, <1>4, <1>5, <1>6, <1>7, <1>8, <1>9 DEF FleetSteps

LEMMA ProfileKeepsActive ==
    ASSUME IInv, OneAtATime, ActiveInv, NEW p \in Clients, ProfileStep(p)
    PROVE  ActiveInv'
  <1>1. ProcsInv /\ Moves(p, ProfilePCs) /\ UNCHANGED <<vehicles, drivers>>
    BY ProfileMoves, ProfileStepKeeps DEF IInv
  <1>2. SUFFICES ASSUME ~overlapped', ~overlapped
                 PROVE  RowsOK' /\ ReadIsFresh(p)'
    BY <1>1, ActiveKept
  <1>3. RowsOK'
    BY <1>1, <1>2, RowsUnchanged DEF ActiveInv
  <1>4. pc'[p] \in ProfilePCs
    BY <1>1, <1>2, MovesAlone
  <1>5. QED
    BY <1>3, <1>4, NobodyUpdates DEF ProfilePCs

\* A crash leaves no handler, and the rows as they are.
LEMMA CrashKeepsActive ==
    ASSUME OneAtATime, ActiveInv, Crash
    PROVE  OneAtATime' /\ ActiveInv'
  <1>1. \A p \in Clients : pc'[p] = "idle"
    BY DEF Crash
  <1>2. overlapped' = overlapped /\ UNCHANGED <<vehicles, drivers>>
    BY DEF Crash, fleetVars
  <1>3. ~overlapped => RowsOK'
    BY <1>2, RowsUnchanged DEF ActiveInv
  <1>4. QED
    BY <1>1, <1>2, <1>3 DEF OneAtATime, AtMostOne, ActiveInv, ReadIsFresh

LEMMA InitActive == Init => OneAtATime /\ ActiveInv
  <1> SUFFICES ASSUME Init PROVE OneAtATime /\ ActiveInv
    OBVIOUS
  <1>1. \A p \in Clients : pc[p] = "idle"
    BY DEF Init
  <1>2. ASSUME Unregistered PROVE RowsOK
    BY <1>2 DEF Unregistered, RowsOK, Live
  <1>3. ASSUME Approved PROVE RowsOK
    <2>1. PICK v \in Vehicles, d \in Drivers, b \in Badges :
            /\ vehicles = [[x \in Vehicles |-> None] EXCEPT
                                ![v] = [isApproved |-> TRUE, isActive |-> TRUE]]
            /\ drivers = [[x \in Drivers |-> None] EXCEPT
                                ![d] = [vehicle |-> v, badge |-> b,
                                        isApproved |-> TRUE, isActive |-> TRUE]]
      BY <1>3 DEF Approved
    <2>2. \A x \in Live(vehicles) : RowOK(vehicles[x])
      BY <2>1 DEF Live, RowOK
    <2>3. \A x \in Live(drivers) : RowOK(drivers[x])
      BY <2>1 DEF Live, RowOK
    <2>4. QED
      BY <2>2, <2>3 DEF RowsOK
  <1>4. RowsOK
    BY <1>2, <1>3 DEF Init
  <1>5. QED
    BY <1>1, <1>4 DEF OneAtATime, AtMostOne, ActiveInv, ReadIsFresh

LEMMA NextActive ==
    IInv /\ OneAtATime /\ ActiveInv /\ [Next]_vars => OneAtATime' /\ ActiveInv'
  <1> SUFFICES ASSUME IInv, OneAtATime, ActiveInv, [Next]_vars
               PROVE  OneAtATime' /\ ActiveInv'
    OBVIOUS
  <1>1. ASSUME NEW p \in Clients, ProfileStep(p) PROVE OneAtATime' /\ ActiveInv'
    BY <1>1, ProfileMoves, OneAtATimeKept, ProfileKeepsActive DEF IInv
  <1>2. ASSUME NEW p \in Clients, FleetSteps(p) PROVE OneAtATime' /\ ActiveInv'
    BY <1>2, FleetMoves, OneAtATimeKept, FleetKeepsActive DEF IInv
  <1>3. CASE Crash
    BY <1>3, CrashKeepsActive
  <1>4. CASE UNCHANGED vars
    BY <1>4
    DEF vars, boundVars, fleetVars, OneAtATime, AtMostOne, ActiveInv, RowsOK,
        Live, ReadIsFresh
  <1>5. QED
    BY <1>1, <1>2, <1>3, <1>4 DEF Next

\* As long as requests do not overlap, vehicles and drivers are active only
\* while they are approved, after any sequence of approvals, deactivations,
\* links, removals and crashes: the row that an update read to decide is the
\* row it writes (operators.service.ts:914, :1221; admin.service.ts:2559).
THEOREM ActiveIsApprovedAlways == Spec => []ActiveIsApproved
  <1>1. ActiveInv => ActiveIsApproved
    BY DEF ActiveInv, RowsOK, RowOK, ActiveIsApproved
  <1>2. QED
    BY InitIInv, NextIInv, InitActive, NextActive, <1>1, PTL DEF Spec

----------------------------------------------------------------------------
(* The promises of the profile *)

\* Without a profile there is no service area, and nobody writes one.
Registered ==
    /\ approvalStatus \in OrNone(ApprovalStatus)
    /\ approvalStatus = None =>
        /\ areas = {}
        /\ \A p \in Clients :
              pc[p] \notin {"register.areas", "profile", "profile.areas"}

\* Handlers ran one after the other, and to their end.
InOrder == ~overlapped /\ crashes = 0

\* The areas are those asked for, or a handler is about to create the rest.
AreasInv == InOrder =>
    /\ areas = asked \/ \E p \in Clients : pc[p] \in {"register.areas", "profile.areas"}
    /\ \A p \in Clients :
        /\ pc[p] = "register.areas" => areas \union arg[p].set = asked
        /\ pc[p] = "profile.areas" => areas = {} /\ arg[p].set = asked

\* An approved operator has the documents, or its approval is about to be
\* reset; and it is only approved with the documents.
DocumentsInv == InOrder /\ ~reinstated =>
    /\ approvalStatus = "APPROVED" =>
        documents = Documents \/ \E p \in Clients : pc[p] = "review"
    /\ \A p \in Clients : pc[p] = "approval" /\ arg[p].status = "APPROVED" =>
        documents = Documents

ProfileInv == crashes \in Nat /\ Registered /\ AreasInv /\ DocumentsInv

\* Where the handler of p is, for the parts of the profile, when it is alone.
AreasAt(p) ==
    /\ areas = asked \/ pc[p] \in {"register.areas", "profile.areas"}
    /\ pc[p] = "register.areas" => areas \union arg[p].set = asked
    /\ pc[p] = "profile.areas" => areas = {} /\ arg[p].set = asked
DocumentsAt(p) ==
    /\ approvalStatus = "APPROVED" => documents = Documents \/ pc[p] = "review"
    /\ pc[p] = "approval" /\ arg[p].status = "APPROVED" => documents = Documents

\* A step of one handler, alone, has only itself to look at.
LEMMA ProfileAlone ==
    ASSUME ProcsInv, OneAtATime, ProfileInv, NEW p \in Clients, NEW places,
           Moves(p, places), InOrder'
    PROVE  /\ InOrder
           /\ AreasAt(p)
           /\ ~reinstated => DocumentsAt(p)
           /\ AreasAt(p)' => AreasInv'
           /\ (~reinstated' => DocumentsAt(p)') => DocumentsInv'
  <1>1. ~overlapped' /\ crashes' = 0
    BY DEF InOrder
  <1>2. /\ ~overlapped
        /\ \A q \in Clients \ {p} : pc[q] = "idle" /\ pc'[q] = "idle"
    BY <1>1, MovesAlone
  <1>3. InOrder
    BY <1>1, <1>2 DEF InOrder, Moves
  <1>4. AreasAt(p)
    BY <1>2, <1>3 DEF ProfileInv, AreasInv, AreasAt
  <1>5. ~reinstated => DocumentsAt(p)
    BY <1>2, <1>3 DEF ProfileInv, DocumentsInv, DocumentsAt
  <1>6. AreasAt(p)' => AreasInv'
    BY <1>2 DEF AreasInv, AreasAt
  <1>7. (~reinstated' => DocumentsAt(p)') => DocumentsInv'
    BY <1>2 DEF DocumentsInv, DocumentsAt
  <1>8. QED
    BY <1>3, <1>4, <1>5, <1>6, <1>7

\* What a step shows of the profile.
LEMMA ProfileKept ==
    ASSUME ProcsInv, OneAtATime, ProfileInv, NEW p \in Clients, NEW places,
           Moves(p, places), Registered',
           InOrder /\ AreasAt(p) => AreasAt(p)',
           InOrder /\ ~reinstated' /\ (~reinstated => DocumentsAt(p)) => DocumentsAt(p)'
    PROVE  ProfileInv'
  <1>1. crashes' \in Nat
    BY DEF Moves, ProfileInv
  <1>2. CASE InOrder'
    BY <1>1, <1>2, ProfileAlone DEF ProfileInv
  <1>3. CASE ~InOrder'
    BY <1>1, <1>3 DEF ProfileInv, AreasInv, DocumentsInv
  <1>4. QED
    BY <1>2, <1>3

LEMMA FleetKeepsProfile ==
    ASSUME IInv, OneAtATime, ProfileInv, NEW p \in Clients, FleetSteps(p)
    PROVE  ProfileInv'
  <1>1. ProcsInv /\ Moves(p, FleetPCs) /\ UNCHANGED <<profileVars, historyVars>>
    BY FleetMoves DEF IInv
  <1>2. PICK step \in FleetPCs : pc' = [pc EXCEPT ![p] = step]
    BY <1>1 DEF Moves
  <1>3. /\ pc'[p] = step /\ \A q \in Clients : q # p => pc'[q] = pc[q]
        /\ step \notin {"register.areas", "profile", "profile.areas", "review",
                        "approval"}
    BY <1>1, <1>2 DEF ProcsInv, FleetPCs
  <1>4. Registered'
    BY <1>1, <1>3 DEF ProfileInv, Registered, profileVars
  <1>5. FleetSteps(p) => pc[p] \notin ProfilePCs \/ pc[p] = "idle"
    BY DEF FleetSteps, CreateVehicle, UpdateVehicle, DeleteVehicle,
        ApproveVehicle, UpdateVehiclePhotos, WriteVehicle, WriteVehicleUpdate,
        WriteVehicleApproved, DeletePhotos, UpsertPhoto, CreateDriver,
        UpdateDriver, DeleteDriver, ApproveDriver, WriteDriver,
        WriteDriverUpdate, WriteDriverDeleted, WriteDriverApproved,
        TransactionThrows, Start, Request, ProfilePCs
  <1>6. AreasAt(p) => AreasAt(p)'
    BY <1>1, <1>3, <1>5 DEF AreasAt, profileVars, historyVars, ProfilePCs
  <1>7. DocumentsAt(p) /\ ~reinstated => DocumentsAt(p)'
    BY <1>1, <1>3, <1>5 DEF DocumentsAt, profileVars, historyVars, ProfilePCs
  <1>8. reinstated' = reinstated
    BY <1>1 DEF historyVars
  <1>9. QED
    BY <1>1, <1>4, <1>6, <1>7, <1>8, ProfileKept

ProfileShown(p) ==
    /\ Registered'
    /\ AreasAt(p) => AreasAt(p)'
    /\ ~reinstated' /\ (~reinstated => DocumentsAt(p)) => DocumentsAt(p)'

\* A request of the profile reads it only.
LEMMA ProfileStartShown ==
    ASSUME ProcsInv, Registered, NEW p \in Clients, NEW name, NEW step, NEW a,
           Start(p, name, step, a), approvalStatus = None => step # "profile",
           step \in ProfilePCs \ {"register.areas", "profile.areas", "approval"}
    PROVE  ProfileShown(p)
  <1>1. /\ pc[p] = "idle" /\ pc'[p] = step
        /\ \A q \in Clients : q # p => pc'[q] = pc[q]
        /\ UNCHANGED <<profileVars, historyVars>>
    BY DEF Start, Request, GotoWith, ProcsInv
  <1>2. Registered'
    BY <1>1 DEF Registered, profileVars
  <1>3. (AreasAt(p) => AreasAt(p)') /\ (DocumentsAt(p) => DocumentsAt(p)')
    BY <1>1 DEF AreasAt, DocumentsAt, profileVars, historyVars, ProfilePCs
  <1>4. QED
    BY <1>1, <1>2, <1>3 DEF ProfileShown, historyVars

\* The handlers of the areas write them as they were asked for.
LEMMA AreaStepsShown ==
    ASSUME ProcsInv, Registered, NEW p \in Clients,
           \/ WriteProfile(p) \/ DeleteAreas(p) \/ CreateAreas(p)
           \/ \E a \in Areas : CreateServiceArea(p, a)
    PROVE  ProfileShown(p)
  <1>0. pc \in [Clients -> PC] /\ DOMAIN arg = Clients
    BY DEF ProcsInv
  <1>1. CASE WriteProfile(p)
    <2>1. /\ approvalStatus = None /\ approvalStatus' = "PENDING"
          /\ areas = {} /\ areas' = areas /\ asked' = arg[p].set
          /\ pc'[p] = "register.areas" /\ arg'[p] = arg[p]
          /\ reinstated' = reinstated
      BY <1>0, <1>1 DEF WriteProfile, Goto, GotoWith, Registered
    <2>2. Registered'
      BY <2>1, OperatorsAssumption DEF Registered, OrNone, ApprovalStatus
    <2>3. AreasAt(p)' /\ DocumentsAt(p)'
      BY <2>1 DEF AreasAt, DocumentsAt
    <2>4. QED
      BY <2>2, <2>3 DEF ProfileShown
  <1>2. CASE DeleteAreas(p)
    <2>1. /\ areas' = {} /\ asked' = arg[p].set /\ approvalStatus' = approvalStatus
          /\ pc[p] = "profile" /\ pc'[p] = "profile.areas" /\ arg'[p] = arg[p]
          /\ documents' = documents /\ reinstated' = reinstated
      BY <1>0, <1>2 DEF DeleteAreas, Goto, GotoWith
    <2>2. Registered'
      BY <2>1 DEF Registered
    <2>3. AreasAt(p)' /\ (DocumentsAt(p) => DocumentsAt(p)')
      BY <2>1 DEF AreasAt, DocumentsAt
    <2>4. QED
      BY <2>1, <2>2, <2>3 DEF ProfileShown
  <1>3. CASE CreateAreas(p)
    <2>1. /\ areas' = areas \union arg[p].set /\ asked' = asked
          /\ approvalStatus' = approvalStatus
          /\ pc[p] = "profile.areas" /\ pc'[p] = "profile.update"
          /\ documents' = documents /\ reinstated' = reinstated
      BY <1>0, <1>3 DEF CreateAreas, Goto, GotoWith, historyVars
    <2>2. Registered'
      BY <2>1 DEF Registered
    <2>3. (AreasAt(p) => AreasAt(p)') /\ (DocumentsAt(p) => DocumentsAt(p)')
      BY <2>1 DEF AreasAt, DocumentsAt
    <2>4. QED
      BY <2>1, <2>2, <2>3 DEF ProfileShown
  <1>4. ASSUME NEW a \in Areas, CreateServiceArea(p, a)
        PROVE  ProfileShown(p)
    <2> DEFINE rest == [arg[p] EXCEPT !.set = @ \ {a}]
    <2>1. /\ areas' = areas \union {a} /\ asked' = asked
          /\ a \in arg[p].set /\ approvalStatus' = approvalStatus
          /\ pc[p] = "register.areas"
          /\ documents' = documents /\ reinstated' = reinstated
          /\ \/ arg[p].set = {a} /\ pc'[p] = "idle"
             \/ pc'[p] = "register.areas" /\ arg'[p] = rest
      BY <1>0, <1>4 DEF CreateServiceArea, Return, GotoWith, historyVars
    <2>2. approvalStatus # None
      BY <2>1 DEF Registered
    <2>3. Registered'
      BY <2>1, <2>2 DEF Registered
    <2>4. rest.set = arg[p].set \ {a}
      BY DEF ProcsInv, Arg
    <2>5. AreasAt(p) => AreasAt(p)'
      BY <2>1, <2>4 DEF AreasAt
    <2>6. DocumentsAt(p) => DocumentsAt(p)'
      BY <2>1 DEF DocumentsAt
    <2>7. QED
      BY <2>1, <2>3, <2>5, <2>6 DEF ProfileShown
  <1>5. QED
    BY <1>1, <1>2, <1>3, <1>4

\* Documents and decisions.
LEMMA DocumentStepsShown ==
    ASSUME ProcsInv, Registered, NEW p \in Clients,
           \/ WriteDocument(p) \/ WriteDocumentDeleted(p) \/ ResetApproval(p)
           \/ WriteApproval(p)
           \/ \E name \in {"approve", "suspend", "reinstate", "reject"},
                 s \in ApprovalStatus : Decide(p, name, s)
    PROVE  ProfileShown(p)
  <1>0. pc \in [Clients -> PC] /\ arg \in [Clients -> Arg]
        /\ arg[p].status \in ApprovalStatus
    BY DEF ProcsInv, Arg
  <1>1. CASE WriteDocument(p) \/ WriteDocumentDeleted(p)
    <2>1. /\ UNCHANGED <<approvalStatus, areas, asked, reinstated>>
          /\ pc[p] \in {"upload", "document"} /\ pc'[p] = "review"
          /\ \A q \in Clients : q # p => pc'[q] = pc[q]
      BY <1>0, <1>1
      DEF WriteDocument, WriteDocumentDeleted, Goto, GotoWith, historyVars
    <2>2. QED
      BY <2>1 DEF ProfileShown, Registered, AreasAt, DocumentsAt
  <1>2. CASE ResetApproval(p)
    <2>1. /\ UNCHANGED <<areas, documents, asked, reinstated>>
          /\ approvalStatus' = "PENDING"
          /\ pc[p] = "review" /\ pc'[p] = "idle"
      BY <1>0, <1>2 DEF ResetApproval, Return, GotoWith, historyVars
    <2>2. Registered'
      BY <2>1, OperatorsAssumption DEF Registered, OrNone, ApprovalStatus
    <2>3. QED
      BY <2>1, <2>2 DEF ProfileShown, AreasAt, DocumentsAt
  <1>3. CASE WriteApproval(p)
    <2>1. /\ UNCHANGED <<areas, documents, asked, reinstated>>
          /\ approvalStatus' = arg[p].status
          /\ pc[p] = "approval" /\ pc'[p] = "idle"
      BY <1>0, <1>3 DEF WriteApproval, Return, GotoWith, historyVars
    <2>2. Registered'
      BY <1>0, <2>1, OperatorsAssumption DEF Registered, OrNone, ApprovalStatus
    <2>3. QED
      BY <2>1, <2>2 DEF ProfileShown, AreasAt, DocumentsAt
  <1>4. ASSUME NEW name \in {"approve", "suspend", "reinstate", "reject"},
               NEW s \in ApprovalStatus, Decide(p, name, s)
        PROVE  ProfileShown(p)
    <2> DEFINE a == [NoArg EXCEPT !.status = s]
    <2>1. /\ UNCHANGED <<approvalStatus, areas, documents, asked>>
          /\ approvalStatus # None /\ MayDecide(name, s)
          /\ reinstated' = (reinstated \/ name = "reinstate")
          /\ pc[p] = "idle" /\ pc'[p] = "approval" /\ arg'[p] = a
      BY <1>0, <1>4 DEF Decide, Request, GotoWith, profileVars
    <2>2. a.status = s
      BY DEF NoArg
    <2>3. Registered'
      BY <2>1 DEF Registered
    <2>4. name # "reinstate" /\ s = "APPROVED" => documents = Documents
      BY <2>1 DEF MayDecide, NothingMissing
    <2>5. AreasAt(p) => AreasAt(p)'
      BY <2>1 DEF AreasAt
    <2>6. ~reinstated' => ~reinstated /\ name # "reinstate"
      BY <2>1
    <2>7. ~reinstated' /\ DocumentsAt(p) => DocumentsAt(p)'
      BY <2>1, <2>2, <2>4, <2>6 DEF DocumentsAt
    <2>8. QED
      BY <2>3, <2>5, <2>6, <2>7 DEF ProfileShown
  <1>5. QED
    BY <1>1, <1>2, <1>3, <1>4

LEMMA ProfileStepShown ==
    ASSUME ProcsInv, Registered, NEW p \in Clients, ProfileStep(p)
    PROVE  ProfileShown(p)
  <1>0. {"register", "profile", "upload", "document"} \subseteq
            ProfilePCs \ {"register.areas", "profile.areas", "approval"}
    BY DEF ProfilePCs
  <1>1. ASSUME NEW set \in SUBSET Areas, Register(p, set)
        PROVE  ProfileShown(p)
    BY <1>0, <1>1, ProfileStartShown DEF Register
  <1>2. ASSUME NEW set \in SUBSET Areas, NEW size \in OrNone(FleetSizes),
               UpdateProfile(p, set, size)
        PROVE  ProfileShown(p)
    BY <1>0, <1>2, ProfileStartShown DEF UpdateProfile
  <1>3. ASSUME NEW t \in Documents, ConfirmUpload(p, t)
        PROVE  ProfileShown(p)
    BY <1>0, <1>3, ProfileStartShown DEF ConfirmUpload
  <1>4. ASSUME NEW t \in Documents, DeleteDocument(p, t)
        PROVE  ProfileShown(p)
    BY <1>0, <1>4, ProfileStartShown DEF DeleteDocument
  <1>5. CASE RegisterAgain(p) \/ DocumentIsGone(p) \/ WriteProfileUpdate(p)
    <2>1. /\ UNCHANGED <<profileVars, historyVars>>
          /\ pc[p] \in {"register", "document", "profile.update"}
          /\ pc'[p] = "idle" /\ \A q \in Clients : q # p => pc'[q] = pc[q]
      BY <1>5
      DEF RegisterAgain, DocumentIsGone, WriteProfileUpdate, Throw, Return,
          GotoWith, ProcsInv
    <2>2. QED
      BY <2>1
      DEF ProfileShown, Registered, AreasAt, DocumentsAt, profileVars, historyVars
  <1>6. CASE UpdateBankDetails(p)
    BY <1>6
    DEF UpdateBankDetails, Request, ProfileShown, Registered, AreasAt,
        DocumentsAt, historyVars
  <1>7. CASE \/ WriteProfile(p) \/ DeleteAreas(p) \/ CreateAreas(p)
             \/ \E a \in Areas : CreateServiceArea(p, a)
    BY <1>7, AreaStepsShown
  <1>8. CASE \/ WriteDocument(p) \/ WriteDocumentDeleted(p) \/ ResetApproval(p)
             \/ WriteApproval(p)
             \/ \E name \in {"approve", "suspend", "reinstate", "reject"},
                   s \in ApprovalStatus \ {"PENDING"} : Decide(p, name, s)
    BY <1>8, DocumentStepsShown
  <1>9. QED
    BY <1>1, <1>2, <1>3, <1>4, <1>5, <1>6, <1>7, <1>8 DEF ProfileStep

LEMMA InitProfile == Init => ProfileInv
  <1> SUFFICES ASSUME Init PROVE ProfileInv
    OBVIOUS
  <1>1. /\ crashes = 0 /\ areas = asked /\ \A p \in Clients : pc[p] = "idle"
    BY DEF Init
  <1>2. CASE Unregistered
    BY <1>1, <1>2, OperatorsAssumption
    DEF Unregistered, ProfileInv, Registered, AreasInv, DocumentsInv, OrNone
  <1>3. CASE Approved
    BY <1>1, <1>3, OperatorsAssumption
    DEF Approved, ProfileInv, Registered, AreasInv, DocumentsInv, OrNone,
        ApprovalStatus
  <1>4. QED
    BY <1>2, <1>3 DEF Init

LEMMA NextProfile ==
    IInv /\ OneAtATime /\ ProfileInv /\ [Next]_vars => ProfileInv'
  <1> SUFFICES ASSUME IInv, OneAtATime, ProfileInv, [Next]_vars
               PROVE  ProfileInv'
    OBVIOUS
  <1>1. ASSUME NEW p \in Clients, ProfileStep(p) PROVE ProfileInv'
    <2>1. ProcsInv /\ Registered /\ Moves(p, ProfilePCs)
      BY <1>1, ProfileMoves DEF IInv, ProfileInv
    <2>2. ProfileShown(p)
      BY <1>1, <2>1, ProfileStepShown
    <2>3. QED
      BY <2>1, <2>2, ProfileKept DEF ProfileShown
  <1>2. ASSUME NEW p \in Clients, FleetSteps(p) PROVE ProfileInv'
    BY <1>2, FleetKeepsProfile
  <1>3. CASE Crash
    <2>1. crashes \in Nat /\ crashes' = crashes + 1
      BY <1>3 DEF Crash, ProfileInv
    <2>2. crashes' \in Nat /\ crashes' # 0
      BY <2>1
    <2>3. Registered'
      BY <1>3 DEF Crash, Registered, ProfileInv, profileVars
    <2>4. QED
      BY <2>2, <2>3 DEF ProfileInv, AreasInv, DocumentsInv, InOrder
  <1>4. CASE UNCHANGED vars
    BY <1>4
    DEF vars, profileVars, historyVars, boundVars, ProfileInv, Registered,
        AreasInv, DocumentsInv, InOrder
  <1>5. QED
    BY <1>1, <1>2, <1>3, <1>4 DEF Next

\* When the handlers ran one after the other and to their end, and nobody was
\* reinstated, an approved operator has every required document, and the
\* service areas are those that were last asked for: what a removal of a
\* document resets is what an approval asked for, and what an update of the
\* profile deletes it creates again (operators.service.ts:255, :392;
\* admin.service.ts:627).
THEOREM ProfileHoldsAlways == Spec => []ProfileHolds
  <1>1. ProfileInv => ProfileHolds
    <2>1. SUFFICES ASSUME ProfileInv, InOrder, Idle
                   PROVE  /\ areas = asked
                          /\ ~reinstated /\ approvalStatus = "APPROVED" =>
                                documents = Documents
      BY DEF ProfileHolds, ApprovedHasDocuments, AreasAsAsked, InOrder
    <2>2. QED
      BY <2>1 DEF ProfileInv, AreasInv, DocumentsInv, Idle
  <1>2. QED
    BY InitIInv, NextIInv, InitActive, NextActive, InitProfile, NextProfile,
       <1>1, PTL DEF Spec
=============================================================================
