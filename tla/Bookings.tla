------------------------------ MODULE Bookings ------------------------------
(***************************************************************************)
(* Creation of bookings and booking groups, the search for duplicates, the *)
(* capacities of vehicle types, changes, cancellation and refund of a leg, *)
(* and the status of the group.                                            *)
(*                                                                         *)
(* A handler is a sequence of awaits, as in Auction; a step that throws    *)
(* before it writes is left out.  A route stands for a customer and two    *)
(* places; luggage is like passengers and left out.  Jobs, notices and     *)
(* money are in Journey, Notices and Payments.                             *)
(***************************************************************************)
EXTENDS Integers, Sequences, FiniteSets

CONSTANTS
    Clients,       \* concurrent requests
    Requests,      \* the requests that are issued
    Legs,          \* the legs that are asked for: route, pickup time,
                   \* passengers and the number of stops wanted
    Capacities,    \* values of maxPassengers of the vehicle type
    Window,        \* DUPLICATE_DETECTION_WINDOW_MINUTES
    AmendNotice,   \* the 24 hours before which a customer may amend
    Horizon,       \* bound on time
    MaxRequests,   \* bound on the requests
    MaxCrashes,    \* bound on crashes
    None           \* null

ASSUME BookingsAssumption ==
    /\ \A leg \in Legs : {leg.pickup, leg.passengers, leg.wanted} \subseteq Nat
    /\ Capacities \subseteq Nat
    /\ {Window, AmendNotice, Horizon, MaxRequests, MaxCrashes} \subseteq Nat

VARIABLES
    now,
    bookings,      \* the rows of booking, by id
    groups,        \* the rows of bookingGroup, by id
    capacity,      \* vehicleCapacity.maxPassengers
    issued,        \* requests so far
    crashes,
    overlapped,    \* history: a handler ran between two awaits of another
    pc, arg

procVars == <<pc, arg>>
vars == <<now, bookings, groups, capacity, issued, crashes, overlapped,
          procVars>>

Ids == DOMAIN bookings
GroupIds == DOMAIN groups

JourneyType == {"ONE_WAY", "OUTBOUND", "RETURN"}
BookingStatus == {"PENDING_PAYMENT", "PAID", "CANCELLED", "REFUNDED"}
GroupStatus == {"ACTIVE", "PARTIALLY_CANCELLED", "FULLY_CANCELLED", "COMPLETED"}
PC == {"idle", "create", "create.stops", "createReturn", "update", "cancel",
       "refund", "group.read", "group.write"}

\* wanted is history: the stops the request asked for.
Booking == [journeyType : JourneyType, group : Nat, linked : Nat,
            route : {leg.route : leg \in Legs}, pickup : Nat, passengers : Nat,
            stops : Nat, wanted : Nat, status : BookingStatus,
            createdAt : 0 .. Horizon]
Group == [status : GroupStatus, createdAt : 0 .. Horizon]

\* legs: the journey to create, or the changes to write; id: the booking or
\* the group at work; by: whose rule computes the group status.
NoArg == [legs |-> <<>>, id |-> 0, by |-> None, group |-> "ACTIVE"]
Arg == [legs : Seq(Legs), id : Nat, by : {None, "bookings", "admin"},
        group : GroupStatus]

TypeOK ==
    /\ now \in 0 .. Horizon
    /\ bookings \in Seq(Booking)
    /\ groups \in Seq(Group)
    /\ capacity \in Capacities
    /\ issued \in 0 .. MaxRequests
    /\ crashes \in 0 .. MaxCrashes /\ overlapped \in BOOLEAN
    /\ pc \in [Clients -> PC]
    /\ arg \in [Clients -> Arg]

Init ==
    /\ now = 0 /\ bookings = <<>> /\ groups = <<>>
    /\ capacity \in Capacities
    /\ issued = 0 /\ crashes = 0 /\ overlapped = FALSE
    /\ pc = [p \in Clients |-> "idle"] /\ arg = [p \in Clients |-> NoArg]

----------------------------------------------------------------------------
(* Handlers *)

Idle == \A p \in Clients : pc[p] = "idle"

Request(p, name) ==
    /\ name \in Requests
    /\ issued < MaxRequests /\ issued' = issued + 1
    /\ pc[p] = "idle" /\ overlapped' = (overlapped \/ ~Idle)

GotoWith(p, step, a) ==
    /\ pc' = [pc EXCEPT ![p] = step]
    /\ arg' = [arg EXCEPT ![p] = a]
Goto(p, step) == GotoWith(p, step, arg[p])
Return(p) == GotoWith(p, "idle", NoArg)

Start(p, name, step, a) ==
    /\ Request(p, name)
    /\ GotoWith(p, step, a)
    /\ UNCHANGED <<now, bookings, groups, capacity, crashes>>

\* A step that writes nothing but the bookings.
WriteBookings(rows) ==
    /\ bookings' = rows
    /\ UNCHANGED <<now, groups, capacity, issued, crashes, overlapped>>

----------------------------------------------------------------------------
(* Creation *)

\* validateVehicleCapacity, with the capacity found by its type
Fits(leg) == leg.passengers <= capacity

SameJourney(b, leg) ==
    /\ b.status = "PENDING_PAYMENT"
    /\ b.route = leg.route /\ b.pickup = leg.pickup

\* Seeded bug: only bookings created later than the start of the window.
RecentOnly(t) == t > now - Window
Recent(t) == t >= now - Window

FindDuplicateBooking(leg) ==
    {b \in Ids : /\ bookings[b].journeyType = "ONE_WAY"
                 /\ SameJourney(bookings[b], leg)
                 /\ Recent(bookings[b].createdAt)}

\* Only the outbound leg is compared.
FindDuplicateReturnJourney(leg) ==
    {g \in GroupIds :
        /\ groups[g].status = "ACTIVE" /\ Recent(groups[g].createdAt)
        /\ \E b \in Ids : /\ bookings[b].group = g
                          /\ bookings[b].journeyType = "OUTBOUND"
                          /\ SameJourney(bookings[b], leg)}

\* If there is a duplicate it is the answer, and nothing is written.
Create(p, leg) ==
    /\ Fits(leg) /\ FindDuplicateBooking(leg) = {}
    /\ Start(p, "create", "create", [NoArg EXCEPT !.legs = <<leg>>])

NewBooking(leg, type, group, linked, stops) ==
    [journeyType |-> type, group |-> group, linked |-> linked,
     route |-> leg.route, pickup |-> leg.pickup, passengers |-> leg.passengers,
     stops |-> stops, wanted |-> leg.wanted, status |-> "PENDING_PAYMENT",
     createdAt |-> now]

WriteCreate(p) ==
    /\ pc[p] = "create"
    /\ WriteBookings(Append(bookings,
                        NewBooking(arg[p].legs[1], "ONE_WAY", 0, 0, 0)))
    /\ IF arg[p].legs[1].wanted = 0
         THEN Return(p)
         ELSE GotoWith(p, "create.stops",
                       [arg[p] EXCEPT !.id = Len(bookings) + 1])

CreateStops(p) ==
    /\ pc[p] = "create.stops"
    /\ WriteBookings([bookings EXCEPT
                        ![arg[p].id].stops = arg[p].legs[1].wanted])
    /\ Return(p)

CreateReturnJourney(p, out, back) ==
    /\ Fits(out) /\ Fits(back)
    /\ FindDuplicateReturnJourney(out) = {}
    /\ Start(p, "createReturn", "createReturn",
             [NoArg EXCEPT !.legs = <<out, back>>])

\* Seeded bug: the stops of the return leg are written outside the
\* transaction, and are lost if the process stops.
WriteReturnJourneyLosesStops(p) ==
    /\ pc[p] = "createReturn"
    /\ LET g == Len(groups) + 1
           out == Len(bookings) + 1
           legs == arg[p].legs
       IN  /\ groups' = Append(groups, [status |-> "ACTIVE", createdAt |-> now])
           /\ bookings' = bookings \o
                <<NewBooking(legs[1], "OUTBOUND", g, 0, legs[1].wanted),
                  NewBooking(legs[2], "RETURN", g, out, 0)>>
    /\ Return(p)
    /\ UNCHANGED <<now, capacity, issued, crashes, overlapped>>

\* One transaction: the group, both legs and their stops.
WriteReturnJourney(p) ==
    /\ pc[p] = "createReturn"
    /\ LET g == Len(groups) + 1
           out == Len(bookings) + 1
           legs == arg[p].legs
       IN  /\ groups' = Append(groups, [status |-> "ACTIVE", createdAt |-> now])
           /\ bookings' = bookings \o
                <<NewBooking(legs[1], "OUTBOUND", g, 0, legs[1].wanted),
                  NewBooking(legs[2], "RETURN", g, out, legs[2].wanted)>>
    /\ Return(p)
    /\ UNCHANGED <<now, capacity, issued, crashes, overlapped>>

----------------------------------------------------------------------------
(* Changes: by the customer, by an administrator, by Stripe *)

\* The new passenger count is not compared with the capacity.
Update(p, b, byAdmin, leg) ==
    /\ bookings[b].status \in {"PENDING_PAYMENT", "PAID"}
    /\ byAdmin \/ bookings[b].pickup - now >= AmendNotice
    /\ Start(p, "update", "update", [NoArg EXCEPT !.id = b, !.legs = <<leg>>])

WriteUpdate(p) ==
    /\ pc[p] = "update"
    /\ WriteBookings([bookings EXCEPT
            ![arg[p].id].pickup = arg[p].legs[1].pickup,
            ![arg[p].id].passengers = arg[p].legs[1].passengers])
    /\ Return(p)

\* The payment of a booking, see Payments.
Pay(b) ==
    /\ "pay" \in Requests /\ bookings[b].status = "PENDING_PAYMENT"
    /\ bookings' = [bookings EXCEPT ![b].status = "PAID"]
    /\ UNCHANGED <<now, groups, capacity, issued, crashes, overlapped, procVars>>

CancelBooking(p, b) ==
    /\ bookings[b].status \notin {"CANCELLED", "REFUNDED"}
    /\ now < bookings[b].pickup
    /\ Start(p, "cancel", "cancel",
             [NoArg EXCEPT !.id = b, !.by = "bookings"])

RefundBooking(p, b) ==
    /\ bookings[b].status # "REFUNDED"
    /\ Start(p, "refund", "refund", [NoArg EXCEPT !.id = b, !.by = "admin"])

ThenGroupStatus(p) ==
    LET g == bookings[arg[p].id].group
    IN  IF g = 0 THEN Return(p)
        ELSE GotoWith(p, "group.read", [arg[p] EXCEPT !.id = g])

WriteCancelled(p) ==
    /\ pc[p] = "cancel"
    /\ WriteBookings([bookings EXCEPT ![arg[p].id].status = "CANCELLED"])
    /\ ThenGroupStatus(p)

WriteRefunded(p) ==
    /\ pc[p] = "refund"
    /\ WriteBookings([bookings EXCEPT ![arg[p].id].status = "REFUNDED"])
    /\ ThenGroupStatus(p)

LegsOf(g) == {b \in Ids : bookings[b].group = g}
LegStatuses(g) == {bookings[b].status : b \in LegsOf(g)}

\* The customer's service counts cancelled legs, the administrator's also
\* refunded ones.
\* COMPLETED never applies here: no leg of a group is completed in this module.
Ended(by) == IF by = "admin" THEN {"CANCELLED", "REFUNDED"} ELSE {"CANCELLED"}

\* Seeded bug: a group with one leg left counts as cancelled.
StatusOfGroupHasty(g, by) ==
    IF LegStatuses(g) \intersect Ended(by) # {} THEN "FULLY_CANCELLED"
    ELSE "ACTIVE"
StatusOfGroup(g, by) ==
    IF LegStatuses(g) \subseteq Ended(by) THEN "FULLY_CANCELLED"
    ELSE IF LegStatuses(g) \intersect Ended(by) # {} THEN "PARTIALLY_CANCELLED"
    ELSE "ACTIVE"

ReadGroup(p) ==
    /\ pc[p] = "group.read"
    /\ GotoWith(p, "group.write",
            [arg[p] EXCEPT !.group = StatusOfGroup(arg[p].id, arg[p].by)])
    /\ UNCHANGED <<now, bookings, groups, capacity, issued, crashes, overlapped>>

WriteGroup(p) ==
    /\ pc[p] = "group.write"
    /\ groups' = [groups EXCEPT ![arg[p].id].status = arg[p].group]
    /\ Return(p)
    /\ UNCHANGED <<now, bookings, capacity, issued, crashes, overlapped>>

\* vehicleCapacity.update, the only write of an administrator's request
UpdateVehicleCapacity(p, c) ==
    /\ Request(p, "capacity")
    /\ capacity' = c
    /\ UNCHANGED <<now, bookings, groups, crashes, procVars>>

\* One-way bookings and groups, as the customer sees them.
FindCustomerBookingsOrganized ==
    [oneWay |-> {b \in Ids : bookings[b].journeyType = "ONE_WAY"},
     journeys |-> GroupIds]

----------------------------------------------------------------------------
(* The specification *)

\* The process stops; its handlers are gone.
Crash ==
    /\ crashes < MaxCrashes /\ ~Idle
    /\ crashes' = crashes + 1
    /\ pc' = [p \in Clients |-> "idle"] /\ arg' = [p \in Clients |-> NoArg]
    /\ UNCHANGED <<now, bookings, groups, capacity, issued, overlapped>>

Tick ==
    /\ now < Horizon
    /\ now' = now + 1
    /\ UNCHANGED <<bookings, groups, capacity, issued, crashes, overlapped,
                   procVars>>

Step(p) ==
    \/ \E leg \in Legs : Create(p, leg)
    \/ \E out, back \in Legs : CreateReturnJourney(p, out, back)
    \/ \E b \in Ids, byAdmin \in BOOLEAN, leg \in Legs :
            Update(p, b, byAdmin, leg)
    \/ \E b \in Ids : CancelBooking(p, b) \/ RefundBooking(p, b)
    \/ \E c \in Capacities : UpdateVehicleCapacity(p, c)
    \/ WriteCreate(p) \/ CreateStops(p) \/ WriteReturnJourney(p)
    \/ WriteUpdate(p) \/ WriteCancelled(p) \/ WriteRefunded(p)
    \/ ReadGroup(p) \/ WriteGroup(p)

Next ==
    \/ \E p \in Clients : Step(p)
    \/ \E b \in Ids : Pay(b)
    \/ Crash
    \/ Tick

Spec == Init /\ [][Next]_vars

----------------------------------------------------------------------------
(* Properties *)

New == DOMAIN bookings' \ Ids

\* A retried request never books a journey twice while the first booking
\* waits for its payment: no row is added that equals a one-way booking, or
\* the outbound leg of an active group, of the window
\* (bookings.service.ts:784, :821).  Requests that overlap may.
DuplicateAdded ==
    \E n \in New, b \in Ids :
        LET new == bookings'[n] old == bookings[b]
        IN  /\ new.journeyType = old.journeyType
            /\ new.journeyType # "RETURN"
            /\ SameJourney(old, new)
            /\ old.createdAt >= new.createdAt - Window
            /\ old.group = 0 \/ groups[old.group].status = "ACTIVE"
NoDuplicateAdded == [][DuplicateAdded => overlapped']_vars

\* The legs of a group are an outbound and a return leg that is linked to it,
\* with the stops that were asked for, whatever crashes in between; a one-way
\* booking has its stops once its handler is done, unless a crash prevented
\* it (bookings.service.ts:132, :211).
Whole ==
    /\ \A g \in GroupIds : \E out, back \in Ids :
        /\ LegsOf(g) = {out, back}
        /\ bookings[out].journeyType = "OUTBOUND"
        /\ bookings[back].journeyType = "RETURN" /\ bookings[back].linked = out
    /\ \A b \in Ids :
        \/ bookings[b].stops = bookings[b].wanted
        \/ bookings[b].group = 0
           /\ (crashes > 0 \/ \E p \in Clients :
                    pc[p] = "create.stops" /\ arg[p].id = b)

\* A cancelled or refunded leg shows in the status of its group, and a group
\* is fully cancelled only if every leg is, when the handlers ran one after
\* the other and to their end (bookings.service.ts:663,
\* admin.service.ts:1661).
GroupShowsLegs ==
    Idle /\ crashes = 0 /\ ~overlapped =>
        \A g \in GroupIds :
            LET ended == LegStatuses(g) \intersect {"CANCELLED", "REFUNDED"}
            IN  /\ groups[g].status = "ACTIVE" <=> ended = {}
                /\ groups[g].status = "FULLY_CANCELLED"
                        => ended = LegStatuses(g)

\* bookings.service.ts:70, "Returns existing booking if duplicate detected
\* (idempotent)": no two equal bookings wait for payment.  Requests that
\* overlap create two.
BookedOnce == [][~DuplicateAdded]_vars

\* bookings.service.ts:132, "Create stops if provided": a paid booking has
\* the stops that were asked for.  A retry after a crash is answered with the
\* booking without them.
PaidHasStops ==
    \A b \in Ids : bookings[b].status = "PAID" /\ Idle =>
        bookings[b].stops = bookings[b].wanted
=============================================================================
