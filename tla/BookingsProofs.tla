--------------------------- MODULE BookingsProofs ---------------------------
(***************************************************************************)
(* Proofs about Bookings, for any number of clients, requests, journeys,   *)
(* and crashes: types; the rows of a group and the stops of a booking, for *)
(* every interleaving; and, for requests that do not overlap, that nothing *)
(* is booked twice and that a group shows its legs.                        *)
(***************************************************************************)
EXTENDS Bookings, SequenceTheorems, TLAPS

----------------------------------------------------------------------------
(* Lemmas about rows *)

\* What writing one row does.
LEMMA RowWritten ==
    ASSUME NEW R, NEW rows \in Seq(R), NEW i \in DOMAIN rows, NEW r \in R,
           NEW new, new = [rows EXCEPT ![i] = r]
    PROVE  /\ new \in Seq(R) /\ Len(new) = Len(rows)
           /\ DOMAIN new = DOMAIN rows /\ new[i] = r
           /\ \A k \in DOMAIN rows : k # i => new[k] = rows[k]
  <1>1. Len(rows) \in Nat /\ DOMAIN rows = 1 .. Len(rows) /\ rows \in [1 .. Len(rows) -> R]
    BY LenProperties, ElementOfSeq
  <1>2. new \in [1 .. Len(rows) -> R]
    BY <1>1
  <1>3. new \in Seq(R) /\ Len(new) = Len(rows)
    BY <1>1, <1>2, SeqDef, LenProperties
  <1>4. QED BY <1>1, <1>3

\* What adding rows does.
LEMMA RowAdded ==
    ASSUME NEW R, NEW rows \in Seq(R), NEW r \in R,
           NEW new, new = Append(rows, r)
    PROVE  /\ new \in Seq(R) /\ Len(new) = Len(rows) + 1
           /\ DOMAIN new = DOMAIN rows \union {Len(rows) + 1}
           /\ Len(rows) + 1 \notin DOMAIN rows
           /\ new[Len(rows) + 1] = r
           /\ \A k \in DOMAIN rows : new[k] = rows[k]
  <1>1. Len(rows) \in Nat /\ DOMAIN rows = 1 .. Len(rows)
    BY LenProperties
  <1>2. /\ new \in Seq(R) /\ Len(new) = Len(rows) + 1
        /\ \A k \in 1 .. Len(rows) : new[k] = rows[k]
        /\ new[Len(rows) + 1] = r
    BY <1>1, AppendProperties
  <1>3. DOMAIN new = 1 .. Len(rows) + 1
    BY <1>2, LenProperties
  <1>4. QED BY <1>1, <1>2, <1>3

\* The two legs of a return journey are added at once.
LEMMA TwoRowsAdded ==
    ASSUME NEW R, NEW rows \in Seq(R), NEW r1 \in R, NEW r2 \in R,
           NEW new, new = rows \o <<r1, r2>>
    PROVE  /\ new \in Seq(R) /\ Len(new) = Len(rows) + 2
           /\ DOMAIN new = DOMAIN rows \union {Len(rows) + 1, Len(rows) + 2}
           /\ {Len(rows) + 1, Len(rows) + 2} \intersect DOMAIN rows = {}
           /\ new[Len(rows) + 1] = r1 /\ new[Len(rows) + 2] = r2
           /\ \A k \in DOMAIN rows : new[k] = rows[k]
  <1> DEFINE two == <<r1, r2>>
  <1>1. Len(rows) \in Nat /\ DOMAIN rows = 1 .. Len(rows)
    BY LenProperties
  <1>2. two \in Seq(R) /\ Len(two) = 2 /\ two[1] = r1 /\ two[2] = r2
    OBVIOUS
  <1> HIDE DEF two
  <1>3. new = rows \o two
    BY DEF two
  <1>4. /\ new \in Seq(R) /\ Len(new) = Len(rows) + 2
        /\ \A k \in 1 .. Len(rows) + 2 : new[k] = IF k <= Len(rows) THEN rows[k]
                                                 ELSE two[k - Len(rows)]
    BY <1>1, <1>2, <1>3, ConcatProperties
  <1>5. DOMAIN new = 1 .. Len(rows) + 2
    BY <1>4, LenProperties
  <1>6. new[Len(rows) + 1] = two[1] /\ new[Len(rows) + 2] = two[2]
    BY <1>1, <1>4
  <1>7. \A k \in DOMAIN rows : new[k] = rows[k]
    BY <1>1, <1>4
  <1>8. /\ DOMAIN new = DOMAIN rows \union {Len(rows) + 1, Len(rows) + 2}
        /\ {Len(rows) + 1, Len(rows) + 2} \intersect DOMAIN rows = {}
    BY <1>1, <1>5
  <1>9. QED BY <1>2, <1>4, <1>6, <1>7, <1>8

USE DEF Ids, GroupIds

\* What never changes in the row of a booking.
Identity(b) == <<b.journeyType, b.group, b.linked, b.wanted, b.createdAt>>

\* What the writes of one booking change, and what they leave alone.
LEMMA StatusWritten ==
    ASSUME TypeOK, NEW i \in Ids, NEW s \in BookingStatus,
           bookings' = [bookings EXCEPT ![i].status = s]
    PROVE  /\ bookings' \in Seq(Booking) /\ Len(bookings') = Len(bookings)
           /\ DOMAIN bookings' = Ids
           /\ \A b \in Ids : /\ Identity(bookings'[b]) = Identity(bookings[b])
                             /\ bookings'[b].stops = bookings[b].stops
                             /\ bookings'[b].status = IF b = i THEN s
                                                      ELSE bookings[b].status
                             /\ b # i => bookings'[b] = bookings[b]
  <1> DEFINE r == [bookings[i] EXCEPT !.status = s]
  <1>1. bookings \in Seq(Booking)
    BY DEF TypeOK
  <1>2. bookings[i] \in Booking
    BY <1>1, ElementOfSeq, LenProperties
  <1>3. /\ r \in Booking /\ Identity(r) = Identity(bookings[i])
        /\ r.stops = bookings[i].stops /\ r.status = s
    BY <1>2 DEF Booking, Identity
  <1>4. bookings' = [bookings EXCEPT ![i] = r]
    OBVIOUS
  <1> HIDE DEF r
  <1>5. /\ bookings' \in Seq(Booking) /\ Len(bookings') = Len(bookings)
        /\ DOMAIN bookings' = Ids /\ bookings'[i] = r
        /\ \A k \in Ids : k # i => bookings'[k] = bookings[k]
    BY <1>1, <1>3, <1>4, RowWritten
  <1>6. QED BY <1>3, <1>5

\* The same for the stops of a one-way booking.
LEMMA StopsWritten ==
    ASSUME TypeOK, NEW i \in Ids, NEW n \in Nat,
           bookings' = [bookings EXCEPT ![i].stops = n]
    PROVE  /\ bookings' \in Seq(Booking) /\ Len(bookings') = Len(bookings)
           /\ DOMAIN bookings' = Ids
           /\ \A b \in Ids : /\ Identity(bookings'[b]) = Identity(bookings[b])
                             /\ bookings'[b].status = bookings[b].status
                             /\ bookings'[b].stops = IF b = i THEN n
                                                     ELSE bookings[b].stops
  <1> DEFINE r == [bookings[i] EXCEPT !.stops = n]
  <1>1. bookings \in Seq(Booking)
    BY DEF TypeOK
  <1>2. bookings[i] \in Booking
    BY <1>1, ElementOfSeq, LenProperties
  <1>3. /\ r \in Booking /\ Identity(r) = Identity(bookings[i])
        /\ r.status = bookings[i].status /\ r.stops = n
    BY <1>2 DEF Booking, Identity
  <1>4. bookings' = [bookings EXCEPT ![i] = r]
    OBVIOUS
  <1> HIDE DEF r
  <1>5. /\ bookings' \in Seq(Booking) /\ Len(bookings') = Len(bookings)
        /\ DOMAIN bookings' = Ids /\ bookings'[i] = r
        /\ \A k \in Ids : k # i => bookings'[k] = bookings[k]
    BY <1>1, <1>3, <1>4, RowWritten
  <1>6. QED BY <1>3, <1>5

\* The same for the changes of a customer or an administrator.
LEMMA DetailsWritten ==
    ASSUME TypeOK, NEW i \in Ids, NEW n \in Nat, NEW m \in Nat,
           NEW r, r = [[bookings[i] EXCEPT !.pickup = n] EXCEPT !.passengers = m],
           bookings' = [bookings EXCEPT ![i] = r]
    PROVE  /\ bookings' \in Seq(Booking) /\ Len(bookings') = Len(bookings)
           /\ DOMAIN bookings' = Ids
           /\ \A b \in Ids : /\ Identity(bookings'[b]) = Identity(bookings[b])
                             /\ bookings'[b].status = bookings[b].status
                             /\ bookings'[b].stops = bookings[b].stops
  <1> DEFINE r1 == [bookings[i] EXCEPT !.pickup = n]
  <1>1. bookings \in Seq(Booking)
    BY DEF TypeOK
  <1>2. bookings[i] \in Booking
    BY <1>1, ElementOfSeq, LenProperties
  <1>3. /\ r1 \in Booking /\ Identity(r1) = Identity(bookings[i])
        /\ r1.status = bookings[i].status /\ r1.stops = bookings[i].stops
    BY <1>2 DEF Booking, Identity
  <1>4. r = [r1 EXCEPT !.passengers = m]
    OBVIOUS
  <1> HIDE DEF r1
  <1>5. /\ r \in Booking /\ Identity(r) = Identity(bookings[i])
        /\ r.status = bookings[i].status /\ r.stops = bookings[i].stops
    BY <1>3, <1>4 DEF Booking, Identity
  <1>6. /\ bookings' \in Seq(Booking) /\ Len(bookings') = Len(bookings)
        /\ DOMAIN bookings' = Ids /\ bookings'[i] = r
        /\ \A k \in Ids : k # i => bookings'[k] = bookings[k]
    BY <1>1, <1>5, RowWritten
  <1>7. QED BY <1>5, <1>6

\* The same for the status of a group.
LEMMA GroupWritten ==
    ASSUME TypeOK, NEW i \in GroupIds, NEW s \in GroupStatus,
           groups' = [groups EXCEPT ![i].status = s]
    PROVE  /\ groups' \in Seq(Group) /\ Len(groups') = Len(groups)
           /\ DOMAIN groups' = GroupIds
           /\ \A g \in GroupIds : /\ groups'[g].createdAt = groups[g].createdAt
                                  /\ groups'[g].status = IF g = i THEN s
                                                         ELSE groups[g].status
  <1> DEFINE r == [groups[i] EXCEPT !.status = s]
  <1>1. groups \in Seq(Group)
    BY DEF TypeOK
  <1>2. groups[i] \in Group
    BY <1>1, ElementOfSeq, LenProperties
  <1>3. r \in Group /\ r.createdAt = groups[i].createdAt /\ r.status = s
    BY <1>2 DEF Group
  <1>4. groups' = [groups EXCEPT ![i] = r]
    OBVIOUS
  <1> HIDE DEF r
  <1>5. /\ groups' \in Seq(Group) /\ Len(groups') = Len(groups)
        /\ DOMAIN groups' = GroupIds /\ groups'[i] = r
        /\ \A k \in GroupIds : k # i => groups'[k] = groups[k]
    BY <1>1, <1>3, <1>4, RowWritten
  <1>6. QED BY <1>3, <1>5

\* A new row.
LEMMA NewBookingType ==
    ASSUME TypeOK, NEW leg \in Legs, NEW type \in JourneyType, NEW g \in Nat,
           NEW linked \in Nat, NEW stops \in Nat,
           NEW b, b = NewBooking(leg, type, g, linked, stops)
    PROVE  /\ b \in Booking
           /\ b.journeyType = type /\ b.group = g /\ b.linked = linked
           /\ b.route = leg.route /\ b.pickup = leg.pickup
           /\ b.stops = stops /\ b.wanted = leg.wanted /\ b.createdAt = now
           /\ b.status = "PENDING_PAYMENT"
  <1>1. leg.pickup \in Nat /\ leg.passengers \in Nat /\ leg.wanted \in Nat
    BY BookingsAssumption DEF BookingsAssumption
  <1>2. now \in 0 .. Horizon
    BY DEF TypeOK
  <1>3. leg.route \in {l.route : l \in Legs}
    OBVIOUS
  <1>4. QED BY <1>1, <1>2, <1>3 DEF NewBooking, Booking, BookingStatus

----------------------------------------------------------------------------
(* Lemmas about handlers *)

\* Changing one field of what a handler holds leaves the others alone.
LEMMA ArgFields ==
    ASSUME NEW a \in Arg
    PROVE  /\ \A l \in Seq(Legs) : LET c == [a EXCEPT !.legs = l] IN
                 c \in Arg /\ c.legs = l /\ c.id = a.id /\ c.by = a.by
                 /\ c.group = a.group
           /\ \A i \in Nat : LET c == [a EXCEPT !.id = i] IN
                 c \in Arg /\ c.legs = a.legs /\ c.id = i /\ c.by = a.by
                 /\ c.group = a.group
           /\ \A w \in {None, "bookings", "admin"} : LET c == [a EXCEPT !.by = w] IN
                 c \in Arg /\ c.legs = a.legs /\ c.id = a.id /\ c.by = w
                 /\ c.group = a.group
           /\ \A s \in GroupStatus : LET c == [a EXCEPT !.group = s] IN
                 c \in Arg /\ c.legs = a.legs /\ c.id = a.id /\ c.by = a.by
                 /\ c.group = s
  BY DEF Arg

\* An idle handler holds nothing.
LEMMA NoArgType == NoArg \in Arg
  BY DEF NoArg, Arg, GroupStatus

\* A step to another place moves only the handler that takes it.
LEMMA GotoType ==
    ASSUME TypeOK, NEW p \in Clients, NEW step \in PC, NEW a \in Arg,
           GotoWith(p, step, a)
    PROVE  /\ pc' \in [Clients -> PC] /\ arg' \in [Clients -> Arg]
           /\ pc'[p] = step /\ arg'[p] = a
           /\ \A q \in Clients : q # p => pc'[q] = pc[q] /\ arg'[q] = arg[q]
  <1>1. pc \in [Clients -> PC] /\ arg \in [Clients -> Arg]
    BY DEF TypeOK
  <1>2. pc' = [pc EXCEPT ![p] = step] /\ arg' = [arg EXCEPT ![p] = a]
    BY DEF GotoWith
  <1>3. QED BY <1>1, <1>2

\* The same for a handler that ends.
LEMMA ReturnType ==
    ASSUME TypeOK, NEW p \in Clients, Return(p)
    PROVE  /\ pc' \in [Clients -> PC] /\ arg' \in [Clients -> Arg]
           /\ pc'[p] = "idle"
           /\ \A q \in Clients : q # p => pc'[q] = pc[q] /\ arg'[q] = arg[q]
  <1>1. GotoWith(p, "idle", NoArg) /\ "idle" \in PC
    BY DEF Return, PC
  <1>2. QED BY <1>1, NoArgType, GotoType

\* A request that becomes a handler counts as overlapping if another runs.
LEMMA StartType ==
    ASSUME TypeOK, NEW p \in Clients, NEW name, NEW step \in PC, NEW a \in Arg,
           Start(p, name, step, a)
    PROVE  /\ TypeOK'
           /\ pc[p] = "idle" /\ pc'[p] = step /\ arg'[p] = a
           /\ \A q \in Clients : q # p => pc'[q] = pc[q] /\ arg'[q] = arg[q]
           /\ ~overlapped' => ~overlapped /\ Idle
           /\ UNCHANGED <<now, bookings, groups, crashes>>
  <1>1. /\ pc[p] = "idle" /\ issued < MaxRequests /\ issued' = issued + 1
        /\ overlapped' = (overlapped \/ ~Idle)
        /\ GotoWith(p, step, a)
        /\ UNCHANGED <<now, bookings, groups, capacity, crashes>>
    BY DEF Start, Request
  <1>2. /\ pc' \in [Clients -> PC] /\ arg' \in [Clients -> Arg]
        /\ pc'[p] = step /\ arg'[p] = a
        /\ \A q \in Clients : q # p => pc'[q] = pc[q] /\ arg'[q] = arg[q]
    BY <1>1, GotoType
  <1>3. issued' \in 0 .. MaxRequests
    BY <1>1, BookingsAssumption DEF TypeOK, BookingsAssumption
  <1>4. overlapped' \in BOOLEAN
    BY <1>1
  <1>5. TypeOK'
    BY <1>1, <1>2, <1>3, <1>4 DEF TypeOK
  <1>6. ~overlapped' => ~overlapped /\ Idle
    BY <1>1
  <1>7. QED BY <1>1, <1>2, <1>5, <1>6

----------------------------------------------------------------------------
(* The rows of a group and the stops of a booking *)

\* What a handler relies on between its awaits: the legs it was asked for and
\* the row it works on.
HandlerOK(p) ==
    /\ pc[p] \in {"create", "create.stops", "update"} => Len(arg[p].legs) = 1
    /\ pc[p] = "createReturn" => Len(arg[p].legs) = 2
    /\ pc[p] \in {"create.stops", "update", "cancel", "refund"} => arg[p].id \in Ids
    /\ pc[p] = "create.stops" => arg[p].legs[1].wanted = bookings[arg[p].id].wanted
    /\ pc[p] \in {"group.read", "group.write"} => arg[p].id \in GroupIds

HandlersOK == \A p \in Clients : HandlerOK(p)

\* A booking belongs to a group that exists, or to none; an outbound leg was
\* written together with its group.
RowsOK ==
    \A b \in Ids :
        /\ bookings[b].group \in 0 .. Len(groups)
        /\ bookings[b].journeyType = "OUTBOUND" =>
              /\ bookings[b].group # 0
              /\ groups[bookings[b].group].createdAt = bookings[b].createdAt

Pair(g, out, back) ==
    /\ LegsOf(g) = {out, back}
    /\ bookings[out].journeyType = "OUTBOUND"
    /\ bookings[back].journeyType = "RETURN" /\ bookings[back].linked = out

PairsOK == \A g \in GroupIds : \E out, back \in Ids : Pair(g, out, back)

\* Only the stops of a one-way booking are written after its row.
Stopping(b) == \E p \in Clients : pc[p] = "create.stops" /\ arg[p].id = b

StopsOK ==
    \A b \in Ids :
        \/ bookings[b].stops = bookings[b].wanted
        \/ bookings[b].group = 0 /\ (crashes > 0 \/ Stopping(b))

BookingsInv == TypeOK /\ HandlersOK /\ RowsOK /\ PairsOK /\ StopsOK

\* A step that adds no row and leaves the identity of the rows alone keeps
\* what the rows say of each other.
LEMMA RowsRewritten ==
    ASSUME BookingsInv,
           DOMAIN bookings' = Ids, DOMAIN groups' = GroupIds,
           Len(groups') = Len(groups),
           \A b \in Ids : Identity(bookings'[b]) = Identity(bookings[b]),
           \A g \in GroupIds : groups'[g].createdAt = groups[g].createdAt
    PROVE  RowsOK' /\ PairsOK'
  <1>0. RowsOK /\ PairsOK
    BY DEF BookingsInv
  <1>1. ASSUME NEW b \in Ids
        PROVE  /\ bookings'[b].journeyType = bookings[b].journeyType
               /\ bookings'[b].group = bookings[b].group
               /\ bookings'[b].linked = bookings[b].linked
               /\ bookings'[b].wanted = bookings[b].wanted
               /\ bookings'[b].createdAt = bookings[b].createdAt
    BY DEF Identity
  <1>2. RowsOK'
    <2>1. TypeOK
      BY DEF BookingsInv
    <2>2. Len(groups) \in Nat /\ GroupIds = 1 .. Len(groups)
      BY <2>1, LenProperties DEF TypeOK
    <2> SUFFICES ASSUME NEW b \in Ids
                 PROVE  /\ bookings'[b].group \in 0 .. Len(groups)
                        /\ bookings'[b].journeyType = "OUTBOUND" =>
                              /\ bookings'[b].group # 0
                              /\ groups'[bookings'[b].group].createdAt
                                    = bookings'[b].createdAt
      BY DEF RowsOK
    <2>3. /\ bookings[b].group \in 0 .. Len(groups)
          /\ bookings[b].journeyType = "OUTBOUND" =>
                /\ bookings[b].group # 0
                /\ groups[bookings[b].group].createdAt = bookings[b].createdAt
      BY <1>0 DEF RowsOK
    <2>4. bookings[b].group # 0 => bookings[b].group \in GroupIds
      BY <2>2, <2>3
    <2>5. QED BY <1>1, <2>3, <2>4
  <1>3. PairsOK'
    <2> SUFFICES ASSUME NEW g \in GroupIds
                 PROVE  \E out, back \in Ids : Pair(g, out, back)'
      BY DEF PairsOK
    <2>1. PICK out \in Ids, back \in Ids : Pair(g, out, back)
      BY <1>0 DEF PairsOK
    <2>2. LegsOf(g)' = LegsOf(g)
      BY <1>1 DEF LegsOf
    <2>3. Pair(g, out, back)'
      BY <1>1, <2>1, <2>2 DEF Pair
    <2>4. QED BY <2>3
  <1>4. QED BY <1>2, <1>3

\* The same when no handler moves and no stops are written.
LEMMA Unmoved ==
    ASSUME BookingsInv, TypeOK', UNCHANGED procVars,
           DOMAIN bookings' = Ids, UNCHANGED <<groups, crashes>>,
           \A b \in Ids : Identity(bookings'[b]) = Identity(bookings[b]),
           \A b \in Ids : bookings'[b].stops = bookings[b].stops
    PROVE  BookingsInv'
  <1>0. HandlersOK /\ StopsOK /\ pc' = pc /\ arg' = arg
    BY DEF BookingsInv, procVars
  <1>1. ASSUME NEW b \in Ids
        PROVE  /\ bookings'[b].journeyType = bookings[b].journeyType
               /\ bookings'[b].group = bookings[b].group
               /\ bookings'[b].linked = bookings[b].linked
               /\ bookings'[b].wanted = bookings[b].wanted
               /\ bookings'[b].createdAt = bookings[b].createdAt
    BY DEF Identity
  <1>2. HandlersOK'
    <2> SUFFICES ASSUME NEW q \in Clients PROVE HandlerOK(q)'
      BY DEF HandlersOK
    <2>1. HandlerOK(q)
      BY <1>0 DEF HandlersOK
    <2>2. QED BY <1>0, <1>1, <2>1 DEF HandlerOK
  <1>3. RowsOK' /\ PairsOK'
    BY RowsRewritten
  <1>4. StopsOK'
    BY <1>0, <1>1 DEF StopsOK, Stopping
  <1>5. QED BY <1>2, <1>3, <1>4 DEF BookingsInv

\* A step of one handler that adds no row keeps the invariant, if it leaves
\* the identity of the rows alone and writes stops as they were asked for.
LEMMA Rewritten ==
    ASSUME BookingsInv, NEW p \in Clients,
           DOMAIN bookings' = Ids, DOMAIN groups' = GroupIds,
           Len(groups') = Len(groups),
           \A b \in Ids : Identity(bookings'[b]) = Identity(bookings[b]),
           \A b \in Ids : \/ bookings'[b].stops = bookings[b].stops
                          \/ bookings'[b].stops = bookings[b].wanted,
           \A g \in GroupIds : groups'[g].createdAt = groups[g].createdAt,
           pc[p] = "create.stops" =>
               bookings'[arg[p].id].stops = bookings[arg[p].id].wanted,
           \A q \in Clients : q # p => pc'[q] = pc[q] /\ arg'[q] = arg[q],
           HandlerOK(p)', crashes' = crashes
    PROVE  HandlersOK' /\ RowsOK' /\ PairsOK' /\ StopsOK'
  <1>0. HandlersOK /\ RowsOK /\ PairsOK /\ StopsOK
    BY DEF BookingsInv
  <1>1. ASSUME NEW b \in Ids
        PROVE  /\ bookings'[b].journeyType = bookings[b].journeyType
               /\ bookings'[b].group = bookings[b].group
               /\ bookings'[b].linked = bookings[b].linked
               /\ bookings'[b].wanted = bookings[b].wanted
               /\ bookings'[b].createdAt = bookings[b].createdAt
    BY DEF Identity
  <1>2. HandlersOK'
    <2> SUFFICES ASSUME NEW q \in Clients, q # p PROVE HandlerOK(q)'
      BY DEF HandlersOK
    <2>1. HandlerOK(q) /\ pc'[q] = pc[q] /\ arg'[q] = arg[q]
      BY <1>0 DEF HandlersOK
    <2>2. QED BY <1>1, <2>1 DEF HandlerOK
  <1>3. RowsOK' /\ PairsOK'
    BY RowsRewritten
  <1>5. StopsOK'
    <2> SUFFICES ASSUME NEW b \in Ids
                 PROVE  \/ bookings'[b].stops = bookings'[b].wanted
                        \/ bookings'[b].group = 0
                           /\ (crashes' > 0 \/ Stopping(b)')
      BY DEF StopsOK
    <2>1. CASE bookings[b].stops = bookings[b].wanted
      BY <1>1, <2>1
    <2>2. CASE bookings[b].group = 0 /\ crashes > 0
      BY <1>1, <2>2
    <2>3. ASSUME bookings[b].group = 0, NEW q \in Clients,
                 pc[q] = "create.stops", arg[q].id = b
          PROVE  \/ bookings'[b].stops = bookings'[b].wanted
                 \/ bookings'[b].group = 0 /\ Stopping(b)'
      <3>1. CASE q = p
        BY <1>1, <2>3, <3>1
      <3>2. CASE q # p
        BY <1>1, <2>3, <3>2 DEF Stopping
      <3>3. QED BY <3>1, <3>2
    <2>4. QED BY <1>0, <2>1, <2>2, <2>3 DEF StopsOK, Stopping
  <1>6. QED BY <1>2, <1>3, <1>5

\* What a request holds when it starts.
LEMMA StartedArg ==
    /\ \A leg \in Legs : LET a == [NoArg EXCEPT !.legs = <<leg>>] IN
          a \in Arg /\ Len(a.legs) = 1 /\ a.legs[1] = leg
    /\ \A i \in Nat : \A leg \in Legs :
          LET a == [NoArg EXCEPT !.id = i, !.legs = <<leg>>] IN
          a \in Arg /\ Len(a.legs) = 1 /\ a.id = i
    /\ \A i \in Nat : \A w \in {"bookings", "admin"} :
          LET a == [NoArg EXCEPT !.id = i, !.by = w] IN
          a \in Arg /\ a.id = i /\ a.by = w
  <1>1. NoArg \in Arg
    BY NoArgType
  <1>2. ASSUME NEW leg \in Legs
        PROVE  <<leg>> \in Seq(Legs) /\ Len(<<leg>>) = 1 /\ <<leg>>[1] = leg
    OBVIOUS
  <1>4. \A leg \in Legs : LET a == [NoArg EXCEPT !.legs = <<leg>>] IN
          a \in Arg /\ Len(a.legs) = 1 /\ a.legs[1] = leg
    BY <1>2 DEF NoArg, Arg, GroupStatus
  <1>6. ASSUME NEW i \in Nat, NEW leg \in Legs
        PROVE  LET a == [NoArg EXCEPT !.id = i, !.legs = <<leg>>] IN
               a \in Arg /\ Len(a.legs) = 1 /\ a.id = i
    BY <1>2 DEF NoArg, Arg, GroupStatus
  <1>7. ASSUME NEW i \in Nat, NEW w \in {"bookings", "admin"}
        PROVE  LET a == [NoArg EXCEPT !.id = i, !.by = w] IN
               a \in Arg /\ a.id = i /\ a.by = w
    <2> DEFINE c == [NoArg EXCEPT !.id = i]
               a == [c EXCEPT !.by = w]
    <2>1. c = [legs |-> <<>>, id |-> i, by |-> None, group |-> "ACTIVE"]
      BY DEF NoArg
    <2>2. <<>> \in Seq(Legs)
      OBVIOUS
    <2> HIDE DEF c
    <2>3. a \in Arg /\ a.id = i /\ a.by = w
      BY <2>1, <2>2 DEF Arg, GroupStatus
    <2>4. QED BY <2>3 DEF c
  <1>8. QED BY <1>4, <1>6, <1>7

\* A request starts: it writes nothing and relies on what it was asked for.
LEMMA StartKeeps ==
    ASSUME BookingsInv, NEW p \in Clients, NEW name, NEW step \in PC, NEW a \in Arg,
           Start(p, name, step, a), HandlerOK(p)'
    PROVE  BookingsInv'
  <1>1. TypeOK
    BY DEF BookingsInv
  <1>2. /\ TypeOK' /\ pc[p] = "idle" /\ UNCHANGED <<bookings, groups, crashes>>
        /\ \A q \in Clients : q # p => pc'[q] = pc[q] /\ arg'[q] = arg[q]
    BY <1>1, StartType
  <1>3. HandlersOK' /\ RowsOK' /\ PairsOK' /\ StopsOK'
    BY <1>2, Rewritten
  <1>4. QED BY <1>2, <1>3 DEF BookingsInv

\* A booking's id is a natural number.
LEMMA IdsNat ==
    ASSUME TypeOK
    PROVE  /\ Len(bookings) \in Nat /\ Ids = 1 .. Len(bookings) /\ Ids \subseteq Nat
           /\ Len(groups) \in Nat /\ GroupIds = 1 .. Len(groups)
           /\ \A b \in Ids : bookings[b] \in Booking
           /\ \A g \in GroupIds : groups[g] \in Group
  <1>1. bookings \in Seq(Booking) /\ groups \in Seq(Group)
    BY DEF TypeOK
  <1>2. /\ Len(bookings) \in Nat /\ Ids = 1 .. Len(bookings)
        /\ Len(groups) \in Nat /\ GroupIds = 1 .. Len(groups)
    BY <1>1, LenProperties
  <1>3. QED BY <1>1, <1>2, ElementOfSeq

\* Every request begins with what its handler will rely on.
LEMMA RequestKeeps ==
    ASSUME BookingsInv, NEW p \in Clients,
           \/ \E leg \in Legs : Create(p, leg)
           \/ \E out, back \in Legs : CreateReturnJourney(p, out, back)
           \/ \E b \in Ids, byAdmin \in BOOLEAN, leg \in Legs :
                 Update(p, b, byAdmin, leg)
           \/ \E b \in Ids : CancelBooking(p, b) \/ RefundBooking(p, b)
    PROVE  BookingsInv'
  <1>0. TypeOK /\ Ids \subseteq Nat
    BY IdsNat DEF BookingsInv
  <1>p. {"create", "createReturn", "update", "cancel", "refund"} \subseteq PC
    BY DEF PC
  <1>1. ASSUME NEW leg \in Legs, Create(p, leg) PROVE BookingsInv'
    <2> DEFINE a == [NoArg EXCEPT !.legs = <<leg>>]
    <2>1. a \in Arg /\ Len(a.legs) = 1
      BY StartedArg
    <2>2. Start(p, "create", "create", a)
      BY <1>1 DEF Create
    <2> HIDE DEF a
    <2>3. pc'[p] = "create" /\ arg'[p] = a
      BY <1>0, <1>p, <2>1, <2>2, StartType
    <2>4. HandlerOK(p)'
      BY <2>1, <2>3 DEF HandlerOK
    <2>5. QED BY <1>p, <2>1, <2>2, <2>4, StartKeeps
  <1>2. ASSUME NEW out \in Legs, NEW back \in Legs, CreateReturnJourney(p, out, back)
        PROVE  BookingsInv'
    <2> DEFINE legs == <<out, back>>
               a == [NoArg EXCEPT !.legs = legs]
    <2>0. legs \in Seq(Legs) /\ Len(legs) = 2
      OBVIOUS
    <2>1. a \in Arg /\ Len(a.legs) = 2
      <3> HIDE DEF legs
      <3>1. QED BY <2>0 DEF NoArg, Arg, GroupStatus
    <2>2. Start(p, "createReturn", "createReturn", a)
      BY <1>2 DEF CreateReturnJourney
    <2> HIDE DEF a
    <2>3. pc'[p] = "createReturn" /\ arg'[p] = a
      BY <1>0, <1>p, <2>1, <2>2, StartType
    <2>4. HandlerOK(p)'
      BY <2>1, <2>3 DEF HandlerOK
    <2>5. QED BY <1>p, <2>1, <2>2, <2>4, StartKeeps
  <1>3. ASSUME NEW b \in Ids, NEW byAdmin \in BOOLEAN, NEW leg \in Legs,
               Update(p, b, byAdmin, leg)
        PROVE  BookingsInv'
    <2> DEFINE a == [NoArg EXCEPT !.id = b, !.legs = <<leg>>]
    <2>1. a \in Arg /\ Len(a.legs) = 1 /\ a.id = b
      BY <1>0, StartedArg
    <2>2. Start(p, "update", "update", a)
      BY <1>3 DEF Update
    <2> HIDE DEF a
    <2>3. pc'[p] = "update" /\ arg'[p] = a /\ bookings' = bookings
      BY <1>0, <1>p, <2>1, <2>2, StartType
    <2>4. HandlerOK(p)'
      BY <2>1, <2>3 DEF HandlerOK
    <2>5. QED BY <1>p, <2>1, <2>2, <2>4, StartKeeps
  <1>4. ASSUME NEW b \in Ids, CancelBooking(p, b)
        PROVE  BookingsInv'
    <2> DEFINE a == [NoArg EXCEPT !.id = b, !.by = "bookings"]
    <2>1. a \in Arg /\ a.id = b
      BY <1>0, StartedArg
    <2>2. Start(p, "cancel", "cancel", a)
      BY <1>4 DEF CancelBooking
    <2> HIDE DEF a
    <2>3. pc'[p] = "cancel" /\ arg'[p] = a /\ bookings' = bookings
      BY <1>0, <1>p, <2>1, <2>2, StartType
    <2>4. HandlerOK(p)'
      BY <2>1, <2>3 DEF HandlerOK
    <2>5. QED BY <1>p, <2>1, <2>2, <2>4, StartKeeps
  <1>5. ASSUME NEW b \in Ids, RefundBooking(p, b)
        PROVE  BookingsInv'
    <2> DEFINE a == [NoArg EXCEPT !.id = b, !.by = "admin"]
    <2>1. a \in Arg /\ a.id = b
      BY <1>0, StartedArg
    <2>2. Start(p, "refund", "refund", a)
      BY <1>5 DEF RefundBooking
    <2> HIDE DEF a
    <2>3. pc'[p] = "refund" /\ arg'[p] = a /\ bookings' = bookings
      BY <1>0, <1>p, <2>1, <2>2, StartType
    <2>4. HandlerOK(p)'
      BY <2>1, <2>3 DEF HandlerOK
    <2>5. QED BY <1>p, <2>1, <2>2, <2>4, StartKeeps
  <1>6. QED BY <1>1, <1>2, <1>3, <1>4, <1>5

\* After the status of a leg its handler turns to the group, if there is one.
LEMMA ThenGroupType ==
    ASSUME BookingsInv, NEW p \in Clients, arg[p].id \in Ids, ThenGroupStatus(p)
    PROVE  /\ pc' \in [Clients -> PC] /\ arg' \in [Clients -> Arg]
           /\ \A q \in Clients : q # p => pc'[q] = pc[q] /\ arg'[q] = arg[q]
           /\ LET g == bookings[arg[p].id].group IN
              \/ g = 0 /\ pc'[p] = "idle"
              \/ /\ g \in GroupIds /\ pc'[p] = "group.read"
                 /\ arg'[p].id = g /\ arg'[p].by = arg[p].by
  <1> DEFINE g == bookings[arg[p].id].group
             a == [arg[p] EXCEPT !.id = g]
  <1>1. TypeOK /\ g \in 0 .. Len(groups) /\ arg[p] \in Arg
    BY DEF BookingsInv, RowsOK, TypeOK
  <1>2. Len(groups) \in Nat /\ GroupIds = 1 .. Len(groups)
    BY <1>1, IdsNat
  <1>3. CASE g = 0
    <2>1. Return(p)
      BY <1>3 DEF ThenGroupStatus
    <2>2. QED BY <1>1, <1>3, <2>1, ReturnType
  <1>4. CASE g # 0
    <2>0. g \in Nat
      BY <1>1, <1>2
    <2>1. GotoWith(p, "group.read", a)
      BY <1>4 DEF ThenGroupStatus
    <2>2. a \in Arg /\ a.id = g /\ a.by = arg[p].by
      <3> HIDE DEF g
      <3>1. QED BY <1>1, <2>0 DEF Arg
    <2>3. g \in GroupIds
      BY <1>1, <1>2, <1>4
    <2>4. "group.read" \in PC
      BY DEF PC
    <2> HIDE DEF a
    <2>5. QED BY <1>1, <2>1, <2>2, <2>3, <2>4, GotoType
  <1>5. QED BY <1>3, <1>4

\* The writes of one existing row.
LEMMA WriteKeeps ==
    ASSUME BookingsInv, NEW p \in Clients,
           \/ CreateStops(p) \/ WriteUpdate(p)
           \/ WriteCancelled(p) \/ WriteRefunded(p)
    PROVE  BookingsInv'
  <1>0. TypeOK /\ HandlerOK(p) /\ arg[p] \in Arg /\ Ids \subseteq Nat
    BY IdsNat DEF BookingsInv, HandlersOK, TypeOK
  <1>l. ASSUME Len(arg[p].legs) = 1 PROVE arg[p].legs[1] \in Legs
    BY <1>0, <1>l, ElementOfSeq DEF Arg
  <1>n. ASSUME NEW leg \in Legs
        PROVE  leg.pickup \in Nat /\ leg.passengers \in Nat /\ leg.wanted \in Nat
    BY BookingsAssumption DEF BookingsAssumption
  <1>1. CASE CreateStops(p)
    <2> DEFINE i == arg[p].id  n == arg[p].legs[1].wanted
    <2>1. /\ pc[p] = "create.stops" /\ Return(p)
          /\ bookings' = [bookings EXCEPT ![i].stops = n]
          /\ UNCHANGED <<now, groups, capacity, issued, crashes, overlapped>>
      BY <1>1 DEF CreateStops, WriteBookings
    <2>2. i \in Ids /\ n \in Nat /\ n = bookings[i].wanted
      BY <1>0, <1>l, <1>n, <2>1 DEF HandlerOK
    <2> HIDE DEF i, n
    <2>3. /\ bookings' \in Seq(Booking) /\ Len(bookings') = Len(bookings)
          /\ DOMAIN bookings' = Ids
          /\ \A b \in Ids : /\ Identity(bookings'[b]) = Identity(bookings[b])
                            /\ bookings'[b].status = bookings[b].status
                            /\ bookings'[b].stops = IF b = i THEN n
                                                    ELSE bookings[b].stops
      BY <1>0, <2>1, <2>2, StopsWritten
    <2>4. /\ pc' \in [Clients -> PC] /\ arg' \in [Clients -> Arg] /\ pc'[p] = "idle"
          /\ \A q \in Clients : q # p => pc'[q] = pc[q] /\ arg'[q] = arg[q]
      BY <1>0, <2>1, ReturnType
    <2>5. TypeOK'
      BY <1>0, <2>1, <2>3, <2>4 DEF TypeOK
    <2>6. HandlerOK(p)'
      BY <2>4 DEF HandlerOK
    <2>7. \A b \in Ids : \/ bookings'[b].stops = bookings[b].stops
                         \/ bookings'[b].stops = bookings[b].wanted
      BY <2>2, <2>3
    <2>8. bookings'[arg[p].id].stops = bookings[arg[p].id].wanted
      BY <2>2, <2>3 DEF i
    <2>9. HandlersOK' /\ RowsOK' /\ PairsOK' /\ StopsOK'
      BY <2>1, <2>3, <2>4, <2>6, <2>7, <2>8, Rewritten
    <2>10. QED BY <2>5, <2>9 DEF BookingsInv
  <1>2. CASE WriteUpdate(p)
    <2> DEFINE i == arg[p].id  n == arg[p].legs[1].pickup
               m == arg[p].legs[1].passengers
               r == [[bookings[i] EXCEPT !.pickup = n] EXCEPT !.passengers = m]
    <2>1. /\ pc[p] = "update" /\ Return(p)
          /\ bookings' = [bookings EXCEPT ![i].pickup = n, ![i].passengers = m]
          /\ UNCHANGED <<now, groups, capacity, issued, crashes, overlapped>>
      BY <1>2 DEF WriteUpdate, WriteBookings
    <2>2. i \in Ids /\ n \in Nat /\ m \in Nat
      BY <1>0, <1>l, <1>n, <2>1 DEF HandlerOK
    <2> HIDE DEF i, n, m
    <2>a. bookings' = [bookings EXCEPT ![i] = r]
      BY <2>1
    <2> HIDE DEF r
    <2>b. r = [[bookings[i] EXCEPT !.pickup = n] EXCEPT !.passengers = m]
      BY DEF r
    <2>3. /\ bookings' \in Seq(Booking) /\ Len(bookings') = Len(bookings)
          /\ DOMAIN bookings' = Ids
          /\ \A b \in Ids : /\ Identity(bookings'[b]) = Identity(bookings[b])
                            /\ bookings'[b].status = bookings[b].status
                            /\ bookings'[b].stops = bookings[b].stops
      BY <1>0, <2>a, <2>b, <2>2, DetailsWritten
    <2>4. /\ pc' \in [Clients -> PC] /\ arg' \in [Clients -> Arg] /\ pc'[p] = "idle"
          /\ \A q \in Clients : q # p => pc'[q] = pc[q] /\ arg'[q] = arg[q]
      BY <1>0, <2>1, ReturnType
    <2>5. TypeOK'
      BY <1>0, <2>1, <2>3, <2>4 DEF TypeOK
    <2>6. HandlerOK(p)'
      BY <2>4 DEF HandlerOK
    <2>7. HandlersOK' /\ RowsOK' /\ PairsOK' /\ StopsOK'
      BY <2>1, <2>3, <2>4, <2>6, Rewritten
    <2>8. QED BY <2>5, <2>7 DEF BookingsInv
  <1>3. ASSUME NEW s \in {"CANCELLED", "REFUNDED"}, pc[p] \in {"cancel", "refund"},
               WriteBookings([bookings EXCEPT ![arg[p].id].status = s]),
               ThenGroupStatus(p)
        PROVE  BookingsInv'
    <2> DEFINE i == arg[p].id
    <2>1. /\ bookings' = [bookings EXCEPT ![i].status = s]
          /\ UNCHANGED <<now, groups, capacity, issued, crashes, overlapped>>
      BY <1>3 DEF WriteBookings
    <2>2. i \in Ids /\ s \in BookingStatus
      BY <1>0, <1>3 DEF HandlerOK, BookingStatus
    <2>3. /\ bookings' \in Seq(Booking) /\ Len(bookings') = Len(bookings)
          /\ DOMAIN bookings' = Ids
          /\ \A b \in Ids : /\ Identity(bookings'[b]) = Identity(bookings[b])
                            /\ bookings'[b].stops = bookings[b].stops
      <3> HIDE DEF i
      <3>1. QED BY <1>0, <2>1, <2>2, StatusWritten
    <2>4. /\ pc' \in [Clients -> PC] /\ arg' \in [Clients -> Arg]
          /\ \A q \in Clients : q # p => pc'[q] = pc[q] /\ arg'[q] = arg[q]
          /\ \/ pc'[p] = "idle"
             \/ pc'[p] = "group.read" /\ arg'[p].id \in GroupIds
      BY <1>3, <2>2, ThenGroupType
    <2>5. TypeOK'
      BY <1>0, <2>1, <2>3, <2>4 DEF TypeOK
    <2>6. HandlerOK(p)'
      BY <2>1, <2>4 DEF HandlerOK
    <2>7. HandlersOK' /\ RowsOK' /\ PairsOK' /\ StopsOK'
      BY <1>3, <2>1, <2>3, <2>4, <2>6, Rewritten
    <2>8. QED BY <2>5, <2>7 DEF BookingsInv
  <1>4. CASE WriteCancelled(p)
    BY <1>4, <1>3 DEF WriteCancelled
  <1>5. CASE WriteRefunded(p)
    BY <1>5, <1>3 DEF WriteRefunded
  <1>6. QED BY <1>1, <1>2, <1>4, <1>5

\* What adding rows leaves as it was.
LEMMA OldRowsKept ==
    ASSUME BookingsInv, NEW p \in Clients, pc[p] # "create.stops",
           Ids \subseteq DOMAIN bookings', \A b \in Ids : bookings'[b] = bookings[b],
           GroupIds \subseteq DOMAIN groups', \A g \in GroupIds : groups'[g] = groups[g],
           \A q \in Clients : q # p => pc'[q] = pc[q] /\ arg'[q] = arg[q],
           HandlerOK(p)', crashes' = crashes
    PROVE  /\ HandlersOK'
           /\ \A b \in Ids :
                 /\ bookings'[b].group = 0 \/ bookings'[b].group \in GroupIds
                 /\ bookings'[b].journeyType = "OUTBOUND" =>
                       /\ bookings'[b].group # 0
                       /\ groups'[bookings'[b].group].createdAt
                             = bookings'[b].createdAt
                 /\ \/ bookings'[b].stops = bookings'[b].wanted
                    \/ bookings'[b].group = 0 /\ (crashes' > 0 \/ Stopping(b)')
  <1>0. HandlersOK /\ RowsOK /\ StopsOK /\ TypeOK
    BY DEF BookingsInv
  <1>1. HandlersOK'
    <2> SUFFICES ASSUME NEW q \in Clients, q # p PROVE HandlerOK(q)'
      BY DEF HandlersOK
    <2>1. HandlerOK(q) /\ pc'[q] = pc[q] /\ arg'[q] = arg[q]
      BY <1>0 DEF HandlersOK
    <2>2. QED BY <2>1 DEF HandlerOK
  <1>2. Len(groups) \in Nat /\ GroupIds = 1 .. Len(groups)
    BY <1>0, IdsNat
  <1>3. ASSUME NEW b \in Ids
        PROVE  /\ bookings[b].group = 0 \/ bookings[b].group \in GroupIds
               /\ bookings[b].journeyType = "OUTBOUND" =>
                     /\ bookings[b].group # 0
                     /\ groups'[bookings[b].group].createdAt = bookings[b].createdAt
    <2>1. /\ bookings[b].group \in 0 .. Len(groups)
          /\ bookings[b].journeyType = "OUTBOUND" =>
                /\ bookings[b].group # 0
                /\ groups[bookings[b].group].createdAt = bookings[b].createdAt
      BY <1>0 DEF RowsOK
    <2>2. bookings[b].group = 0 \/ bookings[b].group \in GroupIds
      BY <1>2, <2>1
    <2>3. QED BY <2>1, <2>2
  <1>4. ASSUME NEW b \in Ids
        PROVE  \/ bookings[b].stops = bookings[b].wanted
               \/ bookings[b].group = 0 /\ (crashes' > 0 \/ Stopping(b)')
    <2>1. \/ bookings[b].stops = bookings[b].wanted
          \/ bookings[b].group = 0 /\ (crashes > 0 \/ Stopping(b))
      BY <1>0 DEF StopsOK
    <2>2. Stopping(b) => Stopping(b)'
      BY DEF Stopping
    <2>3. QED BY <2>1, <2>2
  <1>5. QED BY <1>1, <1>3, <1>4

\* What the creation of a booking adds.
CreateAdded(p, leg, n) ==
    /\ leg = arg[p].legs[1] /\ leg.wanted \in Nat
    /\ Len(arg[p].legs) = 1 /\ n = Len(bookings) + 1
    /\ bookings' \in Seq(Booking) /\ DOMAIN bookings' = Ids \union {n}
    /\ \A b \in Ids : bookings'[b] = bookings[b]
    /\ bookings'[n].group = 0 /\ bookings'[n].journeyType = "ONE_WAY"
    /\ bookings'[n].route = leg.route /\ bookings'[n].pickup = leg.pickup
    /\ bookings'[n].stops = 0 /\ bookings'[n].wanted = leg.wanted
    /\ bookings'[n].createdAt = now

\* The handler was asked for one leg, which becomes the new row.
LEMMA CreateAdds ==
    ASSUME BookingsInv, NEW p \in Clients, WriteCreate(p)
    PROVE  \E leg \in Legs, n \in Nat \ Ids : CreateAdded(p, leg, n)
  <1> DEFINE leg == arg[p].legs[1]  n == Len(bookings) + 1
             r == NewBooking(leg, "ONE_WAY", 0, 0, 0)
  <1>0. TypeOK /\ HandlerOK(p) /\ arg[p] \in Arg
    BY DEF BookingsInv, HandlersOK, TypeOK
  <1>1. pc[p] = "create" /\ bookings' = Append(bookings, r)
    BY DEF WriteCreate, WriteBookings
  <1>2. Len(arg[p].legs) = 1 /\ leg \in Legs /\ leg.wanted \in Nat
    <2>1. Len(arg[p].legs) = 1
      BY <1>0, <1>1 DEF HandlerOK
    <2>2. leg \in Legs
      BY <1>0, <2>1, ElementOfSeq DEF Arg
    <2>3. QED BY <2>1, <2>2, BookingsAssumption DEF BookingsAssumption
  <1>3. /\ r \in Booking /\ r.group = 0 /\ r.journeyType = "ONE_WAY"
        /\ r.route = leg.route /\ r.pickup = leg.pickup
        /\ r.stops = 0 /\ r.wanted = leg.wanted /\ r.createdAt = now
    BY <1>0, <1>2, NewBookingType DEF JourneyType
  <1>4. Len(bookings) \in Nat /\ bookings \in Seq(Booking)
    BY <1>0, IdsNat DEF TypeOK
  <1> HIDE DEF r
  <1>5. /\ bookings' \in Seq(Booking) /\ DOMAIN bookings' = Ids \union {n}
        /\ n \notin Ids /\ bookings'[n] = r
        /\ \A b \in Ids : bookings'[b] = bookings[b]
    BY <1>1, <1>3, <1>4, RowAdded
  <1>6. n \in Nat
    BY <1>4
  <1>7. CreateAdded(p, leg, n)
    BY <1>2, <1>3, <1>5 DEF CreateAdded
  <1>8. QED BY <1>2, <1>5, <1>6, <1>7

\* A one-way booking: its row now, its stops at the handler's next step.
LEMMA CreateKeeps ==
    ASSUME BookingsInv, NEW p \in Clients, WriteCreate(p)
    PROVE  BookingsInv'
  <1>0. TypeOK /\ HandlerOK(p) /\ PairsOK /\ arg[p] \in Arg
    BY DEF BookingsInv, HandlersOK, TypeOK
  <1>1. PICK leg \in Legs, n \in Nat \ Ids : CreateAdded(p, leg, n)
    BY CreateAdds
  <1>2. /\ pc[p] = "create"
        /\ UNCHANGED <<now, groups, capacity, issued, crashes, overlapped>>
        /\ IF leg.wanted = 0 THEN Return(p)
           ELSE GotoWith(p, "create.stops", [arg[p] EXCEPT !.id = n])
    BY <1>1 DEF WriteCreate, WriteBookings, CreateAdded
  <1>3. GroupIds = 1 .. Len(groups) /\ Len(groups) \in Nat
    BY <1>0, IdsNat
  <1>4. /\ pc' \in [Clients -> PC] /\ arg' \in [Clients -> Arg]
        /\ \A q \in Clients : q # p => pc'[q] = pc[q] /\ arg'[q] = arg[q]
        /\ \/ leg.wanted = 0 /\ pc'[p] = "idle"
           \/ pc'[p] = "create.stops" /\ arg'[p].id = n /\ arg'[p].legs = arg[p].legs
    <2>1. CASE leg.wanted = 0
      BY <1>0, <1>2, <2>1, ReturnType
    <2>2. CASE leg.wanted # 0
      <3> DEFINE a == [arg[p] EXCEPT !.id = n]
      <3>1. a \in Arg /\ a.id = n /\ a.legs = arg[p].legs
        BY <1>0 DEF Arg
      <3>2. GotoWith(p, "create.stops", a) /\ "create.stops" \in PC
        BY <1>2, <2>2 DEF PC
      <3> HIDE DEF a
      <3>3. QED BY <1>0, <3>1, <3>2, GotoType
    <2>3. QED BY <2>1, <2>2
  <1>5. TypeOK'
    BY <1>0, <1>2, <1>1, <1>4 DEF TypeOK, CreateAdded
  <1>6. HandlerOK(p)'
    BY <1>1, <1>4 DEF HandlerOK, CreateAdded
  <1>7. /\ HandlersOK'
        /\ \A b \in Ids :
              /\ bookings'[b].group = 0 \/ bookings'[b].group \in GroupIds
              /\ bookings'[b].journeyType = "OUTBOUND" =>
                    /\ bookings'[b].group # 0
                    /\ groups'[bookings'[b].group].createdAt = bookings'[b].createdAt
              /\ \/ bookings'[b].stops = bookings'[b].wanted
                 \/ bookings'[b].group = 0 /\ (crashes' > 0 \/ Stopping(b)')
    <2>1. DOMAIN groups' = GroupIds /\ \A g \in GroupIds : groups'[g] = groups[g]
      BY <1>2
    <2>2. Ids \subseteq DOMAIN bookings' /\ pc[p] # "create.stops"
      BY <1>2, <1>1 DEF CreateAdded
    <2>3. QED BY <1>2, <1>1, <1>4, <1>6, <2>1, <2>2, OldRowsKept DEF CreateAdded
  <1>8. RowsOK'
    <2> SUFFICES ASSUME NEW b \in DOMAIN bookings'
                 PROVE  /\ bookings'[b].group \in 0 .. Len(groups')
                        /\ bookings'[b].journeyType = "OUTBOUND" =>
                              /\ bookings'[b].group # 0
                              /\ groups'[bookings'[b].group].createdAt
                                    = bookings'[b].createdAt
      BY DEF RowsOK
    <2>1. CASE b \in Ids
      BY <1>2, <1>3, <1>7, <2>1
    <2>2. CASE b = n
      BY <1>2, <1>1, <1>3, <2>2 DEF CreateAdded
    <2>3. QED BY <1>1, <2>1, <2>2 DEF CreateAdded
  <1>9. PairsOK'
    <2> SUFFICES ASSUME NEW g \in GroupIds
                 PROVE  \E out, back \in DOMAIN bookings' : Pair(g, out, back)'
      BY <1>2 DEF PairsOK
    <2>1. PICK out \in Ids, back \in Ids : Pair(g, out, back)
      BY <1>0 DEF PairsOK
    <2>2. LegsOf(g)' = LegsOf(g)
      <3>1. g # 0
        BY <1>3
      <3>2. QED BY <1>1, <3>1 DEF LegsOf, CreateAdded
    <2>3. Pair(g, out, back)'
      BY <1>1, <2>1, <2>2 DEF Pair, CreateAdded
    <2>4. QED BY <1>1, <2>3 DEF CreateAdded
  <1>10. StopsOK'
    <2> SUFFICES ASSUME NEW b \in DOMAIN bookings'
                 PROVE  \/ bookings'[b].stops = bookings'[b].wanted
                        \/ bookings'[b].group = 0 /\ (crashes' > 0 \/ Stopping(b)')
      BY DEF StopsOK
    <2>1. CASE b \in Ids
      BY <1>7, <2>1
    <2>2. CASE b = n
      BY <1>1, <1>4, <2>2 DEF Stopping, CreateAdded
    <2>3. QED BY <1>1, <2>1, <2>2 DEF CreateAdded
  <1>11. QED BY <1>5, <1>7, <1>8, <1>9, <1>10 DEF BookingsInv, CreateAdded

\* What the creation of a return journey adds.
ReturnJourneyAdded(p, l1, out, back, g) ==
    /\ l1 = arg[p].legs[1] /\ Len(groups') = Len(groups) + 1
    /\ bookings' \in Seq(Booking) /\ DOMAIN bookings' = Ids \union {out, back}
    /\ out # back /\ \A b \in Ids : bookings'[b] = bookings[b]
    /\ bookings'[out].journeyType = "OUTBOUND" /\ bookings'[out].group = g
    /\ bookings'[out].route = l1.route /\ bookings'[out].pickup = l1.pickup
    /\ bookings'[out].stops = bookings'[out].wanted
    /\ bookings'[out].createdAt = now
    /\ bookings'[out].status = "PENDING_PAYMENT"
    /\ bookings'[back].journeyType = "RETURN" /\ bookings'[back].group = g
    /\ bookings'[back].linked = out
    /\ bookings'[back].stops = bookings'[back].wanted
    /\ bookings'[back].status = "PENDING_PAYMENT"
    /\ groups' \in Seq(Group) /\ DOMAIN groups' = GroupIds \union {g}
    /\ g = Len(groups')
    /\ \A k \in GroupIds : groups'[k] = groups[k]
    /\ groups'[g] = [status |-> "ACTIVE", createdAt |-> now]

\* The handler was asked for two legs; the id of the first links the second.
LEMMA ReturnJourneyAdds ==
    ASSUME BookingsInv, NEW p \in Clients, WriteReturnJourney(p)
    PROVE  \E l1 \in Legs, out, back \in Nat \ Ids, g \in (Nat \ {0}) \ GroupIds :
              ReturnJourneyAdded(p, l1, out, back, g)
  <1> DEFINE out == Len(bookings) + 1  back == Len(bookings) + 2
             g == Len(groups) + 1
             l1 == arg[p].legs[1]  l2 == arg[p].legs[2]
             r1 == NewBooking(l1, "OUTBOUND", g, 0, l1.wanted)
             r2 == NewBooking(l2, "RETURN", g, out, l2.wanted)
             s == [status |-> "ACTIVE", createdAt |-> now]
  <1>0. TypeOK /\ HandlerOK(p) /\ arg[p] \in Arg
    BY DEF BookingsInv, HandlersOK, TypeOK
  <1>1. /\ pc[p] = "createReturn"
        /\ groups' = Append(groups, s) /\ bookings' = bookings \o <<r1, r2>>
    BY DEF WriteReturnJourney
  <1>2. l1 \in Legs /\ l2 \in Legs /\ l1.wanted \in Nat /\ l2.wanted \in Nat
    <2>1. Len(arg[p].legs) = 2
      BY <1>0, <1>1 DEF HandlerOK
    <2>2. l1 \in Legs /\ l2 \in Legs
      BY <1>0, <2>1, ElementOfSeq DEF Arg
    <2>3. QED BY <2>1, <2>2, BookingsAssumption DEF BookingsAssumption
  <1>3. /\ Len(bookings) \in Nat /\ bookings \in Seq(Booking)
        /\ Ids = 1 .. Len(bookings) /\ GroupIds = 1 .. Len(groups)
        /\ Len(groups) \in Nat /\ groups \in Seq(Group)
    BY <1>0, IdsNat DEF TypeOK
  <1>4. g \in Nat /\ g # 0 /\ out \in Nat /\ back \in Nat /\ out # back
    BY <1>3
  <1> HIDE DEF l1, l2, g, out, back
  <1>t. "OUTBOUND" \in JourneyType /\ "RETURN" \in JourneyType /\ 0 \in Nat
    BY DEF JourneyType
  <1>5. /\ r1 \in Booking /\ r1.journeyType = "OUTBOUND" /\ r1.group = g
        /\ r1.route = l1.route /\ r1.pickup = l1.pickup /\ r1.status = "PENDING_PAYMENT"
        /\ r1.stops = r1.wanted /\ r1.createdAt = now
    <2> DEFINE w == l1.wanted  row == NewBooking(l1, "OUTBOUND", g, 0, w)
    <2>1. w \in Nat
      BY <1>2
    <2> HIDE DEF w, row
    <2>r. row = NewBooking(l1, "OUTBOUND", g, 0, w)
      BY DEF row
    <2>s. TypeOK /\ l1 \in Legs
      BY <1>0, <1>2
    <2>t. g \in Nat /\ out \in Nat /\ w \in Nat
      BY <1>4, <2>1
    <2>2. /\ row \in Booking /\ row.journeyType = "OUTBOUND" /\ row.group = g
          /\ row.route = l1.route /\ row.pickup = l1.pickup
          /\ row.stops = w /\ row.wanted = l1.wanted /\ row.createdAt = now
          /\ row.status = "PENDING_PAYMENT"
      BY <2>r, <2>s, <2>t, <1>t, NewBookingType
    <2>3. QED BY <2>2 DEF w, row
  <1>6. /\ r2 \in Booking /\ r2.journeyType = "RETURN" /\ r2.group = g
        /\ r2.linked = out /\ r2.stops = r2.wanted /\ r2.status = "PENDING_PAYMENT"
    <2> DEFINE w == l2.wanted  row == NewBooking(l2, "RETURN", g, out, w)
    <2>1. w \in Nat
      BY <1>2
    <2> HIDE DEF w, row
    <2>r. row = NewBooking(l2, "RETURN", g, out, w)
      BY DEF row
    <2>s. TypeOK /\ l2 \in Legs
      BY <1>0, <1>2
    <2>t. g \in Nat /\ out \in Nat /\ w \in Nat
      BY <1>4, <2>1
    <2>2. /\ row \in Booking /\ row.journeyType = "RETURN" /\ row.group = g
          /\ row.linked = out /\ row.stops = w /\ row.wanted = l2.wanted
          /\ row.status = "PENDING_PAYMENT"
      BY <2>r, <2>s, <2>t, <1>t, NewBookingType
    <2>3. QED BY <2>2 DEF w, row
  <1>7. s \in Group /\ s.createdAt = now
    BY <1>0 DEF TypeOK, Group, GroupStatus
  <1> HIDE DEF r1, r2, s
  <1>8. /\ bookings' \in Seq(Booking) /\ DOMAIN bookings' = Ids \union {out, back}
        /\ out \notin Ids /\ back \notin Ids
        /\ bookings'[out] = r1 /\ bookings'[back] = r2
        /\ \A b \in Ids : bookings'[b] = bookings[b]
    <2>1. /\ bookings \in Seq(Booking) /\ r1 \in Booking /\ r2 \in Booking
          /\ bookings' = bookings \o <<r1, r2>>
      BY <1>1, <1>3, <1>5, <1>6
    <2>2. /\ bookings' \in Seq(Booking)
          /\ DOMAIN bookings' = DOMAIN bookings \union {out, back}
          /\ {out, back} \intersect DOMAIN bookings = {}
          /\ bookings'[out] = r1 /\ bookings'[back] = r2
          /\ \A b \in DOMAIN bookings : bookings'[b] = bookings[b]
      BY <2>1, TwoRowsAdded DEF out, back
    <2>3. QED BY <2>2
  <1>9. /\ groups' \in Seq(Group) /\ Len(groups') = Len(groups) + 1 /\ g = Len(groups')
        /\ DOMAIN groups' = GroupIds \union {g}
        /\ g \notin GroupIds /\ groups'[g] = s
        /\ \A k \in GroupIds : groups'[k] = groups[k]
    BY <1>1, <1>3, <1>7, RowAdded DEF g
  <1>10. PICK o \in Nat \ Ids, b \in Nat \ Ids, k \in (Nat \ {0}) \ GroupIds, l \in Legs :
            o = out /\ b = back /\ k = g /\ l = l1
    BY <1>2, <1>4, <1>8, <1>9
  <1>11. /\ l = arg[p].legs[1] /\ o # b
         /\ bookings' \in Seq(Booking) /\ DOMAIN bookings' = Ids \union {o, b}
         /\ \A i \in Ids : bookings'[i] = bookings[i]
         /\ groups' \in Seq(Group) /\ DOMAIN groups' = GroupIds \union {k}
         /\ k = Len(groups') /\ Len(groups') = Len(groups) + 1
         /\ \A i \in GroupIds : groups'[i] = groups[i]
         /\ groups'[k] = [status |-> "ACTIVE", createdAt |-> now]
    BY <1>4, <1>8, <1>9, <1>10 DEF l1, s
  <1>12. /\ bookings'[o].journeyType = "OUTBOUND" /\ bookings'[o].group = k
         /\ bookings'[o].route = l.route /\ bookings'[o].pickup = l.pickup
         /\ bookings'[o].stops = bookings'[o].wanted
         /\ bookings'[o].createdAt = now
         /\ bookings'[o].status = "PENDING_PAYMENT"
    BY <1>5, <1>8, <1>10
  <1>13. /\ bookings'[b].journeyType = "RETURN" /\ bookings'[b].group = k
         /\ bookings'[b].linked = o
         /\ bookings'[b].stops = bookings'[b].wanted
         /\ bookings'[b].status = "PENDING_PAYMENT"
    BY <1>6, <1>8, <1>10
  <1>14. ReturnJourneyAdded(p, l, o, b, k)
    BY <1>11, <1>12, <1>13 DEF ReturnJourneyAdded
  <1>15. QED BY <1>14

\* A return journey: one transaction adds the group, both legs and their stops.
LEMMA ReturnJourneyKeeps ==
    ASSUME BookingsInv, NEW p \in Clients, WriteReturnJourney(p)
    PROVE  BookingsInv'
  <1>0. TypeOK /\ PairsOK
    BY DEF BookingsInv
  <1>1. /\ pc[p] = "createReturn" /\ Return(p)
        /\ UNCHANGED <<now, capacity, issued, crashes, overlapped>>
    BY DEF WriteReturnJourney
  <1>2. PICK l1 \in Legs, out \in Nat \ Ids, back \in Nat \ Ids,
             g \in (Nat \ {0}) \ GroupIds :
           ReturnJourneyAdded(p, l1, out, back, g)
    BY ReturnJourneyAdds
  <1>3. Len(groups) \in Nat /\ GroupIds = 1 .. Len(groups)
    BY <1>0, IdsNat
  <1>4. /\ pc' \in [Clients -> PC] /\ arg' \in [Clients -> Arg] /\ pc'[p] = "idle"
         /\ \A q \in Clients : q # p => pc'[q] = pc[q] /\ arg'[q] = arg[q]
    BY <1>0, <1>1, ReturnType
  <1>5. TypeOK'
    BY <1>0, <1>1, <1>2, <1>4 DEF TypeOK, ReturnJourneyAdded
  <1>6. HandlerOK(p)'
    BY <1>4 DEF HandlerOK
  <1>7. /\ HandlersOK'
         /\ \A b \in Ids :
              /\ bookings'[b].group = 0 \/ bookings'[b].group \in GroupIds
              /\ bookings'[b].journeyType = "OUTBOUND" =>
                    /\ bookings'[b].group # 0
                    /\ groups'[bookings'[b].group].createdAt = bookings'[b].createdAt
              /\ \/ bookings'[b].stops = bookings'[b].wanted
                 \/ bookings'[b].group = 0 /\ (crashes' > 0 \/ Stopping(b)')
    <2>1. GroupIds \subseteq DOMAIN groups' /\ Ids \subseteq DOMAIN bookings'
          /\ pc[p] # "create.stops" /\ crashes' = crashes
      BY <1>1, <1>2 DEF ReturnJourneyAdded
    <2>2. QED BY <1>2, <1>4, <1>6, <2>1, OldRowsKept DEF ReturnJourneyAdded
  <1>8. RowsOK'
    <2> SUFFICES ASSUME NEW b \in DOMAIN bookings'
                 PROVE  /\ bookings'[b].group \in 0 .. Len(groups')
                        /\ bookings'[b].journeyType = "OUTBOUND" =>
                              /\ bookings'[b].group # 0
                              /\ groups'[bookings'[b].group].createdAt
                                    = bookings'[b].createdAt
      BY DEF RowsOK
    <2>1. CASE b \in Ids
      BY <1>3, <1>2, <1>7, <2>1 DEF ReturnJourneyAdded
    <2>2. CASE b = out
      BY <1>3, <1>2, <2>2 DEF ReturnJourneyAdded
    <2>3. CASE b = back
      BY <1>3, <1>2, <2>3 DEF ReturnJourneyAdded
    <2>4. QED BY <1>2, <2>1, <2>2, <2>3 DEF ReturnJourneyAdded
  <1>9. PairsOK'
    <2> SUFFICES ASSUME NEW h \in DOMAIN groups'
                 PROVE  \E o, b \in DOMAIN bookings' : Pair(h, o, b)'
      BY DEF PairsOK
    <2>1. CASE h = g
      <3>1. PICK o \in DOMAIN bookings', b \in DOMAIN bookings' : o = out /\ b = back
        BY <1>2 DEF ReturnJourneyAdded
      <3>2. /\ bookings'[o].group = h /\ bookings'[b].group = h
            /\ bookings'[o].journeyType = "OUTBOUND"
            /\ bookings'[b].journeyType = "RETURN" /\ bookings'[b].linked = o
        BY <1>2, <2>1, <3>1 DEF ReturnJourneyAdded
      <3>3. \A i \in Ids : bookings'[i].group # h
        BY <1>2, <1>7, <2>1 DEF ReturnJourneyAdded
      <3>4. \A i \in DOMAIN bookings' : bookings'[i].group = h <=> i \in {o, b}
        BY <1>2, <3>1, <3>2, <3>3 DEF ReturnJourneyAdded
      <3>5. LegsOf(h)' = {o, b}
        BY <3>4 DEF LegsOf
      <3>6. Pair(h, o, b)'
        BY <3>2, <3>5 DEF Pair
      <3>7. QED BY <3>6
    <2>2. CASE h # g
      <3>0. h \in GroupIds
        BY <1>2, <2>2 DEF ReturnJourneyAdded
      <3>1. PICK o \in Ids, b \in Ids : Pair(h, o, b)
        BY <1>0, <3>0 DEF PairsOK
      <3>2. LegsOf(h)' = LegsOf(h)
        BY <1>2, <2>2 DEF LegsOf, ReturnJourneyAdded
      <3>3. Pair(h, o, b)'
        BY <1>2, <3>1, <3>2 DEF Pair, ReturnJourneyAdded
      <3>4. QED BY <1>2, <3>3 DEF ReturnJourneyAdded
    <2>3. QED BY <2>1, <2>2
  <1>10. StopsOK'
    <2> SUFFICES ASSUME NEW b \in DOMAIN bookings'
                 PROVE  \/ bookings'[b].stops = bookings'[b].wanted
                        \/ bookings'[b].group = 0 /\ (crashes' > 0 \/ Stopping(b)')
      BY DEF StopsOK
    <2>1. CASE b \in Ids
      BY <1>7, <2>1
    <2>2. CASE b = out \/ b = back
      BY <1>2, <2>2 DEF ReturnJourneyAdded
    <2>3. QED BY <1>2, <2>1, <2>2 DEF ReturnJourneyAdded
  <1>11. QED BY <1>5, <1>7, <1>8, <1>9, <1>10 DEF BookingsInv

\* The status of a group: read and computed, then written.
LEMMA StatusOfGroupType ==
    ASSUME NEW g, NEW by PROVE StatusOfGroup(g, by) \in GroupStatus
  BY DEF StatusOfGroup, GroupStatus

\* Reading the legs changes only what the handler holds.
LEMMA ReadGroupKeeps ==
    ASSUME BookingsInv, NEW p \in Clients, ReadGroup(p)
    PROVE  BookingsInv'
  <1> DEFINE st == StatusOfGroup(arg[p].id, arg[p].by)
             a == [arg[p] EXCEPT !.group = st]
  <1>0. TypeOK /\ HandlerOK(p) /\ arg[p] \in Arg
    BY DEF BookingsInv, HandlersOK, TypeOK
  <1>1. /\ pc[p] = "group.read" /\ GotoWith(p, "group.write", a)
        /\ UNCHANGED <<now, bookings, groups, capacity, issued, crashes, overlapped>>
    BY DEF ReadGroup
  <1>2. st \in GroupStatus
    BY StatusOfGroupType
  <1> HIDE DEF st
  <1>3. a \in Arg /\ a.id = arg[p].id
    BY <1>0, <1>2, ArgFields
  <1> HIDE DEF a
  <1>4. "group.write" \in PC
    BY DEF PC
  <1>5. /\ pc' \in [Clients -> PC] /\ arg' \in [Clients -> Arg]
        /\ pc'[p] = "group.write" /\ arg'[p] = a
        /\ \A q \in Clients : q # p => pc'[q] = pc[q] /\ arg'[q] = arg[q]
    BY <1>0, <1>1, <1>3, <1>4, GotoType
  <1>6. TypeOK'
    BY <1>0, <1>1, <1>5 DEF TypeOK
  <1>7. HandlerOK(p)'
    BY <1>0, <1>1, <1>3, <1>5 DEF HandlerOK
  <1>8. HandlersOK' /\ RowsOK' /\ PairsOK' /\ StopsOK'
    BY <1>1, <1>5, <1>7, Rewritten
  <1>9. QED BY <1>6, <1>8 DEF BookingsInv

\* Writing the status of a group leaves its legs alone.
LEMMA WriteGroupKeeps ==
    ASSUME BookingsInv, NEW p \in Clients, WriteGroup(p)
    PROVE  BookingsInv'
  <1> DEFINE i == arg[p].id  st == arg[p].group
  <1>0. TypeOK /\ HandlerOK(p) /\ arg[p] \in Arg
    BY DEF BookingsInv, HandlersOK, TypeOK
  <1>1. /\ pc[p] = "group.write" /\ Return(p)
        /\ groups' = [groups EXCEPT ![i].status = st]
        /\ UNCHANGED <<now, bookings, capacity, issued, crashes, overlapped>>
    BY DEF WriteGroup
  <1>2. i \in GroupIds /\ st \in GroupStatus
    BY <1>0, <1>1 DEF HandlerOK, Arg
  <1> HIDE DEF i, st
  <1>3. /\ groups' \in Seq(Group) /\ Len(groups') = Len(groups)
        /\ DOMAIN groups' = GroupIds
        /\ \A g \in GroupIds : groups'[g].createdAt = groups[g].createdAt
    BY <1>0, <1>1, <1>2, GroupWritten
  <1>4. /\ pc' \in [Clients -> PC] /\ arg' \in [Clients -> Arg] /\ pc'[p] = "idle"
        /\ \A q \in Clients : q # p => pc'[q] = pc[q] /\ arg'[q] = arg[q]
    BY <1>0, <1>1, ReturnType
  <1>5. TypeOK'
    BY <1>0, <1>1, <1>3, <1>4 DEF TypeOK
  <1>6. HandlerOK(p)'
    BY <1>4 DEF HandlerOK
  <1>7. HandlersOK' /\ RowsOK' /\ PairsOK' /\ StopsOK'
    BY <1>1, <1>3, <1>4, <1>6, Rewritten
  <1>8. QED BY <1>5, <1>7 DEF BookingsInv

\* A payment changes nothing but a status.
LEMMA PayKeeps ==
    ASSUME BookingsInv, NEW b \in Ids, Pay(b)
    PROVE  BookingsInv'
  <1>1. /\ bookings' = [bookings EXCEPT ![b].status = "PAID"]
        /\ UNCHANGED <<now, groups, capacity, issued, crashes, overlapped, procVars>>
        /\ TypeOK
    BY DEF Pay, BookingsInv
  <1>2. "PAID" \in BookingStatus
    BY DEF BookingStatus
  <1>3. /\ bookings' \in Seq(Booking) /\ DOMAIN bookings' = Ids
        /\ \A k \in Ids : /\ Identity(bookings'[k]) = Identity(bookings[k])
                          /\ bookings'[k].stops = bookings[k].stops
    BY <1>1, <1>2, StatusWritten
  <1>4. TypeOK'
    BY <1>1, <1>3 DEF TypeOK, procVars
  <1>5. QED BY <1>1, <1>3, <1>4, Unmoved

\* The administrator's write, the clock, and a step that does nothing.
LEMMA OthersKeep ==
    ASSUME BookingsInv,
           \/ \E p \in Clients, c \in Capacities : UpdateVehicleCapacity(p, c)
           \/ Tick
           \/ UNCHANGED vars
    PROVE  BookingsInv'
  <1>1. TypeOK
    BY DEF BookingsInv
  <1>2. UNCHANGED <<bookings, groups, crashes, procVars>>
    BY DEF UpdateVehicleCapacity, Request, Tick, vars
  <1>3. TypeOK'
    <2>1. CASE \E p \in Clients, c \in Capacities : UpdateVehicleCapacity(p, c)
      <3>1. issued' \in 0 .. MaxRequests
        BY <1>1, <2>1, BookingsAssumption
           DEF TypeOK, BookingsAssumption, UpdateVehicleCapacity, Request
      <3>2. capacity' \in Capacities /\ overlapped' \in BOOLEAN /\ now' = now
        BY <2>1 DEF UpdateVehicleCapacity, Request
      <3>3. QED BY <1>1, <1>2, <3>1, <3>2 DEF TypeOK, procVars
    <2>2. CASE Tick
      <3>1. now' \in 0 .. Horizon
        BY <1>1, <2>2, BookingsAssumption DEF TypeOK, BookingsAssumption, Tick
      <3>2. UNCHANGED <<capacity, issued, overlapped>>
        BY <2>2 DEF Tick
      <3>3. QED BY <1>1, <1>2, <3>1, <3>2 DEF TypeOK, procVars
    <2>3. CASE UNCHANGED vars
      BY <1>1, <2>3 DEF TypeOK, vars, procVars
    <2>4. QED BY <2>1, <2>2, <2>3
  <1>4. QED BY <1>2, <1>3, Unmoved

\* A crash: the stops it prevents are excused by the count of crashes.
LEMMA CrashKeeps ==
    ASSUME BookingsInv, Crash
    PROVE  BookingsInv'
  <1>0. TypeOK /\ StopsOK
    BY DEF BookingsInv
  <1>1. /\ crashes < MaxCrashes /\ crashes' = crashes + 1
        /\ pc' = [p \in Clients |-> "idle"] /\ arg' = [p \in Clients |-> NoArg]
        /\ UNCHANGED <<now, bookings, groups, capacity, issued, overlapped>>
    BY DEF Crash
  <1>2. crashes' \in 0 .. MaxCrashes /\ crashes' > 0
    BY <1>0, <1>1, BookingsAssumption DEF TypeOK, BookingsAssumption
  <1>3. TypeOK'
    <2>1. pc' \in [Clients -> PC] /\ arg' \in [Clients -> Arg]
      BY <1>1, NoArgType DEF PC
    <2>2. QED BY <1>0, <1>1, <1>2, <2>1 DEF TypeOK
  <1>4. HandlersOK'
    BY <1>1 DEF HandlersOK, HandlerOK
  <1>5. RowsOK' /\ PairsOK'
    BY <1>1, RowsRewritten
  <1>6. StopsOK'
    BY <1>0, <1>1, <1>2 DEF StopsOK
  <1>7. QED BY <1>3, <1>4, <1>5, <1>6 DEF BookingsInv

\* There are no rows at first.
LEMMA BookingsInvInit == Init => BookingsInv
  <1> SUFFICES ASSUME Init PROVE BookingsInv
    OBVIOUS
  <1>1. /\ bookings = <<>> /\ groups = <<>> /\ DOMAIN bookings = {} /\ DOMAIN groups = {}
    BY DEF Init
  <1>2. TypeOK
    <2>1. pc \in [Clients -> PC] /\ arg \in [Clients -> Arg]
      BY NoArgType DEF Init, PC
    <2>2. now \in 0 .. Horizon /\ issued \in 0 .. MaxRequests /\ crashes \in 0 .. MaxCrashes
      BY BookingsAssumption DEF Init, BookingsAssumption
    <2>3. bookings \in Seq(Booking) /\ groups \in Seq(Group)
      BY <1>1
    <2>4. capacity \in Capacities /\ overlapped \in BOOLEAN
      BY DEF Init
    <2>5. QED BY <2>1, <2>2, <2>3, <2>4 DEF TypeOK
  <1>3. HandlersOK
    BY DEF Init, HandlersOK, HandlerOK
  <1>4. RowsOK /\ PairsOK /\ StopsOK
    BY <1>1 DEF RowsOK, PairsOK, StopsOK
  <1>5. QED BY <1>2, <1>3, <1>4 DEF BookingsInv

\* Every step is one of the above.
LEMMA BookingsInvStep == BookingsInv /\ [Next]_vars => BookingsInv'
  <1> SUFFICES ASSUME BookingsInv, [Next]_vars PROVE BookingsInv'
    OBVIOUS
  <1>1. ASSUME NEW p \in Clients, Step(p) PROVE BookingsInv'
    <2>1. CASE \/ \E leg \in Legs : Create(p, leg)
               \/ \E out, back \in Legs : CreateReturnJourney(p, out, back)
               \/ \E b \in Ids, byAdmin \in BOOLEAN, leg \in Legs :
                     Update(p, b, byAdmin, leg)
               \/ \E b \in Ids : CancelBooking(p, b) \/ RefundBooking(p, b)
      BY <2>1, RequestKeeps
    <2>2. CASE \E c \in Capacities : UpdateVehicleCapacity(p, c)
      BY <2>2, OthersKeep
    <2>3. CASE WriteCreate(p)
      BY <2>3, CreateKeeps
    <2>4. CASE CreateStops(p) \/ WriteUpdate(p) \/ WriteCancelled(p) \/ WriteRefunded(p)
      BY <2>4, WriteKeeps
    <2>5. CASE WriteReturnJourney(p)
      BY <2>5, ReturnJourneyKeeps
    <2>6. CASE ReadGroup(p)
      BY <2>6, ReadGroupKeeps
    <2>7. CASE WriteGroup(p)
      BY <2>7, WriteGroupKeeps
    <2>8. QED BY <1>1, <2>1, <2>2, <2>3, <2>4, <2>5, <2>6, <2>7 DEF Step
  <1>2. CASE \E b \in Ids : Pay(b)
    BY <1>2, PayKeeps
  <1>3. CASE Crash
    BY <1>3, CrashKeeps
  <1>4. CASE Tick \/ UNCHANGED vars
    BY <1>4, OthersKeep
  <1>5. QED BY <1>1, <1>2, <1>3, <1>4 DEF Next

\* The inductive invariant of every interleaving and every crash.
THEOREM BookingsInvHolds == Spec => []BookingsInv
  BY BookingsInvInit, BookingsInvStep, PTL DEF Spec

\* Every row, the capacity and what each handler holds between its awaits
\* keep their types, for any number of clients, requests and journeys.
THEOREM BookingsTypeCorrect == Spec => []TypeOK
  <1>1. BookingsInv => TypeOK
    BY DEF BookingsInv
  <1>2. QED BY <1>1, BookingsInvHolds, PTL

\* Whatever overlaps and whatever crashes, a group has an outbound and a
\* return leg linked to it with the stops that were asked for, and a one-way
\* booking has its stops once its handler is done unless a crash prevented it
\* (bookings.service.ts:132, :211).
THEOREM WholeHolds == Spec => []Whole
  <1>1. BookingsInv => Whole
    <2> SUFFICES ASSUME BookingsInv PROVE Whole
      OBVIOUS
    <2>1. PairsOK /\ StopsOK
      BY DEF BookingsInv
    <2>2. QED BY <2>1 DEF Whole, PairsOK, Pair, StopsOK, Stopping
  <1>2. QED BY <1>1, BookingsInvHolds, PTL

----------------------------------------------------------------------------
(* Handlers that run one after the other *)

Alone == \A p, q \in Clients : pc[p] # "idle" /\ pc[q] # "idle" => p = q

\* What a handler that creates has found still holds when it writes.
Unbooked(p) ==
    pc[p] = "create" =>
        \A b \in Ids : ~ /\ bookings[b].journeyType = "ONE_WAY"
                         /\ SameJourney(bookings[b], arg[p].legs[1])
                         /\ Recent(bookings[b].createdAt)
UnbookedReturn(p) ==
    pc[p] = "createReturn" =>
        \A g \in GroupIds, b \in Ids :
            ~ /\ groups[g].status = "ACTIVE" /\ Recent(groups[g].createdAt)
              /\ bookings[b].group = g
              /\ bookings[b].journeyType = "OUTBOUND"
              /\ SameJourney(bookings[b], arg[p].legs[1])

SequentialOK ==
    ~overlapped => Alone /\ \A p \in Clients : Unbooked(p) /\ UnbookedReturn(p)

Ending == {"CANCELLED", "REFUNDED"}
AnyEnded(g) == \E b \in Ids : bookings[b].group = g /\ bookings[b].status \in Ending
AllEnded(g) == \A b \in Ids : bookings[b].group = g => bookings[b].status \in Ending
Shows(g, s) ==
    /\ s = "ACTIVE" <=> ~AnyEnded(g)
    /\ s = "FULLY_CANCELLED" => AllEnded(g)

GroupShown(g) == Shows(g, groups[g].status)

\* A handler is about to write the status of the group.
Working(g) == \E p \in Clients : pc[p] \in {"group.read", "group.write"} /\ arg[p].id = g

\* The handler ends a leg the way its own rule counts, and what it has
\* computed for the group is what the legs say.
GroupHandlerOK(p) ==
    /\ pc[p] = "cancel" => arg[p].by = "bookings"
    /\ pc[p] = "refund" => arg[p].by = "admin"
    /\ pc[p] = "group.read" =>
          \E b \in Ids :
             /\ bookings[b].group = arg[p].id
             /\ \/ arg[p].by = "bookings" /\ bookings[b].status = "CANCELLED"
                \/ arg[p].by = "admin" /\ bookings[b].status = "REFUNDED"
    /\ pc[p] = "group.write" => Shows(arg[p].id, arg[p].group)

GroupsOK ==
    ~overlapped /\ crashes = 0 =>
        /\ \A g \in GroupIds : Working(g) \/ GroupShown(g)
        /\ \A p \in Clients : GroupHandlerOK(p)

\* The steps by which a handler goes on after its first await.
Continues(p) ==
    \/ WriteCreate(p) \/ CreateStops(p) \/ WriteReturnJourney(p)
    \/ WriteUpdate(p) \/ WriteCancelled(p) \/ WriteRefunded(p)
    \/ ReadGroup(p) \/ WriteGroup(p)

\* Such a step moves its own handler only, and not to a first await.
LEMMA HandlerMoves ==
    ASSUME TypeOK, NEW p \in Clients, Continues(p)
    PROVE  /\ pc[p] # "idle"
           /\ pc'[p] \in {"idle", "create.stops", "group.read", "group.write"}
           /\ \A q \in Clients : q # p => pc'[q] = pc[q] /\ arg'[q] = arg[q]
           /\ UNCHANGED <<now, capacity, crashes, overlapped>>
  <1>1. pc \in [Clients -> PC] /\ arg \in [Clients -> Arg]
    BY DEF TypeOK
  <1>2. ASSUME NEW step, NEW a, GotoWith(p, step, a)
        PROVE  /\ pc'[p] = step
               /\ \A q \in Clients : q # p => pc'[q] = pc[q] /\ arg'[q] = arg[q]
    BY <1>1, <1>2 DEF GotoWith
  <1>3. CASE WriteCreate(p)
    <2>1. pc[p] = "create" /\ UNCHANGED <<now, capacity, crashes, overlapped>>
      BY <1>3 DEF WriteCreate, WriteBookings
    <2>2. CASE arg[p].legs[1].wanted = 0
      <3>1. GotoWith(p, "idle", NoArg)
        BY <1>3, <2>2 DEF WriteCreate, Return
      <3>2. QED BY <1>2, <2>1, <3>1
    <2>3. CASE arg[p].legs[1].wanted # 0
      <3>1. \E a : GotoWith(p, "create.stops", a)
        BY <1>3, <2>3 DEF WriteCreate
      <3>2. QED BY <1>2, <2>1, <3>1
    <2>4. QED BY <2>2, <2>3
  <1>4. CASE CreateStops(p) \/ WriteReturnJourney(p) \/ WriteUpdate(p) \/ WriteGroup(p)
    <2>1. /\ pc[p] # "idle" /\ UNCHANGED <<now, capacity, crashes, overlapped>>
          /\ GotoWith(p, "idle", NoArg)
      BY <1>4 DEF CreateStops, WriteReturnJourney, WriteUpdate, WriteGroup,
                  WriteBookings, Return
    <2>2. QED BY <1>2, <2>1
  <1>5. CASE WriteCancelled(p) \/ WriteRefunded(p)
    <2>1. /\ pc[p] # "idle" /\ UNCHANGED <<now, capacity, crashes, overlapped>>
          /\ ThenGroupStatus(p)
      BY <1>5 DEF WriteCancelled, WriteRefunded, WriteBookings
    <2>2. \E a : GotoWith(p, "idle", a) \/ GotoWith(p, "group.read", a)
      BY <2>1 DEF ThenGroupStatus, Return
    <2>3. QED BY <1>2, <2>1, <2>2
  <1>6. CASE ReadGroup(p)
    <2>1. /\ pc[p] # "idle" /\ UNCHANGED <<now, capacity, crashes, overlapped>>
          /\ \E a : GotoWith(p, "group.write", a)
      BY <1>6 DEF ReadGroup
    <2>2. QED BY <1>2, <2>1
  <1>7. QED BY <1>3, <1>4, <1>5, <1>6 DEF Continues

\* The requests that become a handler.
Begins(p) ==
    \/ \E leg \in Legs : Create(p, leg)
    \/ \E out, back \in Legs : CreateReturnJourney(p, out, back)
    \/ \E b \in Ids, byAdmin \in BOOLEAN, leg \in Legs : Update(p, b, byAdmin, leg)
    \/ \E b \in Ids : CancelBooking(p, b) \/ RefundBooking(p, b)

\* What each of them has found out when its handler comes to its first await.
LEMMA RequestMoves ==
    ASSUME BookingsInv, NEW p \in Clients, Begins(p)
    PROVE  /\ UNCHANGED <<now, bookings, groups, crashes>>
           /\ ~overlapped' => ~overlapped /\ Idle
           /\ \A q \in Clients : q # p => pc'[q] = pc[q] /\ arg'[q] = arg[q]
           /\ pc'[p] \in {"create", "createReturn", "update", "cancel", "refund"}
           /\ Unbooked(p)' /\ UnbookedReturn(p)' /\ GroupHandlerOK(p)'
  <1>0. TypeOK /\ Ids \subseteq Nat
    BY IdsNat DEF BookingsInv
  <1>p. {"create", "createReturn", "update", "cancel", "refund"} \subseteq PC
    BY DEF PC
  <1>1. ASSUME NEW step \in {"create", "createReturn", "update", "cancel", "refund"},
               NEW a \in Arg, NEW name, Start(p, name, step, a)
        PROVE  /\ UNCHANGED <<now, bookings, groups, crashes>>
               /\ ~overlapped' => ~overlapped /\ Idle
               /\ \A q \in Clients : q # p => pc'[q] = pc[q] /\ arg'[q] = arg[q]
               /\ pc'[p] = step /\ arg'[p] = a
    <2>1. step \in PC
      BY <1>p
    <2>2. QED BY <1>0, <1>1, <2>1, StartType
  <1>2. ASSUME NEW leg \in Legs, Create(p, leg)
        PROVE  \E a \in Arg : /\ Start(p, "create", "create", a)
                              /\ Unbooked(p)' /\ pc'[p] = "create"
    <2> DEFINE a == [NoArg EXCEPT !.legs = <<leg>>]
    <2>1. a \in Arg /\ a.legs[1] = leg
      BY StartedArg
    <2>2. Start(p, "create", "create", a) /\ FindDuplicateBooking(leg) = {}
      BY <1>2 DEF Create
    <2> HIDE DEF a
    <2>3. /\ UNCHANGED <<now, bookings, groups, crashes>>
          /\ pc'[p] = "create" /\ arg'[p] = a
      BY <1>1, <2>1, <2>2
    <2>4. \A b \in Ids : ~ /\ bookings[b].journeyType = "ONE_WAY"
                           /\ SameJourney(bookings[b], leg)
                           /\ Recent(bookings[b].createdAt)
      BY <2>2 DEF FindDuplicateBooking
    <2>5. Unbooked(p)'
      BY <2>1, <2>3, <2>4 DEF Unbooked, SameJourney, Recent
    <2>6. QED BY <2>1, <2>2, <2>3, <2>5
  <1>3. ASSUME NEW out \in Legs, NEW back \in Legs, CreateReturnJourney(p, out, back)
        PROVE  \E a \in Arg : /\ Start(p, "createReturn", "createReturn", a)
                              /\ UnbookedReturn(p)' /\ pc'[p] = "createReturn"
    <2> DEFINE legs == <<out, back>>
               a == [NoArg EXCEPT !.legs = legs]
    <2>0. legs \in Seq(Legs) /\ legs[1] = out
      OBVIOUS
    <2>1. a \in Arg /\ a.legs[1] = out
      <3> HIDE DEF legs
      <3>1. QED BY <2>0 DEF NoArg, Arg, GroupStatus
    <2>2. /\ Start(p, "createReturn", "createReturn", a)
          /\ FindDuplicateReturnJourney(out) = {}
      BY <1>3 DEF CreateReturnJourney
    <2> HIDE DEF a
    <2>3. /\ UNCHANGED <<now, bookings, groups, crashes>>
          /\ pc'[p] = "createReturn" /\ arg'[p] = a
      BY <1>1, <2>1, <2>2
    <2>4. \A g \in GroupIds, b \in Ids :
              ~ /\ groups[g].status = "ACTIVE" /\ Recent(groups[g].createdAt)
                /\ bookings[b].group = g
                /\ bookings[b].journeyType = "OUTBOUND"
                /\ SameJourney(bookings[b], out)
      BY <2>2 DEF FindDuplicateReturnJourney
    <2>5. UnbookedReturn(p)'
      BY <2>1, <2>3, <2>4 DEF UnbookedReturn, SameJourney, Recent
    <2>6. QED BY <2>1, <2>2, <2>3, <2>5
  <1>4. ASSUME NEW b \in Ids, NEW byAdmin \in BOOLEAN, NEW leg \in Legs,
               Update(p, b, byAdmin, leg)
        PROVE  \E a \in Arg : Start(p, "update", "update", a) /\ pc'[p] = "update"
    <2> DEFINE a == [NoArg EXCEPT !.id = b, !.legs = <<leg>>]
    <2>1. a \in Arg
      BY <1>0, StartedArg
    <2>2. Start(p, "update", "update", a)
      BY <1>4 DEF Update
    <2> HIDE DEF a
    <2>3. pc'[p] = "update"
      BY <1>1, <2>1, <2>2
    <2>4. QED BY <2>1, <2>2, <2>3
  <1>5. ASSUME NEW b \in Ids, CancelBooking(p, b)
        PROVE  \E a \in Arg : /\ Start(p, "cancel", "cancel", a)
                              /\ pc'[p] = "cancel" /\ arg'[p].by = "bookings"
    <2> DEFINE a == [NoArg EXCEPT !.id = b, !.by = "bookings"]
    <2>1. a \in Arg /\ a.by = "bookings"
      BY <1>0, StartedArg
    <2>2. Start(p, "cancel", "cancel", a)
      BY <1>5 DEF CancelBooking
    <2> HIDE DEF a
    <2>3. pc'[p] = "cancel" /\ arg'[p] = a
      BY <1>1, <2>1, <2>2
    <2>4. QED BY <2>1, <2>2, <2>3
  <1>6. ASSUME NEW b \in Ids, RefundBooking(p, b)
        PROVE  \E a \in Arg : /\ Start(p, "refund", "refund", a)
                              /\ pc'[p] = "refund" /\ arg'[p].by = "admin"
    <2> DEFINE a == [NoArg EXCEPT !.id = b, !.by = "admin"]
    <2>1. a \in Arg /\ a.by = "admin"
      BY <1>0, StartedArg
    <2>2. Start(p, "refund", "refund", a)
      BY <1>6 DEF RefundBooking
    <2> HIDE DEF a
    <2>3. pc'[p] = "refund" /\ arg'[p] = a
      BY <1>1, <2>1, <2>2
    <2>4. QED BY <2>1, <2>2, <2>3
  <1>7. \E step \in {"create", "createReturn", "update", "cancel", "refund"}, a \in Arg :
           \E name : Start(p, name, step, a)
    BY <1>2, <1>3, <1>4, <1>5, <1>6 DEF Begins
  <1>8. /\ pc'[p] \in {"create", "createReturn", "update", "cancel", "refund"}
        /\ Unbooked(p)' /\ UnbookedReturn(p)' /\ GroupHandlerOK(p)'
    BY <1>2, <1>3, <1>4, <1>5, <1>6 DEF Begins, Unbooked, UnbookedReturn, GroupHandlerOK
  <1>9. QED BY <1>1, <1>7, <1>8

\* Before a request that does not overlap every handler is idle, and it is
\* the only one at work afterwards.
LEMMA RequestAlone ==
    ASSUME BookingsInv, NEW p \in Clients, Begins(p), ~overlapped'
    PROVE  /\ ~overlapped /\ Idle /\ Alone'
           /\ \A q \in Clients : q # p => pc'[q] = "idle"
  <1>1. /\ ~overlapped /\ Idle
        /\ \A q \in Clients : q # p => pc'[q] = pc[q]
    BY RequestMoves
  <1>2. \A q \in Clients : q # p => pc'[q] = "idle"
    BY <1>1 DEF Idle
  <1>3. QED BY <1>1, <1>2 DEF Alone

\* A handler that goes on has been alone, and stays so.
LEMMA HandlerAlone ==
    ASSUME TypeOK, SequentialOK, NEW p \in Clients, Continues(p), ~overlapped'
    PROVE  /\ ~overlapped /\ Alone /\ Alone'
           /\ \A q \in Clients : q # p => pc[q] = "idle" /\ pc'[q] = "idle"
  <1>1. /\ pc[p] # "idle" /\ overlapped' = overlapped
        /\ \A q \in Clients : q # p => pc'[q] = pc[q]
    BY HandlerMoves
  <1>2. ~overlapped /\ Alone
    BY <1>1 DEF SequentialOK
  <1>3. \A q \in Clients : q # p => pc[q] = "idle" /\ pc'[q] = "idle"
    BY <1>1, <1>2 DEF Alone
  <1>4. QED BY <1>2, <1>3 DEF Alone

\* A payment takes the booking out of what a duplicate is compared with, and
\* time only moves the window on.
LEMMA SequentialStep == BookingsInv /\ SequentialOK /\ [Next]_vars => SequentialOK'
  <1> SUFFICES ASSUME BookingsInv, SequentialOK, [Next]_vars, ~overlapped'
               PROVE  Alone' /\ \A p \in Clients : Unbooked(p)' /\ UnbookedReturn(p)'
    BY DEF SequentialOK
  <1>0. TypeOK
    BY DEF BookingsInv
  <1>1. ASSUME NEW p \in Clients, Begins(p)
        PROVE  Alone' /\ \A q \in Clients : Unbooked(q)' /\ UnbookedReturn(q)'
    <2>1. Unbooked(p)' /\ UnbookedReturn(p)'
      BY <1>1, RequestMoves
    <2>2. Alone' /\ \A q \in Clients : q # p => pc'[q] = "idle"
      BY <1>1, RequestAlone
    <2>3. QED BY <2>1, <2>2 DEF Unbooked, UnbookedReturn
  <1>2. ASSUME NEW p \in Clients, Continues(p)
        PROVE  Alone' /\ \A q \in Clients : Unbooked(q)' /\ UnbookedReturn(q)'
    <2>1. pc'[p] \in {"idle", "create.stops", "group.read", "group.write"}
      BY <1>0, <1>2, HandlerMoves
    <2>2. Alone' /\ \A q \in Clients : q # p => pc'[q] = "idle"
      BY <1>0, <1>2, HandlerAlone
    <2>3. QED BY <2>1, <2>2 DEF Unbooked, UnbookedReturn
  <1>3. ASSUME UNCHANGED <<bookings, groups, procVars>>, ~overlapped, now' \in {now, now + 1}
        PROVE  Alone' /\ \A q \in Clients : Unbooked(q)' /\ UnbookedReturn(q)'
    <2>1. /\ Alone /\ \A q \in Clients : Unbooked(q) /\ UnbookedReturn(q)
          /\ pc' = pc /\ arg' = arg
      BY <1>3 DEF SequentialOK, procVars
    <2>2. ASSUME NEW t \in Nat, t >= now' - Window PROVE t >= now - Window
      <3>1. now \in Nat /\ Window \in Nat
        BY <1>0, BookingsAssumption DEF TypeOK, BookingsAssumption
      <3>2. now' \in Nat /\ now' >= now
        BY <1>3, <3>1
      <3> DEFINE m == now'  n == now
      <3>3. n \in Nat /\ m \in Nat /\ m >= n /\ t >= m - Window
        BY <2>2, <3>1, <3>2
      <3> HIDE DEF m, n
      <3>4. t >= n - Window
        BY <3>1, <3>3
      <3>5. QED BY <3>4 DEF n
    <2>3. /\ \A b \in Ids : bookings[b].createdAt \in Nat
          /\ \A g \in GroupIds : groups[g].createdAt \in Nat
      <3>1. 0 .. Horizon \subseteq Nat
        BY BookingsAssumption DEF BookingsAssumption
      <3>2. QED BY <1>0, <3>1, IdsNat DEF Booking, Group
    <2>4. /\ \A b \in Ids : Recent(bookings[b].createdAt)' => Recent(bookings[b].createdAt)
          /\ \A g \in GroupIds : Recent(groups[g].createdAt)' => Recent(groups[g].createdAt)
      BY <1>3, <2>2, <2>3 DEF Recent
    <2>5. \A q \in Clients : Unbooked(q)' /\ UnbookedReturn(q)'
      BY <1>3, <2>1, <2>4 DEF Unbooked, UnbookedReturn, SameJourney
    <2>6. Alone'
      BY <2>1 DEF Alone
    <2>7. QED BY <2>5, <2>6
  <1>4. ASSUME NEW p \in Clients, NEW c \in Capacities, UpdateVehicleCapacity(p, c)
        PROVE  Alone' /\ \A q \in Clients : Unbooked(q)' /\ UnbookedReturn(q)'
    <2>1. UNCHANGED <<bookings, groups, procVars, now>> /\ ~overlapped
      BY <1>4 DEF UpdateVehicleCapacity, Request
    <2>2. QED BY <2>1, <1>3
  <1>5. ASSUME NEW i \in Ids, Pay(i)
        PROVE  Alone' /\ \A q \in Clients : Unbooked(q)' /\ UnbookedReturn(q)'
    <2>1. /\ bookings' = [bookings EXCEPT ![i].status = "PAID"]
          /\ UNCHANGED <<now, groups>> /\ pc' = pc /\ arg' = arg /\ ~overlapped
      BY <1>5 DEF Pay, procVars
    <2>2. "PAID" \in BookingStatus
      BY DEF BookingStatus
    <2>p. /\ DOMAIN bookings' = Ids
          /\ \A b \in Ids : /\ bookings'[b].status = IF b = i THEN "PAID"
                                                     ELSE bookings[b].status
                            /\ b # i => bookings'[b] = bookings[b]
      BY <1>0, <2>1, <2>2, StatusWritten
    <2>3. /\ DOMAIN bookings' = Ids /\ bookings'[i].status = "PAID"
          /\ \A b \in Ids : b # i => bookings'[b] = bookings[b]
      BY <2>p
    <2>4. Alone /\ \A q \in Clients : Unbooked(q) /\ UnbookedReturn(q)
      BY <2>1 DEF SequentialOK
    <2>5. ASSUME NEW q \in Clients PROVE Unbooked(q)'
      <3>1. Unbooked(q)
        BY <2>4
      <3>2. QED BY <2>1, <2>3, <3>1 DEF Unbooked, SameJourney, Recent
    <2>6. ASSUME NEW q \in Clients PROVE UnbookedReturn(q)'
      <3>1. UnbookedReturn(q)
        BY <2>4
      <3>2. QED BY <2>1, <2>3, <3>1 DEF UnbookedReturn, SameJourney, Recent
    <2>7. Alone'
      BY <2>1, <2>4 DEF Alone
    <2>8. QED BY <2>5, <2>6, <2>7
  <1>6. CASE Crash
    BY <1>6 DEF Crash, Alone, Unbooked, UnbookedReturn
  <1>7. CASE Tick
    BY <1>3, <1>7 DEF Tick
  <1>8. CASE UNCHANGED vars
    BY <1>3, <1>8 DEF vars
  <1>9. QED
    <2>1. ASSUME NEW p \in Clients, Step(p)
          PROVE  \/ Begins(p) \/ Continues(p)
                 \/ \E c \in Capacities : UpdateVehicleCapacity(p, c)
      BY <2>1 DEF Step, Begins, Continues
    <2>2. QED BY <1>1, <1>2, <1>4, <1>5, <1>6, <1>7, <1>8, <2>1 DEF Next

\* The inductive invariant of handlers that run one after the other.
THEOREM SequentialHolds == Spec => [](BookingsInv /\ SequentialOK)
  <1>1. Init => SequentialOK
    BY DEF Init, SequentialOK, Alone, Unbooked, UnbookedReturn
  <1>2. QED BY <1>1, BookingsInvInit, BookingsInvStep, SequentialStep, PTL DEF Spec

\* Of two requests for the same journey that do not overlap, the second finds
\* what the first has written: no row is added that equals one that waits for
\* its payment (bookings.service.ts:784, :821).
THEOREM NoDuplicateAddedHolds == Spec => NoDuplicateAdded
  <1>1. BookingsInv /\ SequentialOK /\ [Next]_vars
          => [DuplicateAdded => overlapped']_vars
    <2> SUFFICES ASSUME BookingsInv, SequentialOK, [Next]_vars, ~overlapped',
                        NEW n \in New, NEW b \in Ids,
                        bookings'[n].journeyType = bookings[b].journeyType,
                        bookings'[n].journeyType # "RETURN",
                        SameJourney(bookings[b], bookings'[n]),
                        bookings[b].createdAt >= bookings'[n].createdAt - Window,
                        bookings[b].group = 0 \/ groups[bookings[b].group].status = "ACTIVE"
                 PROVE  FALSE
      BY DEF DuplicateAdded
    <2>0. TypeOK /\ RowsOK /\ n \in DOMAIN bookings' /\ n \notin Ids
      BY DEF BookingsInv, New
    <2>1. ASSUME NEW p \in Clients, WriteCreate(p) PROVE FALSE
      <3>1. PICK leg \in Legs, k \in Nat \ Ids : CreateAdded(p, leg, k)
        BY <2>1, CreateAdds
      <3>2. n = k
        BY <2>0, <3>1 DEF CreateAdded
      <3>3. pc[p] = "create" /\ Unbooked(p)
        BY <2>1, <2>0, HandlerMoves DEF WriteCreate, SequentialOK, Continues
      <3>4. SameJourney(bookings[b], leg)
        BY <3>1, <3>2 DEF SameJourney, CreateAdded
      <3>5. Recent(bookings[b].createdAt)
        BY <3>1, <3>2 DEF Recent, CreateAdded
      <3>6. QED BY <3>1, <3>2, <3>3, <3>4, <3>5 DEF Unbooked, CreateAdded
    <2>2. ASSUME NEW p \in Clients, WriteReturnJourney(p) PROVE FALSE
      <3>1. PICK leg \in Legs, out \in Nat \ Ids, back \in Nat \ Ids,
                 g \in (Nat \ {0}) \ GroupIds :
               ReturnJourneyAdded(p, leg, out, back, g)
        BY <2>2, ReturnJourneyAdds
      <3>2. n = out
        BY <2>0, <3>1 DEF ReturnJourneyAdded
      <3>3. pc[p] = "createReturn" /\ UnbookedReturn(p)
        BY <2>2, <2>0, HandlerMoves DEF WriteReturnJourney, SequentialOK, Continues
      <3>4. SameJourney(bookings[b], leg)
        BY <3>1, <3>2 DEF SameJourney, ReturnJourneyAdded
      <3>5. Recent(bookings[b].createdAt)
        BY <3>1, <3>2 DEF Recent, ReturnJourneyAdded
      <3>6. /\ bookings[b].journeyType = "OUTBOUND"
            /\ bookings[b].group \in GroupIds
            /\ groups[bookings[b].group].createdAt = bookings[b].createdAt
            /\ groups[bookings[b].group].status = "ACTIVE"
        <4>1. bookings[b].journeyType = "OUTBOUND"
          BY <3>1, <3>2 DEF ReturnJourneyAdded
        <4>2. /\ bookings[b].group \in 0 .. Len(groups) /\ bookings[b].group # 0
              /\ groups[bookings[b].group].createdAt = bookings[b].createdAt
          BY <2>0, <4>1 DEF RowsOK
        <4>3. Len(groups) \in Nat /\ GroupIds = 1 .. Len(groups)
          BY <2>0, IdsNat
        <4>4. bookings[b].group \in GroupIds
          BY <4>2, <4>3
        <4>5. QED BY <4>1, <4>2, <4>4
      <3>7. QED BY <3>1, <3>3, <3>4, <3>5, <3>6 DEF UnbookedReturn, ReturnJourneyAdded
    <2>3. ASSUME NEW p \in Clients, CreateStops(p) \/ WriteUpdate(p)
                                    \/ WriteCancelled(p) \/ WriteRefunded(p)
                                    \/ ReadGroup(p) \/ WriteGroup(p)
          PROVE  FALSE
      <3>1. DOMAIN bookings' = Ids
        BY <2>0, <2>3 DEF CreateStops, WriteUpdate, WriteCancelled, WriteRefunded,
                          ReadGroup, WriteGroup, WriteBookings
      <3>2. QED BY <2>0, <3>1
    <2>4. ASSUME NEW p \in Clients, Begins(p) PROVE FALSE
      BY <2>0, <2>4, RequestMoves
    <2>5. ASSUME NEW p \in Clients, NEW c \in Capacities, UpdateVehicleCapacity(p, c)
          PROVE FALSE
      BY <2>0, <2>5 DEF UpdateVehicleCapacity
    <2>6. ASSUME NEW i \in Ids, Pay(i) PROVE FALSE
      BY <2>0, <2>6 DEF Pay
    <2>7. CASE Crash \/ Tick \/ UNCHANGED vars
      BY <2>0, <2>7 DEF Crash, Tick, vars
    <2>8. QED BY <2>1, <2>2, <2>3, <2>4, <2>5, <2>6, <2>7 DEF Next, Step, Begins
  <1>2. QED BY <1>1, SequentialHolds, PTL DEF Spec, NoDuplicateAdded

----------------------------------------------------------------------------
(* A group shows its legs *)

\* What the rule of the handler that ended a leg computes is what the legs say.
LEMMA StatusShows ==
    ASSUME NEW g, NEW by, NEW b \in Ids, bookings[b].group = g,
           \/ by = "bookings" /\ bookings[b].status = "CANCELLED"
           \/ by = "admin" /\ bookings[b].status = "REFUNDED"
    PROVE  Shows(g, StatusOfGroup(g, by))
  <1>1. bookings[b].status \in LegStatuses(g) /\ bookings[b].status \in Ended(by)
    BY DEF LegStatuses, LegsOf, Ended
  <1>2. AnyEnded(g)
    BY DEF AnyEnded, Ending
  <1>3. StatusOfGroup(g, by) # "ACTIVE"
    BY <1>1 DEF StatusOfGroup
  <1>4. StatusOfGroup(g, by) = "FULLY_CANCELLED" => AllEnded(g)
    <2> SUFFICES ASSUME LegStatuses(g) \subseteq Ended(by) PROVE AllEnded(g)
      BY DEF StatusOfGroup
    <2>1. Ended(by) \subseteq Ending
      BY DEF Ended, Ending
    <2>2. ASSUME NEW k \in Ids, bookings[k].group = g
          PROVE  bookings[k].status \in Ending
      <3>1. bookings[k].status \in LegStatuses(g)
        BY <2>2 DEF LegStatuses, LegsOf
      <3>2. QED BY <2>1, <3>1
    <2>3. QED BY <2>2 DEF AllEnded
  <1>5. QED BY <1>2, <1>3, <1>4 DEF Shows

\* If the legs of a group end no more and no less than before, neither does
\* what its status has to show.
LEMMA EndedKept ==
    ASSUME NEW g, Ids \subseteq DOMAIN bookings',
           \A b \in Ids : bookings'[b].group = bookings[b].group,
           \A b \in Ids : bookings[b].group = g =>
               (bookings'[b].status \in Ending <=> bookings[b].status \in Ending),
           \A b \in DOMAIN bookings' \ Ids : bookings'[b].group # g
    PROVE  (AnyEnded(g)' <=> AnyEnded(g)) /\ (AllEnded(g)' <=> AllEnded(g))
  <1>1. AnyEnded(g)' <=> AnyEnded(g)
    BY DEF AnyEnded
  <1>2. AllEnded(g)' <=> AllEnded(g)
    BY DEF AllEnded
  <1>3. QED BY <1>1, <1>2

\* A status that showed its legs still does if neither of them changes.
LEMMA ShownKept ==
    ASSUME NEW g, GroupShown(g), groups'[g].status = groups[g].status,
           AnyEnded(g)' <=> AnyEnded(g), AllEnded(g)' <=> AllEnded(g)
    PROVE  GroupShown(g)'
  BY DEF GroupShown, Shows

\* The legs of the groups that a step does not work on stay as they were.
LEMMA OtherGroupsKept ==
    ASSUME GroupsOK, ~overlapped, crashes = 0, NEW g \in GroupIds, ~Working(g),
           Ids \subseteq DOMAIN bookings', groups'[g].status = groups[g].status,
           \A b \in Ids : bookings'[b].group = bookings[b].group,
           \A b \in Ids : bookings[b].group = g =>
               (bookings'[b].status \in Ending <=> bookings[b].status \in Ending),
           \A b \in DOMAIN bookings' \ Ids : bookings'[b].group # g
    PROVE  GroupShown(g)'
  <1>1. GroupShown(g)
    BY DEF GroupsOK
  <1>2. (AnyEnded(g)' <=> AnyEnded(g)) /\ (AllEnded(g)' <=> AllEnded(g))
    BY EndedKept
  <1>3. QED BY <1>1, <1>2, ShownKept

\* Nobody but the handler at work is about to write a status.
LEMMA OnlyWorker ==
    ASSUME NEW p \in Clients, \A q \in Clients : q # p => pc[q] = "idle",
           NEW g, Working(g)
    PROVE  pc[p] \in {"group.read", "group.write"} /\ arg[p].id = g
  BY DEF Working

\* What a handler that is idle, or has only begun, has to hold.
LEMMA OthersIdle ==
    ASSUME NEW p \in Clients, \A q \in Clients : q # p => pc'[q] = "idle",
           GroupHandlerOK(p)'
    PROVE  \A q \in Clients : GroupHandlerOK(q)'
  BY DEF GroupHandlerOK

\* The writes of stops and of changed details keep group and status.
LEMMA DetailsKept ==
    ASSUME BookingsInv, NEW p \in Clients, CreateStops(p) \/ WriteUpdate(p)
    PROVE  /\ groups' = groups /\ DOMAIN bookings' = Ids
           /\ \A b \in Ids : /\ bookings'[b].group = bookings[b].group
                             /\ bookings'[b].status = bookings[b].status
  <1>0. TypeOK /\ HandlerOK(p) /\ \A b \in Ids : bookings[b] \in Booking
    BY IdsNat DEF BookingsInv, HandlersOK
  <1>1. bookings \in [Ids -> Booking]
    <2>1. bookings \in Seq(Booking)
      BY <1>0 DEF TypeOK
    <2>2. bookings \in [1 .. Len(bookings) -> Booking] /\ Ids = 1 .. Len(bookings)
      BY <2>1, LenProperties
    <2>3. QED BY <2>2
  <1>2. CASE CreateStops(p)
    <2>1. PICK i, n : /\ i \in Ids
                     /\ bookings' = [bookings EXCEPT ![i].stops = n]
                     /\ groups' = groups
      BY <1>0, <1>2 DEF CreateStops, WriteBookings, HandlerOK
    <2>2. \A r \in Booking : /\ [r EXCEPT !.stops = n].group = r.group
                            /\ [r EXCEPT !.stops = n].status = r.status
      BY DEF Booking
    <2>3. QED BY <1>1, <2>1, <2>2
  <1>3. CASE WriteUpdate(p)
    <2>1. PICK i, n, m :
             /\ i \in Ids
             /\ bookings' = [bookings EXCEPT ![i].pickup = n, ![i].passengers = m]
             /\ groups' = groups
      BY <1>0, <1>3 DEF WriteUpdate, WriteBookings, HandlerOK
    <2>2. \A r \in Booking :
             /\ [[r EXCEPT !.pickup = n] EXCEPT !.passengers = m].group = r.group
             /\ [[r EXCEPT !.pickup = n] EXCEPT !.passengers = m].status = r.status
      BY DEF Booking
    <2>3. QED BY <1>1, <2>1, <2>2
  <1>4. QED BY <1>2, <1>3

\* Steps of a handler that end no leg and write no status.
LEMMA AddingShows ==
    ASSUME BookingsInv, SequentialOK, GroupsOK, NEW p \in Clients,
           WriteCreate(p) \/ CreateStops(p) \/ WriteUpdate(p) \/ WriteReturnJourney(p),
           ~overlapped', crashes' = 0
    PROVE  /\ \A g \in DOMAIN groups' : GroupShown(g)'
           /\ \A q \in Clients : GroupHandlerOK(q)'
  <1>0. TypeOK /\ RowsOK /\ HandlerOK(p) /\ Continues(p)
    BY DEF BookingsInv, HandlersOK, Continues
  <1>1. /\ ~overlapped /\ crashes = 0
        /\ \A q \in Clients : q # p => pc[q] = "idle" /\ pc'[q] = "idle"
        /\ pc[p] \in {"create", "create.stops", "update", "createReturn"}
    <2>1. pc[p] \in {"create", "create.stops", "update", "createReturn"}
      BY DEF WriteCreate, CreateStops, WriteUpdate, WriteReturnJourney
    <2>2. crashes' = crashes
      BY <1>0, HandlerMoves
    <2>3. QED BY <1>0, <2>1, <2>2, HandlerAlone
  <1>2. pc'[p] \in {"idle", "create.stops"}
    <2>1. pc \in [Clients -> PC] /\ arg \in [Clients -> Arg]
      BY <1>0 DEF TypeOK
    <2>2. QED BY <2>1 DEF WriteCreate, CreateStops, WriteUpdate, WriteReturnJourney,
                          Return, GotoWith
  <1>3. \A q \in Clients : GroupHandlerOK(q)'
    BY <1>1, <1>2 DEF GroupHandlerOK
  <1>4. \A g \in GroupIds : ~Working(g)
    BY <1>1 DEF Working
  <1>5. 0 \notin GroupIds
    BY <1>0, IdsNat
  <1>6. CASE WriteCreate(p)
    <2>1. PICK leg \in Legs, n \in Nat \ Ids : CreateAdded(p, leg, n)
      BY <1>6, CreateAdds
    <2>2. groups' = groups
      BY <1>6 DEF WriteCreate, WriteBookings
    <2>3. ASSUME NEW g \in GroupIds PROVE GroupShown(g)'
      <3>1. /\ Ids \subseteq DOMAIN bookings' /\ \A b \in Ids : bookings'[b] = bookings[b]
            /\ \A b \in DOMAIN bookings' \ Ids : bookings'[b].group # g
        BY <1>5, <2>1 DEF CreateAdded
      <3>2. ~Working(g)
        BY <1>4
      <3>3. QED BY <1>1, <2>2, <3>1, <3>2, OtherGroupsKept
    <2>4. QED BY <1>3, <2>2, <2>3
  <1>7. CASE CreateStops(p) \/ WriteUpdate(p)
    <2>1. /\ groups' = groups /\ DOMAIN bookings' = Ids
          /\ \A b \in Ids : /\ bookings'[b].group = bookings[b].group
                            /\ bookings'[b].status = bookings[b].status
      BY <1>0, <1>7, DetailsKept
    <2>3. ASSUME NEW g \in GroupIds PROVE GroupShown(g)'
      <3>1. ~Working(g)
        BY <1>4
      <3>2. QED BY <1>1, <2>1, <3>1, OtherGroupsKept
    <2>4. QED BY <1>3, <2>1, <2>3
  <1>8. CASE WriteReturnJourney(p)
    <2>1. PICK leg \in Legs, out \in Nat \ Ids, back \in Nat \ Ids,
               g \in (Nat \ {0}) \ GroupIds : ReturnJourneyAdded(p, leg, out, back, g)
      BY <1>8, ReturnJourneyAdds
    <2>2. /\ DOMAIN bookings' = Ids \union {out, back}
          /\ \A b \in Ids : bookings'[b] = bookings[b]
          /\ bookings'[out].group = g /\ bookings'[back].group = g
          /\ bookings'[out].status = "PENDING_PAYMENT"
          /\ bookings'[back].status = "PENDING_PAYMENT"
          /\ DOMAIN groups' = GroupIds \union {g} /\ groups'[g].status = "ACTIVE"
          /\ \A k \in GroupIds : groups'[k] = groups[k]
      BY <2>1 DEF ReturnJourneyAdded
    <2>3. ASSUME NEW k \in GroupIds PROVE GroupShown(k)'
      <3>1. ~Working(k) /\ k # g
        BY <1>4
      <3>2. QED BY <1>1, <2>2, <3>1, OtherGroupsKept
    <2>4. GroupShown(g)'
      <3>1. \A b \in Ids : bookings[b].group # g
        <4>1. \A b \in Ids : bookings[b].group \in 0 .. Len(groups)
          BY <1>0 DEF RowsOK
        <4>2. GroupIds = 1 .. Len(groups) /\ Len(groups) \in Nat
          BY <1>0, IdsNat
        <4>3. QED BY <4>1, <4>2
      <3>2. "PENDING_PAYMENT" \notin Ending
        BY DEF Ending
      <3>3. ~AnyEnded(g)'
        BY <2>2, <3>1, <3>2 DEF AnyEnded, Ending
      <3>4. QED BY <2>2, <3>3 DEF GroupShown, Shows
    <2>5. QED BY <1>3, <2>2, <2>3, <2>4
  <1>9. QED BY <1>6, <1>7, <1>8

\* A leg ends: its group is the one its handler turns to.
LEMMA EndingShows ==
    ASSUME BookingsInv, SequentialOK, GroupsOK, NEW p \in Clients,
           WriteCancelled(p) \/ WriteRefunded(p), ~overlapped', crashes' = 0
    PROVE  /\ \A g \in DOMAIN groups' : Working(g)' \/ GroupShown(g)'
           /\ \A q \in Clients : GroupHandlerOK(q)'
  <1>0. TypeOK /\ RowsOK /\ HandlerOK(p) /\ Continues(p)
    BY DEF BookingsInv, HandlersOK, Continues
  <1>1. /\ ~overlapped /\ crashes = 0 /\ GroupHandlerOK(p)
        /\ \A q \in Clients : q # p => pc[q] = "idle" /\ pc'[q] = "idle"
    <2>1. crashes' = crashes
      BY <1>0, HandlerMoves
    <2>2. /\ ~overlapped
          /\ \A q \in Clients : q # p => pc[q] = "idle" /\ pc'[q] = "idle"
      BY <1>0, HandlerAlone
    <2>3. QED BY <2>1, <2>2 DEF GroupsOK
  <1>2. PICK i \in Ids, st \in {"CANCELLED", "REFUNDED"} :
           /\ i = arg[p].id /\ pc[p] \in {"cancel", "refund"}
           /\ bookings' = [bookings EXCEPT ![i].status = st]
           /\ \/ arg[p].by = "bookings" /\ st = "CANCELLED"
              \/ arg[p].by = "admin" /\ st = "REFUNDED"
           /\ groups' = groups /\ ThenGroupStatus(p)
    <2>1. CASE WriteCancelled(p)
      BY <1>0, <1>1, <2>1 DEF WriteCancelled, WriteBookings, HandlerOK, GroupHandlerOK
    <2>2. CASE WriteRefunded(p)
      BY <1>0, <1>1, <2>2 DEF WriteRefunded, WriteBookings, HandlerOK, GroupHandlerOK
    <2>3. QED BY <2>1, <2>2
  <1>3. /\ DOMAIN bookings' = Ids /\ bookings'[i].status = st
        /\ \A b \in Ids : /\ bookings'[b].group = bookings[b].group
                          /\ b # i => bookings'[b] = bookings[b]
    <2>1. st \in BookingStatus
      BY DEF BookingStatus
    <2>2. /\ DOMAIN bookings' = Ids
          /\ \A b \in Ids : /\ Identity(bookings'[b]) = Identity(bookings[b])
                            /\ bookings'[b].status = IF b = i THEN st
                                                     ELSE bookings[b].status
                            /\ b # i => bookings'[b] = bookings[b]
      <3>1. bookings' = [bookings EXCEPT ![i].status = st]
        BY <1>2
      <3>2. QED BY <1>0, <2>1, <3>1, StatusWritten
    <2>3. \A b \in Ids : bookings'[b].group = bookings[b].group
      BY <2>2 DEF Identity
    <2>4. QED BY <2>2, <2>3
  <1>4. \/ bookings[i].group = 0 /\ pc'[p] = "idle"
        \/ /\ bookings[i].group \in GroupIds /\ pc'[p] = "group.read"
           /\ arg'[p].id = bookings[i].group /\ arg'[p].by = arg[p].by
    BY <1>2, ThenGroupType
  <1>5. GroupHandlerOK(p)'
    BY <1>2, <1>3, <1>4 DEF GroupHandlerOK
  <1>6. ASSUME NEW g \in GroupIds PROVE Working(g)' \/ GroupShown(g)'
    <2>1. CASE g = bookings[i].group
      <3>1. g # 0
        BY <1>0, IdsNat
      <3>2. pc'[p] = "group.read" /\ arg'[p].id = g
        BY <1>4, <2>1, <3>1
      <3>3. QED BY <3>2 DEF Working
    <2>2. CASE g # bookings[i].group
      <3>1. ~Working(g)
        BY <1>1, <1>2, OnlyWorker
      <3>2. QED BY <1>1, <1>2, <1>3, <2>2, <3>1, OtherGroupsKept
    <2>3. QED BY <2>1, <2>2
  <1>7. \A q \in Clients : GroupHandlerOK(q)'
    BY <1>1, <1>5, OthersIdle
  <1>8. QED BY <1>2, <1>6, <1>7

\* The status is computed, and then written.
LEMMA ReadingShows ==
    ASSUME BookingsInv, SequentialOK, GroupsOK, NEW p \in Clients,
           ReadGroup(p), ~overlapped', crashes' = 0
    PROVE  /\ \A g \in DOMAIN groups' : Working(g)' \/ GroupShown(g)'
           /\ \A q \in Clients : GroupHandlerOK(q)'
  <1>0. TypeOK /\ HandlerOK(p) /\ Continues(p) /\ arg[p] \in Arg
    BY DEF BookingsInv, HandlersOK, Continues, TypeOK
  <1>1. /\ ~overlapped /\ crashes = 0 /\ GroupHandlerOK(p)
        /\ \A q \in Clients : q # p => pc[q] = "idle" /\ pc'[q] = "idle"
    <2>1. crashes' = crashes
      BY <1>0, HandlerMoves
    <2>2. /\ ~overlapped
          /\ \A q \in Clients : q # p => pc[q] = "idle" /\ pc'[q] = "idle"
      BY <1>0, HandlerAlone
    <2>3. QED BY <2>1, <2>2 DEF GroupsOK
  <1>2. PICK i \in GroupIds, st \in GroupStatus :
           i = arg[p].id /\ st = StatusOfGroup(arg[p].id, arg[p].by)
    BY <1>0, StatusOfGroupType DEF ReadGroup, HandlerOK
  <1>3. /\ pc[p] = "group.read" /\ GotoWith(p, "group.write", [arg[p] EXCEPT !.group = st])
        /\ bookings' = bookings /\ groups' = groups
    BY <1>2 DEF ReadGroup
  <1>4. pc'[p] = "group.write" /\ arg'[p].id = i /\ arg'[p].group = st
    <2>1. "group.write" \in PC
      BY DEF PC
    <2>2. [arg[p] EXCEPT !.group = st] \in Arg
      BY <1>0, ArgFields
    <2>3. pc'[p] = "group.write" /\ arg'[p] = [arg[p] EXCEPT !.group = st]
      BY <1>0, <1>3, <2>1, <2>2, GotoType
    <2>4. QED BY <1>0, <1>2, <2>3 DEF Arg
  <1>5. Shows(i, st)
    BY <1>1, <1>2, <1>3, StatusShows DEF GroupHandlerOK
  <1>6. Shows(arg[p].id, arg[p].group)'
    BY <1>3, <1>4, <1>5 DEF Shows, AnyEnded, AllEnded
  <1>7. GroupHandlerOK(p)'
    BY <1>4, <1>6 DEF GroupHandlerOK
  <1>8. ASSUME NEW g \in GroupIds PROVE Working(g)' \/ GroupShown(g)'
    <2>1. CASE g = i
      BY <1>4, <2>1 DEF Working
    <2>2. CASE g # i
      <3>1. ~Working(g)
        BY <1>1, <1>2, <2>2, OnlyWorker
      <3>2. QED BY <1>1, <1>3, <3>1, OtherGroupsKept
    <2>3. QED BY <2>1, <2>2
  <1>9. \A q \in Clients : GroupHandlerOK(q)'
    BY <1>1, <1>7, OthersIdle
  <1>10. QED BY <1>3, <1>8, <1>9

\* The status that is written is the one that was computed.
LEMMA WritingShows ==
    ASSUME BookingsInv, SequentialOK, GroupsOK, NEW p \in Clients,
           WriteGroup(p), ~overlapped', crashes' = 0
    PROVE  /\ \A g \in DOMAIN groups' : GroupShown(g)'
           /\ \A q \in Clients : GroupHandlerOK(q)'
  <1>0. TypeOK /\ HandlerOK(p) /\ Continues(p) /\ arg[p] \in Arg
    BY DEF BookingsInv, HandlersOK, Continues, TypeOK
  <1>1. /\ ~overlapped /\ crashes = 0 /\ GroupHandlerOK(p)
        /\ \A q \in Clients : q # p => pc[q] = "idle" /\ pc'[q] = "idle"
    <2>1. crashes' = crashes
      BY <1>0, HandlerMoves
    <2>2. /\ ~overlapped
          /\ \A q \in Clients : q # p => pc[q] = "idle" /\ pc'[q] = "idle"
      BY <1>0, HandlerAlone
    <2>3. QED BY <2>1, <2>2 DEF GroupsOK
  <1>2. PICK i \in GroupIds, st \in GroupStatus : i = arg[p].id /\ st = arg[p].group
    BY <1>0 DEF WriteGroup, HandlerOK, Arg
  <1>3. /\ pc[p] = "group.write" /\ Return(p) /\ bookings' = bookings
        /\ groups' = [groups EXCEPT ![i].status = st]
    BY <1>2 DEF WriteGroup
  <1>4. /\ DOMAIN groups' = GroupIds
        /\ \A g \in GroupIds : groups'[g].status = IF g = i THEN st ELSE groups[g].status
    BY <1>0, <1>3, GroupWritten
  <1>5. Shows(i, st)
    BY <1>1, <1>2, <1>3 DEF GroupHandlerOK
  <1>6. ASSUME NEW g \in GroupIds PROVE GroupShown(g)'
    <2>1. CASE g = i
      BY <1>3, <1>4, <1>5, <2>1 DEF GroupShown, Shows, AnyEnded, AllEnded
    <2>2. CASE g # i
      <3>1. ~Working(g)
        BY <1>1, <1>2, <2>2, OnlyWorker
      <3>2. groups'[g].status = groups[g].status
        BY <1>4, <2>2
      <3>3. QED BY <1>1, <1>3, <3>1, <3>2, OtherGroupsKept
    <2>3. QED BY <2>1, <2>2
  <1>7. pc'[p] = "idle"
    BY <1>0, <1>3, ReturnType
  <1>8. \A q \in Clients : GroupHandlerOK(q)'
    BY <1>1, <1>7 DEF GroupHandlerOK
  <1>9. QED BY <1>4, <1>6, <1>8

\* Every step leaves the groups shown, or a handler about to see to it.
LEMMA GroupsStep == BookingsInv /\ SequentialOK /\ GroupsOK /\ [Next]_vars => GroupsOK'
  <1> SUFFICES ASSUME BookingsInv, SequentialOK, GroupsOK, [Next]_vars,
                      ~overlapped', crashes' = 0
               PROVE  /\ \A g \in DOMAIN groups' : Working(g)' \/ GroupShown(g)'
                      /\ \A q \in Clients : GroupHandlerOK(q)'
    BY DEF GroupsOK
  <1>0. TypeOK /\ crashes \in Nat
    BY BookingsAssumption DEF BookingsInv, TypeOK, BookingsAssumption
  <1>1. ASSUME NEW p \in Clients, Begins(p)
        PROVE  /\ \A g \in DOMAIN groups' : Working(g)' \/ GroupShown(g)'
               /\ \A q \in Clients : GroupHandlerOK(q)'
    <2>1. /\ UNCHANGED <<bookings, groups, crashes>> /\ GroupHandlerOK(p)'
          /\ ~overlapped /\ Idle /\ \A q \in Clients : q # p => pc'[q] = "idle"
      BY <1>1, RequestMoves, RequestAlone
    <2>2. ASSUME NEW g \in GroupIds PROVE GroupShown(g)'
      <3>1. ~Working(g) /\ crashes = 0
        BY <2>1 DEF Working, Idle
      <3>2. QED BY <2>1, <3>1, OtherGroupsKept
    <2>3. \A q \in Clients : GroupHandlerOK(q)'
      BY <2>1, OthersIdle
    <2>4. QED BY <2>1, <2>2, <2>3
  <1>2. ASSUME UNCHANGED <<groups, procVars, crashes>>, ~overlapped, DOMAIN bookings' = Ids,
               \A b \in Ids : bookings'[b].group = bookings[b].group,
               \A b \in Ids : bookings'[b].status \in Ending <=> bookings[b].status \in Ending,
               \A b \in Ids : bookings[b].status \in Ending =>
                                 bookings'[b].status = bookings[b].status
        PROVE  /\ \A g \in DOMAIN groups' : Working(g)' \/ GroupShown(g)'
               /\ \A q \in Clients : GroupHandlerOK(q)'
    <2>0. /\ ~overlapped /\ crashes = 0 /\ pc' = pc /\ arg' = arg
          /\ \A g \in GroupIds : Working(g) \/ GroupShown(g)
          /\ \A q \in Clients : GroupHandlerOK(q)
      BY <1>2 DEF procVars, GroupsOK
    <2>1. ASSUME NEW g
          PROVE  (AnyEnded(g)' <=> AnyEnded(g)) /\ (AllEnded(g)' <=> AllEnded(g))
      BY <1>2, EndedKept
    <2>2. ASSUME NEW g \in GroupIds PROVE Working(g)' \/ GroupShown(g)'
      <3>1. CASE Working(g)
        BY <2>0, <3>1 DEF Working
      <3>2. CASE GroupShown(g)
        BY <1>2, <2>1, <3>2, ShownKept
      <3>3. QED BY <2>0, <3>1, <3>2
    <2>3. ASSUME NEW q \in Clients PROVE GroupHandlerOK(q)'
      <3>1. GroupHandlerOK(q)
        BY <2>0
      <3>2. ASSUME pc[q] = "group.read"
            PROVE  \E b \in Ids :
                     /\ bookings'[b].group = arg[q].id
                     /\ \/ arg[q].by = "bookings" /\ bookings'[b].status = "CANCELLED"
                        \/ arg[q].by = "admin" /\ bookings'[b].status = "REFUNDED"
        BY <1>2, <3>1, <3>2 DEF GroupHandlerOK, Ending
      <3>3. PICK g : g = arg[q].id
        OBVIOUS
      <3>4. (AnyEnded(g)' <=> AnyEnded(g)) /\ (AllEnded(g)' <=> AllEnded(g))
        BY <2>1
      <3>5. ASSUME pc[q] = "group.write" PROVE Shows(arg[q].id, arg[q].group)'
        <4>1. Shows(g, arg[q].group)
          BY <3>1, <3>3, <3>5 DEF GroupHandlerOK
        <4>2. Shows(g, arg[q].group)'
          BY <2>0, <3>4, <4>1 DEF Shows
        <4>3. QED BY <2>0, <3>3, <4>2 DEF Shows, AnyEnded, AllEnded
      <3>6. QED BY <1>2, <2>0, <3>1, <3>2, <3>5 DEF GroupHandlerOK
    <2>4. QED BY <1>2, <2>2, <2>3
  <1>3. ASSUME NEW p \in Clients, NEW c \in Capacities, UpdateVehicleCapacity(p, c)
        PROVE  /\ \A g \in DOMAIN groups' : Working(g)' \/ GroupShown(g)'
               /\ \A q \in Clients : GroupHandlerOK(q)'
    <2>1. UNCHANGED <<bookings, groups, procVars, crashes>> /\ ~overlapped
      BY <1>3 DEF UpdateVehicleCapacity, Request
    <2>2. QED BY <2>1, <1>2
  <1>4. ASSUME NEW i \in Ids, Pay(i)
        PROVE  /\ \A g \in DOMAIN groups' : Working(g)' \/ GroupShown(g)'
               /\ \A q \in Clients : GroupHandlerOK(q)'
    <2>1. /\ bookings' = [bookings EXCEPT ![i].status = "PAID"]
          /\ bookings[i].status = "PENDING_PAYMENT"
          /\ UNCHANGED <<groups, procVars, crashes>> /\ ~overlapped
      BY <1>4 DEF Pay
    <2>2. "PAID" \in BookingStatus
      BY DEF BookingStatus
    <2>3. /\ DOMAIN bookings' = Ids
          /\ \A b \in Ids : /\ Identity(bookings'[b]) = Identity(bookings[b])
                            /\ bookings'[b].status = IF b = i THEN "PAID"
                                                     ELSE bookings[b].status
      BY <1>0, <2>1, <2>2, StatusWritten
    <2>4. \A b \in Ids : bookings'[b].group = bookings[b].group
      BY <2>3 DEF Identity
    <2>5. /\ \A b \in Ids : bookings'[b].status \in Ending <=> bookings[b].status \in Ending
          /\ \A b \in Ids : bookings[b].status \in Ending =>
                               bookings'[b].status = bookings[b].status
      BY <2>1, <2>3 DEF Ending
    <2>6. QED BY <2>1, <2>3, <2>4, <2>5, <1>2
  <1>5. CASE Crash
    <2>1. crashes' = crashes + 1
      BY <1>5 DEF Crash
    <2>2. QED BY <1>0, <2>1
  <1>6. CASE Tick \/ UNCHANGED vars
    BY <1>2, <1>6 DEF Tick, vars, procVars
  <1>7. QED
    <2>1. ASSUME NEW p \in Clients, Step(p)
          PROVE  \/ Begins(p)
                 \/ WriteCreate(p) \/ CreateStops(p) \/ WriteUpdate(p) \/ WriteReturnJourney(p)
                 \/ WriteCancelled(p) \/ WriteRefunded(p)
                 \/ ReadGroup(p) \/ WriteGroup(p)
                 \/ \E c \in Capacities : UpdateVehicleCapacity(p, c)
      BY <2>1 DEF Step, Begins
    <2>2. ASSUME NEW p \in Clients, Step(p)
          PROVE  /\ \A g \in DOMAIN groups' : Working(g)' \/ GroupShown(g)'
                 /\ \A q \in Clients : GroupHandlerOK(q)'
      BY <1>1, <1>3, <2>1, <2>2, AddingShows, EndingShows, ReadingShows, WritingShows
    <2>3. QED BY <1>4, <1>5, <1>6, <2>2 DEF Next

\* A cancelled or refunded leg shows in the status of its group, and a group is
\* fully cancelled only if every leg is, when the handlers ran one after the
\* other and to their end (bookings.service.ts:663, admin.service.ts:1661).
THEOREM GroupShowsLegsHolds == Spec => []GroupShowsLegs
  <1>1. Init => GroupsOK
    BY DEF Init, GroupsOK, GroupHandlerOK
  <1>2. Spec => []GroupsOK
    BY <1>1, SequentialHolds, GroupsStep, PTL DEF Spec
  <1>3. GroupsOK => GroupShowsLegs
    <2> SUFFICES ASSUME GroupsOK, Idle, crashes = 0, ~overlapped, NEW g \in GroupIds
                 PROVE  LET ended == LegStatuses(g) \intersect {"CANCELLED", "REFUNDED"}
                        IN  /\ groups[g].status = "ACTIVE" <=> ended = {}
                            /\ groups[g].status = "FULLY_CANCELLED"
                                    => ended = LegStatuses(g)
      BY DEF GroupShowsLegs
    <2>1. GroupShown(g)
      BY DEF GroupsOK, Working, Idle
    <2>2. AnyEnded(g) <=> LegStatuses(g) \intersect {"CANCELLED", "REFUNDED"} # {}
      BY DEF AnyEnded, Ending, LegStatuses, LegsOf
    <2>3. AllEnded(g) => LegStatuses(g) \intersect {"CANCELLED", "REFUNDED"} = LegStatuses(g)
      BY DEF AllEnded, Ending, LegStatuses, LegsOf
    <2>4. QED BY <2>1, <2>2, <2>3 DEF GroupShown, Shows
  <1>4. QED BY <1>2, <1>3, PTL

=============================================================================
