------------------------------ MODULE Quotes -------------------------------
(***************************************************************************)
(* The tariff and the prices computed from it: pricing rules, system       *)
(* settings and vehicle capacities as administrators change them, and the  *)
(* quotes of one customer, whose bookings decide about the discount for    *)
(* the first one.                                                          *)
(*                                                                         *)
(* Money is counted in units of 1/10000 penny, which two percentages of    *)
(* whole pence need, where the code has binary fractions.  A quote reads   *)
(* all it needs at once, distances are whole miles of the map service, and *)
(* the bookings' progress, modelled in full in Payments, Auction and       *)
(* Journey, is cut to their status.                                        *)
(***************************************************************************)
EXTENDS Integers, Sequences, FiniteSets

CONSTANTS
    VehicleTypes,
    Seed,         \* initial settings: a function from keys, see Key
    SeedRules,    \* initial pricing rules
    Capacities,   \* rows of vehicle_capacities that administrators enter
    RuleRows,     \* pricing rules that administrators enter
    Updates,      \* bulk updates: sequences of <<key, value>>
    Journeys,     \* requests for a quote
    Admins,       \* concurrent requests for a bulk update
    Bookings,     \* ids
    Tier,         \* 100 miles
    MaxRules,     \* bound on the pricing rules
    MaxChanges,   \* bound on the changes by administrators
    Null

ASSUME QuotesAssumption ==
    /\ Tier \in Nat \ {0} /\ {MaxRules, MaxChanges} \subseteq Nat
    /\ IsFiniteSet(VehicleTypes)

VARIABLES
    rules,      \* rows of pricing_rules, as a query returns them
    settings,   \* by key
    capacities, \* by vehicle type
    bookings,   \* of the customer: the status by id, or Null
    quote,      \* whether it is for a first booking, and after which; or Null
    asked,      \* history: the settings that were last asked for
    mixed,      \* history: bulk updates ran together or ended in an error
    changes,
    updating    \* by administrator: the rest of its bulk update

tariffVars == <<rules, settings, capacities>>
customerVars == <<bookings, quote>>
updateVars == <<asked, mixed, updating>>
quoteVars == <<tariffVars, customerVars, updateVars, changes>>

PerVehicle == {"BASE_FARE", "PER_MILE_RATE"}
Key(t, v) == <<t, IF t \in PerVehicle THEN v ELSE Null>>
Keys == DOMAIN Seed
BookingStatus == {"PENDING_PAYMENT", "PAID", "ASSIGNED", "IN_PROGRESS",
                  "COMPLETED", "CANCELLED", "REFUNDED", "NO_SHOW"}

\* The types of settings, and what a setting or a rule of a type may be: whole
\* pence, percentages and hours, as prisma/seed.ts has them.  The code checks
\* that a rule's value is positive; administrators are trusted with the rest.
Types ==
    PerVehicle \union
    {"MINIMUM_MILES_THRESHOLD", "SHORT_DISTANCE_MULTIPLIER",
     "NIGHT_HOURS_START", "NIGHT_HOURS_END", "NIGHT_SURCHARGE",
     "PEAK_MORNING_START", "PEAK_MORNING_END", "PEAK_EVENING_START",
     "PEAK_EVENING_END", "PEAK_WEEKDAYS_ONLY", "PEAK_SURCHARGE",
     "HOLIDAY_SURCHARGE", "MEET_AND_GREET", "CHILD_SEAT", "BOOSTER_SEAT",
     "AIRPORT_FEE", "RETURN_DISCOUNT", "NEW_BOOKING_DISCOUNT_PERCENT"}
Sensible(t, x) ==
    CASE t = "PER_MILE_RATE" -> x \in Nat \ {0}
      [] t = "PEAK_WEEKDAYS_ONLY" -> x \in BOOLEAN
      [] t \in {"RETURN_DISCOUNT", "NEW_BOOKING_DISCOUNT_PERCENT"} -> x \in 0 .. 100
      [] t \in {"NIGHT_HOURS_START", "NIGHT_HOURS_END"} -> x \in 0 .. 23
      [] OTHER -> x \in Nat

ASSUME TariffAssumption ==
    /\ Seed = [k \in Keys |-> Seed[k]]
    /\ PerVehicle \X VehicleTypes \subseteq Keys
    /\ (Types \ PerVehicle) \X {Null} \subseteq Keys
    /\ \A k \in Keys : Sensible(k[1], Seed[k])
    /\ SeedRules \in Seq(RuleRows)
    /\ \A row \in RuleRows : Sensible(row.key[1], row.value)
    /\ \A u \in Updates :
         /\ u \in Seq({u[i] : i \in DOMAIN u})
         /\ \A i \in DOMAIN u : u[i][1] \in Keys => Sensible(u[i][1][1], u[i][2])
    /\ \A row \in Capacities : row.reduction \in Nat
    /\ Journeys \subseteq
         [miles : Nat, hour : 0 .. 23, weekday : BOOLEAN, holiday : BOOLEAN,
          airport : BOOLEAN, meetAndGreet : BOOLEAN, childSeats : Nat,
          boosterSeats : Nat, passengers : Nat, luggage : Nat]

Penny == 10000
Pence(n) == n * Penny
Percent(x, n) == (x * n) \div 100
Round(x) == Pence((x + Penny \div 2) \div Penny)

----------------------------------------------------------------------------
(* The tariff *)

\* The first active rule of a type counts; without one, the setting.
Active(t, v) ==
    {i \in DOMAIN rules : /\ rules[i].isActive /\ rules[i].key[1] = t
                          /\ t \in PerVehicle => rules[i].key[2] = v}
Value(t, v) ==
    LET found == Active(t, v)
    IN  IF found = {} THEN settings[Key(t, v)]
        ELSE rules[CHOOSE i \in found : \A j \in found : i <= j].value
Setting(t) == settings[Key(t, Null)]

Least(a, b) == IF a < b THEN a ELSE b
Most(a, b) == IF a > b THEN a ELSE b

\* Seeded bug: the reduced rate has no minimum.
UnboundedRate(rate, reduction) == rate - reduction
\* The rate of the next hundred miles: at least one penny.
NextRate(rate, reduction) == Most(Pence(1), rate - reduction)

\* What the miles cost, tier by tier: from each on, <<miles left, its rate>>.
Tiered(miles, rate, reduction) ==
    LET from[at \in (0 .. miles) \X Int] ==
            IF at[1] = 0 THEN 0
            ELSE LET here == Least(at[1], Tier)
                 IN  here * at[2]
                        + from[<<at[1] - here, NextRate(at[2], reduction)>>]
    IN  from[<<miles, rate>>]

PerMileRate(v, miles) ==
    LET rate == Pence(Value("PER_MILE_RATE", v))
    IN  IF miles < Setting("MINIMUM_MILES_THRESHOLD")
                /\ Setting("SHORT_DISTANCE_MULTIPLIER") > 1
        THEN rate * Setting("SHORT_DISTANCE_MULTIPLIER") ELSE rate
DistanceCharge(v, miles) ==
    LET rate == PerMileRate(v, miles)
        reduction == Pence(capacities[v].reduction)
    IN  IF reduction = 0 THEN miles * rate
        ELSE Tiered(miles, rate, reduction)

IsNight(hour) ==
    hour >= Setting("NIGHT_HOURS_START") \/ hour < Setting("NIGHT_HOURS_END")
IsPeak(hour, weekday) ==
    /\ \/ /\ hour >= Setting("PEAK_MORNING_START")
          /\ hour < Setting("PEAK_MORNING_END")
       \/ /\ hour >= Setting("PEAK_EVENING_START")
          /\ hour < Setting("PEAK_EVENING_END")
    /\ Setting("PEAK_WEEKDAYS_ONLY") => weekday
TimeSurcharge(hour, weekday) ==
    IF IsNight(hour) THEN Value("NIGHT_SURCHARGE", Null)
    ELSE IF IsPeak(hour, weekday) THEN Value("PEAK_SURCHARGE", Null)
    ELSE 0
HolidaySurcharge(holiday) ==
    IF holiday THEN Value("HOLIDAY_SURCHARGE", Null) ELSE 0

Fees(j) ==
    Pence((IF j.meetAndGreet THEN Value("MEET_AND_GREET", Null) ELSE 0)
        + j.childSeats * Value("CHILD_SEAT", Null)
        + j.boosterSeats * Value("BOOSTER_SEAT", Null)
        + (IF j.airport THEN Value("AIRPORT_FEE", Null) ELSE 0))

\* The price of one way, before discounts and rounding.
Fare(v, j) ==
    LET fare == Pence(Value("BASE_FARE", v)) + DistanceCharge(v, j.miles)
    IN  fare + Percent(fare, TimeSurcharge(j.hour, j.weekday))
             + Percent(fare, HolidaySurcharge(j.holiday)) + Fees(j)

----------------------------------------------------------------------------
(* Quotes *)

\* The percentage for a first booking, given that it is one.
FirstPercent(first) ==
    IF first THEN Setting("NEW_BOOKING_DISCOUNT_PERCENT") ELSE 0
ReturnPercent == Value("RETURN_DISCOUNT", Null)

Discounted(price, percent) == Round(price - Round(Percent(price, percent)))

SingleQuote(v, j, first) == Discounted(Fare(v, j), FirstPercent(first))
\* Each leg has the discount of a first booking already.
ReturnQuote(v, j, k, first) ==
    Discounted(SingleQuote(v, j, first) + SingleQuote(v, k, first), ReturnPercent)
\* The older endpoint: twice the fare, and no discount of a first booking.
LegacyReturnQuote(v, j) ==
    LET both == 2 * Fare(v, j) IN Round(both - Percent(both, ReturnPercent))

\* The list of all vehicles: only those that carry the party.
CanAccommodate(v, j) ==
    /\ capacities[v].isActive
    /\ j.passengers <= capacities[v].maxPassengers
    /\ j.luggage <= capacities[v].maxSuitcases
ListedSingle(v, j, first) == Discounted(Round(Fare(v, j)), FirstPercent(first))
\* Seeded bug: the discount of a return journey is lost.
ListedReturnUndiscounted(v, j, k, first) ==
    Discounted(Round(Fare(v, j)) + Round(Fare(v, k)), FirstPercent(first))
\* The driver meets and greets on the way out only.
ListedReturn(v, j, k, first) ==
    Discounted(Discounted(Round(Fare(v, j))
                + Round(Fare(v, [k EXCEPT !.meetAndGreet = FALSE])), ReturnPercent),
               FirstPercent(first))

----------------------------------------------------------------------------
(* State *)

QuotesTypeOK ==
    /\ rules \in Seq(RuleRows) /\ Len(rules) <= MaxRules
    /\ DOMAIN settings = Keys
    /\ capacities \in [VehicleTypes -> Capacities]
    /\ bookings \in [Bookings -> BookingStatus \union {Null}]
    /\ quote \in [first : BOOLEAN, earlier : SUBSET Bookings] \union {Null}
    /\ DOMAIN asked = Keys /\ mixed \in BOOLEAN
    /\ changes \in 0 .. MaxChanges
    /\ DOMAIN updating = Admins

QuotesInit ==
    /\ rules = SeedRules /\ settings = Seed
    /\ capacities \in [VehicleTypes -> Capacities]
    /\ bookings = [b \in Bookings |-> Null] /\ quote = Null
    /\ asked = Seed /\ mixed = FALSE /\ changes = 0
    /\ updating = [a \in Admins |-> <<>>]

----------------------------------------------------------------------------
(* Administrators *)

Change ==
    /\ changes < MaxChanges /\ changes' = changes + 1
    /\ UNCHANGED <<customerVars>>

CreatePricingRule(row) ==
    /\ Len(rules) < MaxRules /\ Change
    /\ rules' = Append(rules, row)
    /\ UNCHANGED <<settings, capacities, updateVars>>

Without(s, i) == SubSeq(s, 1, i - 1) \o SubSeq(s, i + 1, Len(s))
\* A query has no order: an updated row may come last.
UpdatePricingRule(i, row) ==
    /\ i \in DOMAIN rules /\ Change
    /\ rules' \in {[rules EXCEPT ![i] = row], Append(Without(rules, i), row)}
    /\ UNCHANGED <<settings, capacities, updateVars>>
DeletePricingRule(i) ==
    /\ i \in DOMAIN rules /\ Change
    /\ rules' = Without(rules, i)
    /\ UNCHANGED <<settings, capacities, updateVars>>

UpdateVehicleCapacity(v, row) ==
    /\ Change
    /\ capacities' = [capacities EXCEPT ![v] = row]
    /\ UNCHANGED <<rules, settings, updateVars>>

\* What the settings are when all of an update is made.
AfterUpdate(s, u) ==
    [k \in Keys |->
        LET of == {i \in DOMAIN u : u[i][1] = k}
        IN  IF of = {} THEN s[k]
            ELSE u[CHOOSE i \in of : \A j \in of : j <= i][2]]

\* A single update is a bulk update of one.
BulkUpdateSettings(a, u) ==
    /\ updating[a] = <<>> /\ Change
    /\ updating' = [updating EXCEPT ![a] = u]
    /\ asked' = AfterUpdate(asked, u)
    /\ mixed' = (mixed \/ \E b \in Admins : updating[b] # <<>>)
    /\ UNCHANGED tariffVars

\* The settings are updated one after the other.
UpdateSetting(a) ==
    /\ updating[a] # <<>> /\ Head(updating[a])[1] \in Keys
    /\ settings' = [settings EXCEPT ![Head(updating[a])[1]] = Head(updating[a])[2]]
    /\ updating' = [updating EXCEPT ![a] = Tail(@)]
    /\ UNCHANGED <<rules, capacities, customerVars, asked, mixed, changes>>
\* An unknown key ends the update; what came before it stays.
SettingNotFound(a) ==
    /\ updating[a] # <<>> /\ Head(updating[a])[1] \notin Keys
    /\ updating' = [updating EXCEPT ![a] = <<>>]
    /\ mixed' = TRUE
    /\ UNCHANGED <<tariffVars, customerVars, asked, changes>>

----------------------------------------------------------------------------
(* The customer *)

Paid(b) == bookings[b] \notin {Null, "PENDING_PAYMENT", "CANCELLED"}
\* The customer's first booking: none is paid, under way to a driver or done.
IsFirst == \A b \in Bookings : bookings[b] \notin {"COMPLETED", "PAID", "ASSIGNED"}

GetQuote ==
    /\ quote' = [first |-> IsFirst, earlier |-> {b \in Bookings : Paid(b)}]
    /\ UNCHANGED <<tariffVars, bookings, updateVars, changes>>
Book(b) ==
    /\ quote # Null /\ bookings[b] = Null
    /\ bookings' = [bookings EXCEPT ![b] = "PENDING_PAYMENT"]
    /\ quote' = Null
    /\ UNCHANGED <<tariffVars, updateVars, changes>>

\* What the other parts of the system do with a booking.
StatusAfter(s) ==
    CASE s = "PENDING_PAYMENT" -> {"PAID", "CANCELLED"}
      [] s = "PAID" -> {"ASSIGNED", "CANCELLED", "REFUNDED"}
      [] s = "ASSIGNED" -> {"IN_PROGRESS", "CANCELLED", "REFUNDED", "NO_SHOW"}
      [] s = "IN_PROGRESS" -> {"COMPLETED"}
      [] OTHER -> {}
Progress(b) ==
    /\ bookings[b] # Null
    /\ \E s \in StatusAfter(bookings[b]) : bookings' = [bookings EXCEPT ![b] = s]
    /\ UNCHANGED <<tariffVars, quote, updateVars, changes>>

QuotesNext ==
    \/ \E row \in RuleRows : CreatePricingRule(row)
    \/ \E i \in DOMAIN rules : DeletePricingRule(i)
    \/ \E i \in DOMAIN rules, row \in RuleRows : UpdatePricingRule(i, row)
    \/ \E v \in VehicleTypes, row \in Capacities : UpdateVehicleCapacity(v, row)
    \/ \E a \in Admins :
        \/ \E u \in Updates : BulkUpdateSettings(a, u)
        \/ UpdateSetting(a) \/ SettingNotFound(a)
    \/ GetQuote
    \/ \E b \in Bookings : Book(b) \/ Progress(b)

QuotesSpec == QuotesInit /\ [][QuotesNext]_quoteVars

----------------------------------------------------------------------------
(* Properties *)

\* A customer sees one price: the list of all vehicles, the quote of the one
\* that is chosen and the older endpoint compute it in different orders of
\* discounts and rounding (quote.service.ts:578, :612, :664), and differ by
\* two pence at most, whatever the tariff.
Near(x, y, n) == x - y <= Pence(n) /\ y - x <= Pence(n)
QuotesAgree ==
    \A v \in VehicleTypes, j, k \in Journeys, first \in BOOLEAN :
        /\ CanAccommodate(v, j) =>
            Near(ListedSingle(v, j, first), SingleQuote(v, j, first), 1)
        /\ CanAccommodate(v, j) /\ ~k.meetAndGreet =>
            Near(ListedReturn(v, j, k, first), ReturnQuote(v, j, k, first), 2)
        /\ Near(LegacyReturnQuote(v, j), ReturnQuote(v, j, j, FALSE), 1)

\* The loop over the hundreds of miles charges every mile once, at the rate of
\* its hundred, which falls by the reduction but not below a penny
\* (quote.service.ts:312).
MileRate(rate, reduction, mile) ==
    IF mile <= Tier THEN rate
    ELSE Most(Pence(1), rate - reduction * ((mile - 1) \div Tier))
\* Mile by mile.
PerMile(rate, reduction, miles) ==
    LET upTo[m \in 0 .. miles] ==
            IF m = 0 THEN 0 ELSE upTo[m - 1] + MileRate(rate, reduction, m)
    IN  upTo[miles]
TieredIsPerMile ==
    \A v \in VehicleTypes, j \in Journeys :
        DistanceCharge(v, j.miles) =
            PerMile(PerMileRate(v, j.miles), Pence(capacities[v].reduction), j.miles)

\* A longer journey costs no less, as long as no multiplier makes the short
\* ones dearer (quote.service.ts:292), whatever rules and reductions apply.
LongerCostsMore ==
    Setting("SHORT_DISTANCE_MULTIPLIER") = 1 =>
        \A v \in VehicleTypes, j \in Journeys :
            DistanceCharge(v, j.miles) < DistanceCharge(v, j.miles + 1)

\* The night is the hours from its start to its end on the next day, when it
\* passes midnight (quote.service.ts:350).  With a start before the end the
\* code takes every hour for night.
InWindow(hour) ==
    (hour - Setting("NIGHT_HOURS_START")) % 24
        < (Setting("NIGHT_HOURS_END") - Setting("NIGHT_HOURS_START")) % 24
NightIsWindow ==
    Setting("NIGHT_HOURS_START") > Setting("NIGHT_HOURS_END") =>
        \A hour \in 0 .. 23 : IsNight(hour) <=> InWindow(hour)

\* After bulk updates that ran one after the other, all their settings are as
\* last asked for: they are made one by one (system-settings.service.ts:108),
\* and an unknown key ends them half done.
SettingsAsAsked ==
    ~mixed /\ (\A a \in Admins : updating[a] = <<>>) => settings = asked

\* The tariff is what administrators asked for, and counts miles and hours once.
TariffHolds ==
    TieredIsPerMile /\ LongerCostsMore /\ NightIsWindow /\ SettingsAsAsked

\* prisma/seed.ts:431, "10% discount for first-time customers".  A customer
\* whose paid journey is under way is a first-time customer again.
FirstTimeOnly == quote # Null /\ quote.first => quote.earlier = {}

\* As NightIsWindow, for every start and end "(24h format, 0-23)".
NightIsAnyWindow == \A hour \in 0 .. 23 : IsNight(hour) <=> InWindow(hour)

\* As LongerCostsMore, with any multiplier.
LongerAlwaysCostsMore ==
    \A v \in VehicleTypes, j \in Journeys :
        DistanceCharge(v, j.miles) < DistanceCharge(v, j.miles + 1)
=============================================================================
