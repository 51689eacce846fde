----------------------------- MODULE MCOffice ------------------------------
(* Instances of Quotes and of Notices for TLC, which share nothing: a        *)
(* behaviour is one of the tariff, in amounts that round unevenly, one of    *)
(* letters beside a single check of papers, or one of checks on several      *)
(* days, while papers change.                                                *)
EXTENDS Quotes, Notices, TLC

CONSTANTS saloon, estate, a1, a2, b1, b2, cu, o1, o2, admin, h1, j1, doc, mot, logbook, van

SeedSettings ==
    LET plain(t, x) == <<t, Null>> :> x
    IN  (<<"BASE_FARE", saloon>> :> 503) @@ (<<"BASE_FARE", estate>> :> 777)
        @@ (<<"PER_MILE_RATE", saloon>> :> 33) @@ (<<"PER_MILE_RATE", estate>> :> 41)
        @@ plain("MINIMUM_MILES_THRESHOLD", 3) @@ plain("SHORT_DISTANCE_MULTIPLIER", 1)
        @@ plain("NIGHT_HOURS_START", 22) @@ plain("NIGHT_HOURS_END", 6)
        @@ plain("NIGHT_SURCHARGE", 25) @@ plain("PEAK_SURCHARGE", 10)
        @@ plain("PEAK_MORNING_START", 7) @@ plain("PEAK_MORNING_END", 9)
        @@ plain("PEAK_EVENING_START", 17) @@ plain("PEAK_EVENING_END", 19)
        @@ plain("PEAK_WEEKDAYS_ONLY", TRUE) @@ plain("HOLIDAY_SURCHARGE", 50)
        @@ plain("MEET_AND_GREET", 1000) @@ plain("RETURN_DISCOUNT", 5)
        @@ plain("CHILD_SEAT", 99) @@ plain("BOOSTER_SEAT", 51)
        @@ plain("AIRPORT_FEE", 500) @@ plain("NEW_BOOKING_DISCOUNT_PERCENT", 10)

Fleet == {[maxPassengers |-> 3, maxSuitcases |-> 2, reduction |-> 0,
           isActive |-> TRUE],
          [maxPassengers |-> 2, maxSuitcases |-> 2, reduction |-> 15,
           isActive |-> TRUE]}

General == [key |-> <<"PER_MILE_RATE", Null>>, value |-> 150, isActive |-> TRUE]
InitialRules == <<General>>
Rows ==
    {General,
     [key |-> <<"PER_MILE_RATE", saloon>>, value |-> 27, isActive |-> TRUE],
     [key |-> <<"PER_MILE_RATE", saloon>>, value |-> 27, isActive |-> FALSE],
     [key |-> <<"RETURN_DISCOUNT", Null>>, value |-> 7, isActive |-> TRUE]}

Bulk == {
    << <<<<"NIGHT_HOURS_START", Null>>, 23>>, <<<<"NIGHT_HOURS_END", Null>>, 5>> >>,
    << <<<<"NIGHT_HOURS_START", Null>>, 1>>, <<<<"NIGHT_HOURS_END", Null>>, 5>> >>,
    << <<<<"SHORT_DISTANCE_MULTIPLIER", Null>>, 2>>, <<<<"UNKNOWN", Null>>, 0>> >> }

Trip(miles, hour, holiday, meet, seats) ==
    [miles |-> miles, hour |-> hour, weekday |-> TRUE, holiday |-> holiday,
     airport |-> meet, meetAndGreet |-> meet, childSeats |-> seats,
     boosterSeats |-> seats, passengers |-> 1 + seats, luggage |-> seats]
Trips == {Trip(0, 12, FALSE, FALSE, 0), Trip(1, 8, TRUE, TRUE, 1),
          Trip(2, 3, FALSE, FALSE, 1), Trip(5, 23, TRUE, FALSE, 0),
          Trip(7, 12, FALSE, FALSE, 2)}

Lists == [j \in JobIds |-> <<o1, o2>>]
Holders == [p \in Papers |-> o1]
Vans == [p \in Papers |-> IF p = doc THEN Nobody ELSE van]

VARIABLE desk

OfficeInit ==
    /\ QuotesInit /\ NoticesInit
    /\ \/ desk = "tariff" /\ expiresAt = [p \in Papers |-> Nobody]
       \/ /\ desk \in {"letters", "papers"} /\ capacities[saloon].reduction = 0
          /\ \A p \in {mot, logbook} : expiresAt[p] # 8
OfficeNext ==
    /\ \/ desk = "tariff" /\ QuotesNext /\ UNCHANGED noticeVars
       \/ /\ desk = "letters" /\ NoticesNext /\ UNCHANGED quoteVars
          /\ day' <= 1 /\ edits' = 0
       \/ /\ desk = "papers" /\ NoticesNext /\ UNCHANGED quoteVars
          /\ notices' = 0 /\ edits' + faults' <= 1
    /\ UNCHANGED desk
OfficeSpec == OfficeInit /\ [][OfficeNext]_<<quoteVars, noticeVars, desk>>

\* The properties of Quotes, which are costly, where they can fail.
TariffQuotesAgree == desk = "tariff" => QuotesAgree
TariffAsAsked == desk = "tariff" => TariffHolds

Slots == Permutations({a1, a2})
=============================================================================
