------------------------------- MODULE Jalali -------------------------------
(***************************************************************************)
(* The Persian date of a Gregorian one, which every page shows in place of *)
(* it (src/apps/core/jalali.py): a computation with days, cycles of 33 and *)
(* of 4 years and no table of leap years.                                  *)
(***************************************************************************)
EXTENDS Integers, Sequences

GREGORIAN_DAYS_IN_MONTH == <<0, 31, 59, 90, 120, 151, 181, 212, 243, 273, 304, 334>>

EveryFourthYear(gy, gm) ==      \* faulty: no exception for the centuries
    LET gy2 == IF gm > 2 THEN gy + 1 ELSE gy IN (gy2 + 3) \div 4

(* The leap days of the years before gy, and that of gy once February is over. *)
LeapDays(gy, gm) ==
    LET gy2 == IF gm > 2 THEN gy + 1 ELSE gy IN
    (gy2 + 3) \div 4 - (gy2 + 99) \div 100 + (gy2 + 399) \div 400

(* The days since Nowruz of the year 979, for a date after the year 1600,  *)
(* or of the year 0.                                                       *)
Epoch(gy) == IF gy > 1600 THEN [jy |-> 979, gy |-> 1600] ELSE [jy |-> 0, gy |-> 621]

DaysSinceEpoch(gy, gm, gd) ==
    365 * gy + LeapDays(gy, gm) - 80 + gd + GREGORIAN_DAYS_IN_MONTH[gm]

(* The year and the day of the year, counted from 0, after so many days.   *)
YearAndDay(days) ==
    LET cycle == days % 12053
        rest == cycle % 1461
        years == 33 * (days \div 12053) + 4 * (cycle \div 1461)
    IN
    IF rest > 365 THEN [year |-> years + (rest - 1) \div 365, day |-> (rest - 1) % 365]
    ELSE [year |-> years, day |-> rest]

(* Six months of 31 days, then months of 30.                               *)
MonthAndDay(day) ==
    IF day < 186 THEN <<1 + day \div 31, 1 + (day % 31)>>
    ELSE <<7 + (day - 186) \div 30, 1 + ((day - 186) % 30)>>

gregorian_to_jalali(gy, gm, gd) ==
    LET epoch == Epoch(gy)
        passed == YearAndDay(DaysSinceEpoch(gy - epoch.gy, gm, gd))
    IN
    <<epoch.jy + passed.year>> \o MonthAndDay(passed.day)

-----------------------------------------------------------------------------
(* The reference: how the two calendars go on from one day to the next.    *)

IsLeapYear(gy) == gy % 4 = 0 /\ (gy % 100 = 0 => gy % 400 = 0)

MonthLength(gy, gm) ==
    CASE gm \in {4, 6, 9, 11} -> 30
      [] gm = 2 -> IF IsLeapYear(gy) THEN 29 ELSE 28
      [] OTHER -> 31

DatesOf(gy) == UNION {{<<gy, gm, gd>> : gd \in 1..MonthLength(gy, gm)} : gm \in 1..12}

Tomorrow(d) ==
    CASE d[3] < MonthLength(d[1], d[2]) -> <<d[1], d[2], d[3] + 1>>
      [] d[3] = MonthLength(d[1], d[2]) /\ d[2] < 12 -> <<d[1], d[2] + 1, 1>>
      [] OTHER -> <<d[1] + 1, 1, 1>>

(* The last month has 29 days, or 30 in a leap year.                       *)
JalaliTomorrows(j) ==
    LET first == IF j[2] < 12 THEN <<j[1], j[2] + 1, 1>> ELSE <<j[1] + 1, 1, 1>>
        lengths == IF j[2] < 7 THEN {31} ELSE IF j[2] < 12 THEN {30} ELSE {29, 30}
    IN
    IF j[3] \in lengths THEN {first} \cup (IF j[3] = 29 THEN {<<j[1], 12, 30>>} ELSE {})
    ELSE {<<j[1], j[2], j[3] + 1>>}

JalaliOf(d) == gregorian_to_jalali(d[1], d[2], d[3])

(* No date is left out or shown twice after this one, and the year begins  *)
(* with spring.                                                            *)
GoesOn(d) ==
    LET shown == JalaliOf(d) IN
    /\ JalaliOf(Tomorrow(d)) \in JalaliTomorrows(shown)
    /\ <<shown[2], shown[3]>> = <<1, 1>> =>
          d[2] = 3 /\ d[3] \in 20..22 /\ shown[1] = d[1] - 621

DaysLater(d, n) ==
    LET later[k \in 0..n] == IF k = 0 THEN d ELSE LET before == later[k - 1] IN Tomorrow(before)
    IN later[n]
=============================================================================
