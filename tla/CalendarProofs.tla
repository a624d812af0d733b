--------------------------- MODULE CalendarProofs ---------------------------
(***************************************************************************)
(* The Persian dates of a thousand years: they follow each other day by    *)
(* day and the year begins with spring.  The code counts days since the    *)
(* Nowruz of 979; the proof finds the first day of each Persian year and   *)
(* of each March on that scale.                                            *)
(***************************************************************************)
EXTENDS AcademyProofs

(* The first day of Persian year y, counted as DaysSinceEpoch counts.      *)
NewYear(y) == 365 * y + 8 * (y \div 33) + ((y % 33) + 3) \div 4

LEMMA YearsFollow ==
    ASSUME NEW y \in Nat
    PROVE  /\ NewYear(y) \in Nat
           /\ NewYear(y + 1) - NewYear(y) \in {365, 366}
    BY DEF NewYear

InOrder(x, y) == NewYear(x + 1) <= NewYear(y)

LEMMA YearsAreOrdered ==
    ASSUME NEW x \in Nat, NEW y \in Nat, x < y
    PROVE  InOrder(x, y)
    BY DEF InOrder, NewYear

LEMMA DayOfYear ==
    ASSUME NEW days \in Nat
    PROVE  LET p == YearAndDay(days) IN
           /\ p = [year |-> p.year, day |-> p.day]
           /\ p.year \in Nat /\ p.day \in 0..365
           /\ days = NewYear(p.year) + p.day /\ days < NewYear(p.year + 1)
<1> DEFINE a == days \div 12053
           cycle == days % 12053
           c == cycle \div 1461
           rest == cycle % 1461
<1>1. /\ a \in Nat /\ cycle \in 0..12052 /\ days = 12053 * a + cycle
    OBVIOUS
<1>2. c \in 0..8 /\ rest \in 0..1460 /\ cycle = 1461 * c + rest
    BY <1>1
<1>3. c = 8 => rest <= 364
    BY <1>1, <1>2
<1>4. CASE rest > 365
    <2> DEFINE i == (rest - 1) \div 365
               k == (rest - 1) % 365
               y == 33 * a + 4 * c + i
    <2>1. i \in 1..3 /\ k \in 0..364 /\ rest = 365 * i + k + 1
        BY <1>2, <1>4
    <2>2. YearAndDay(days) = [year |-> y, day |-> k]
        BY <1>4 DEF YearAndDay
    <2> HIDE DEF i, k, a, cycle, c, rest
    <2>3. y \div 33 = a /\ y % 33 = 4 * c + i
        BY <1>1, <1>2, <1>3, <1>4, <2>1
    <2>4. (4 * c + i + 3) \div 4 = c + 1 /\ y \in Nat /\ y = 33 * a + 4 * c + i
        BY <1>1, <1>2, <2>1
    <2> HIDE DEF y
    <2>5. NewYear(y) = 365 * y + 8 * a + c + 1
        BY <1>1, <1>2, <2>1, <2>3, <2>4 DEF NewYear
    <2>6. NewYear(y) + k = days
        BY <1>1, <1>2, <2>1, <2>4, <2>5
    <2>7. NewYear(y) \in Nat /\ NewYear(y + 1) \in Nat /\ NewYear(y + 1) >= NewYear(y) + 365
        BY <2>4, YearsFollow
    <2>8. days < NewYear(y + 1)
        BY <2>1, <2>6, <2>7
    <2>. QED
        BY <2>1, <2>2, <2>4, <2>6, <2>8
<1>5. CASE ~(rest > 365)
    <2> DEFINE y == 33 * a + 4 * c
    <2>2. YearAndDay(days) = [year |-> y, day |-> rest]
        BY <1>5 DEF YearAndDay
    <2> HIDE DEF a, cycle, c, rest
    <2>3. y \div 33 = a /\ y % 33 = 4 * c
        BY <1>1, <1>2
    <2>4. (4 * c + 3) \div 4 = c /\ y \in Nat /\ y = 33 * a + 4 * c
        BY <1>1, <1>2
    <2> HIDE DEF y
    <2>5. NewYear(y) = 365 * y + 8 * a + c
        BY <1>1, <1>2, <2>3, <2>4 DEF NewYear
    <2>6. NewYear(y) + rest = days
        BY <1>1, <1>2, <2>4, <2>5
    <2>7. NewYear(y + 1) > days
        <3>1. CASE c = 8
            <4>1. NewYear(y) \in Nat /\ NewYear(y + 1) \in Nat /\ NewYear(y + 1) >= NewYear(y) + 365
                BY <2>4, YearsFollow
            <4>. QED
                BY <1>2, <1>3, <2>6, <3>1, <4>1
        <3>2. CASE c < 8
            <4> DEFINE z == y + 1
            <4>1. z \div 33 = a /\ z % 33 = 4 * c + 1 /\ z \in Nat /\ z = y + 1
                BY <1>1, <1>2, <2>4, <3>2
            <4>2. (4 * c + 1 + 3) \div 4 = c + 1
                BY <1>2
            <4> HIDE DEF z
            <4>3. NewYear(z) = 365 * z + 8 * a + c + 1
                BY <1>1, <1>2, <4>1, <4>2 DEF NewYear
            <4>4. NewYear(y + 1) = 365 * (y + 1) + 8 * a + c + 1
                BY <4>1, <4>3
            <4>. QED
                BY <1>1, <1>2, <1>5, <2>4, <2>5, <2>6, <4>4
        <3>. QED
            BY <1>2, <3>1, <3>2
    <2>. QED
        BY <1>1, <1>2, <1>5, <2>2, <2>4, <2>6, <2>7
<1>. QED
    BY <1>4, <1>5

LEMMA YearOfDay ==
    ASSUME NEW y \in Nat, NEW k \in Nat, NewYear(y) + k < NewYear(y + 1)
    PROVE  YearAndDay(NewYear(y) + k) = [year |-> y, day |-> k]
<1> DEFINE days == NewYear(y) + k
           p == YearAndDay(days)
<1>1. NewYear(y) \in Nat /\ days \in Nat
    BY YearsFollow
<1>2. /\ p = [year |-> p.year, day |-> p.day]
      /\ p.year \in Nat /\ p.day \in 0..365
      /\ days = NewYear(p.year) + p.day /\ days < NewYear(p.year + 1)
    <2> HIDE DEF days
    <2>. QED
        BY <1>1, DayOfYear
<1> HIDE DEF p
<1>3. NewYear(p.year) \in Nat /\ NewYear(p.year + 1) \in Nat /\ NewYear(y + 1) \in Nat
    BY <1>2, YearsFollow
<1>4. ~(p.year < y)
    BY <1>1, <1>2, <1>3, YearsAreOrdered DEF InOrder
<1>5. ~(y < p.year)
    BY <1>1, <1>2, <1>3, YearsAreOrdered DEF InOrder
<1>6. p.year = y
    BY <1>2, <1>4, <1>5
<1>. QED
    BY <1>1, <1>2, <1>6 DEF p

(* March 0 of the year y after 1600.                                       *)
March(y) == 365 * y + (y + 4) \div 4 - (y + 100) \div 100 + (y + 400) \div 400 - 21

InSpring(y) == NewYear(y) - March(y) \in 20..22

LEMMA SpringBegins ==
    ASSUME NEW y \in Nat, y <= 3695
    PROVE  InSpring(y)
    BY SMTT(60) DEF InSpring, NewYear, March

-----------------------------------------------------------------------------
(* The days of the Gregorian calendar, numbered as the code numbers them.  *)

IsDate(d) ==
    /\ d = <<d[1], d[2], d[3]>> /\ d[1] \in Nat /\ d[1] > 1600 /\ d[2] \in 1..12
    /\ d[3] \in 1..MonthLength(d[1], d[2])

DayNumber(d) == DaysSinceEpoch(d[1] - 1600, d[2], d[3])

LEMMA LengthOfMonth ==
    ASSUME NEW gy \in Nat, NEW gm \in 1..12
    PROVE  /\ gm \in {4, 6, 9, 11} => MonthLength(gy, gm) = 30
           /\ gm = 2 => MonthLength(gy, gm) = IF IsLeapYear(gy) THEN 29 ELSE 28
           /\ gm \in {1, 3, 5, 7, 8, 10, 12} => MonthLength(gy, gm) = 31
<1>1. CASE gm \in {4, 6, 9, 11}
    <2>1. gm # 2 /\ gm \notin {1, 3, 5, 7, 8, 10, 12}
        BY <1>1
    <2>2. MonthLength(gy, gm) = 30
        BY <1>1, <2>1, Zenon DEF MonthLength
    <2>. QED
        BY <2>1, <2>2
<1>2. CASE gm = 2
    <2>1. gm \notin {4, 6, 9, 11} /\ gm \notin {1, 3, 5, 7, 8, 10, 12}
        BY <1>2
    <2>2. MonthLength(gy, gm) = IF IsLeapYear(gy) THEN 29 ELSE 28
        BY <1>2, <2>1, Zenon DEF MonthLength
    <2>. QED
        BY <2>1, <2>2
<1>3. CASE gm \in {1, 3, 5, 7, 8, 10, 12}
    <2>1. gm \notin {4, 6, 9, 11} /\ gm # 2
        BY <1>3
    <2>2. MonthLength(gy, gm) = 31
        BY <2>1, Zenon DEF MonthLength
    <2>. QED
        BY <2>1, <2>2
<1>. QED
    BY <1>1, <1>2, <1>3

LEMMA DaysBeforeMonth ==
    /\ GREGORIAN_DAYS_IN_MONTH[1] = 0 /\ GREGORIAN_DAYS_IN_MONTH[2] = 31
    /\ GREGORIAN_DAYS_IN_MONTH[3] = 59 /\ GREGORIAN_DAYS_IN_MONTH[4] = 90
    /\ GREGORIAN_DAYS_IN_MONTH[5] = 120 /\ GREGORIAN_DAYS_IN_MONTH[6] = 151
    /\ GREGORIAN_DAYS_IN_MONTH[7] = 181 /\ GREGORIAN_DAYS_IN_MONTH[8] = 212
    /\ GREGORIAN_DAYS_IN_MONTH[9] = 243 /\ GREGORIAN_DAYS_IN_MONTH[10] = 273
    /\ GREGORIAN_DAYS_IN_MONTH[11] = 304 /\ GREGORIAN_DAYS_IN_MONTH[12] = 334
    BY DEF GREGORIAN_DAYS_IN_MONTH

LEMMA TomorrowIs ==
    ASSUME NEW d, IsDate(d)
    PROVE  /\ d[3] # MonthLength(d[1], d[2]) => Tomorrow(d) = <<d[1], d[2], d[3] + 1>>
           /\ d[3] = MonthLength(d[1], d[2]) /\ d[2] # 12 => Tomorrow(d) = <<d[1], d[2] + 1, 1>>
           /\ d[3] = MonthLength(d[1], d[2]) /\ d[2] = 12 => Tomorrow(d) = <<d[1] + 1, 1, 1>>
<1> DEFINE length == MonthLength(d[1], d[2])
<1>1. length \in Nat
    BY LengthOfMonth DEF IsDate
<1>2. /\ d[3] # length <=> d[3] < length
      /\ d[2] # 12 <=> d[2] < 12
    BY <1>1 DEF IsDate
<1>3. CASE d[3] # length
    BY <1>2, <1>3, Zenon DEF Tomorrow
<1>4. CASE d[3] = length /\ d[2] # 12
    BY <1>2, <1>4, Zenon DEF Tomorrow
<1>5. CASE d[3] = length /\ d[2] = 12
    BY <1>2, <1>5, Zenon DEF Tomorrow
<1>. QED
    BY <1>3, <1>4, <1>5

LEMMA LeapDaysPass ==
    ASSUME NEW y \in Nat
    PROVE  /\ \A gm \in 1..2 : LeapDays(y, gm) = (y + 3) \div 4 - (y + 99) \div 100 + (y + 399) \div 400
           /\ \A gm \in 3..12 : LeapDays(y, gm) = (y + 4) \div 4 - (y + 100) \div 100 + (y + 400) \div 400
<1>1. (y + 1) + 3 = y + 4 /\ (y + 1) + 99 = y + 100 /\ (y + 1) + 399 = y + 400
    OBVIOUS
<1>. QED
    BY <1>1 DEF LeapDays

LEMMA LeapDayPasses ==
    ASSUME NEW gy \in Nat, gy > 1600
    PROVE  LeapDays(gy - 1600, 3) - LeapDays(gy - 1600, 2) = IF IsLeapYear(gy) THEN 1 ELSE 0
<1> DEFINE y == gy - 1600
<1>1. y \in Nat /\ gy = y + 1600
    OBVIOUS
<1>2. gy % 4 = y % 4 /\ gy % 100 = y % 100 /\ gy % 400 = y % 400
    BY <1>1
<1>3. /\ (y + 4) \div 4 - (y + 3) \div 4 = IF y % 4 = 0 THEN 1 ELSE 0
      /\ (y + 100) \div 100 - (y + 99) \div 100 = IF y % 100 = 0 THEN 1 ELSE 0
      /\ (y + 400) \div 400 - (y + 399) \div 400 = IF y % 400 = 0 THEN 1 ELSE 0
    BY <1>1
<1>4. (y % 400 = 0 => y % 100 = 0) /\ (y % 100 = 0 => y % 4 = 0)
    BY <1>1
<1>5. IsLeapYear(gy) <=> y % 4 = 0 /\ (y % 100 = 0 => y % 400 = 0)
    BY <1>2 DEF IsLeapYear
<1> HIDE DEF y
<1>6. /\ LeapDays(y, 2) = (y + 3) \div 4 - (y + 99) \div 100 + (y + 399) \div 400
      /\ LeapDays(y, 3) = (y + 4) \div 4 - (y + 100) \div 100 + (y + 400) \div 400
    BY <1>1, LeapDaysPass
<1>7. LeapDays(y, 3) - LeapDays(y, 2) = IF IsLeapYear(gy) THEN 1 ELSE 0
    BY <1>1, <1>3, <1>4, <1>5, <1>6
<1>. QED
    BY <1>7 DEF y

LEMMA DayNumberIs ==
    ASSUME NEW d, IsDate(d)
    PROVE  /\ DayNumber(d) = 365 * (d[1] - 1600) + LeapDays(d[1] - 1600, d[2]) - 80 + d[3]
                                 + GREGORIAN_DAYS_IN_MONTH[d[2]]
           /\ LeapDays(d[1] - 1600, d[2]) \in Nat /\ GREGORIAN_DAYS_IN_MONTH[d[2]] \in Nat
           /\ DayNumber(d) \in Nat
<1> DEFINE y == d[1] - 1600
<1>1. y \in Nat /\ y >= 1 /\ d[2] \in 1..12 /\ d[3] \in Nat /\ d[3] >= 1
    BY LengthOfMonth DEF IsDate
<1>2. DayNumber(d) = 365 * y + LeapDays(y, d[2]) - 80 + d[3] + GREGORIAN_DAYS_IN_MONTH[d[2]]
    BY DEF DayNumber, DaysSinceEpoch
<1>3. GREGORIAN_DAYS_IN_MONTH[d[2]] \in Nat
    BY <1>1, DaysBeforeMonth
<1> HIDE DEF y
<1>4. LeapDays(y, d[2]) \in Nat
    <2>1. CASE d[2] \in 1..2
        BY <1>1, <2>1, LeapDaysPass
    <2>2. CASE d[2] \in 3..12
        BY <1>1, <2>2, LeapDaysPass
    <2>. QED
        BY <1>1, <2>1, <2>2
<1>5. DayNumber(d) \in Nat
    BY <1>1, <1>2, <1>3, <1>4
<1>. QED
    BY <1>2, <1>3, <1>4, <1>5 DEF y

(* The numbers go up by one, month's ends, leap days and centuries included. *)
LEMMA TomorrowIsNext ==
    ASSUME NEW d, IsDate(d)
    PROVE  /\ IsDate(Tomorrow(d)) /\ DayNumber(Tomorrow(d)) = DayNumber(d) + 1
           /\ Tomorrow(d)[1] \in {d[1], d[1] + 1}
<1> DEFINE gy == d[1]
           gm == d[2]
           gd == d[3]
           e == Tomorrow(d)
<1>1. d = <<gy, gm, gd>> /\ gy \in Nat /\ gy > 1600 /\ gm \in 1..12 /\ gd \in 1..MonthLength(gy, gm)
    BY DEF IsDate
<1>2. MonthLength(gy, gm) \in 28..31 /\ \A m \in 1..12 : \A y \in Nat : MonthLength(y, m) \in 28..31
    BY <1>1, LengthOfMonth
<1>3. CASE gd # MonthLength(gy, gm)
    <2>1. e = <<gy, gm, gd + 1>>
        BY <1>3, TomorrowIs
    <2>2. IsDate(e)
        BY <1>1, <1>2, <1>3, <2>1 DEF IsDate
    <2>3. DayNumber(e) = DayNumber(d) + 1
        BY <1>1, <2>1, <2>2, DayNumberIs
    <2>. QED
        BY <2>1, <2>2, <2>3
<1>4. CASE gd = MonthLength(gy, gm) /\ gm # 12
    <2>1. e = <<gy, gm + 1, 1>>
        BY <1>4, TomorrowIs
    <2>2. IsDate(e)
        BY <1>1, <1>2, <1>4, <2>1 DEF IsDate
    <2> DEFINE y == gy - 1600
    <2>3. y \in Nat
        BY <1>1
    <2>4. /\ DayNumber(d) = 365 * y + LeapDays(y, gm) - 80 + gd + GREGORIAN_DAYS_IN_MONTH[gm]
          /\ DayNumber(e) = 365 * y + LeapDays(y, gm + 1) - 80 + 1 + GREGORIAN_DAYS_IN_MONTH[gm + 1]
          /\ LeapDays(y, gm) \in Nat /\ LeapDays(y, gm + 1) \in Nat
        BY <2>1, <2>2, DayNumberIs
    <2>5. CASE gm = 2
        <3>1. LeapDays(y, 3) - LeapDays(y, 2) = IF IsLeapYear(gy) THEN 1 ELSE 0
            BY <1>1, LeapDayPasses
        <3>2. gd = IF IsLeapYear(gy) THEN 29 ELSE 28
            BY <1>1, <1>4, <2>5, LengthOfMonth
        <3> HIDE DEF y, gd
        <3>3. DayNumber(e) = DayNumber(d) + 1
            BY <2>3, <2>4, <2>5, <3>1, <3>2, DaysBeforeMonth
        <3>. QED
            BY <2>1, <2>2, <3>3
    <2>6. CASE gm # 2
        <3>1. LeapDays(y, gm + 1) = LeapDays(y, gm)
            <4>1. gm = 1 \/ (gm \in 3..12 /\ gm + 1 \in 3..12)
                BY <1>1, <1>4, <2>6
            <4> HIDE DEF y
            <4>2. CASE gm = 1
                BY <2>3, <4>2, LeapDaysPass
            <4>3. CASE gm \in 3..12 /\ gm + 1 \in 3..12
                BY <2>3, <4>3, LeapDaysPass
            <4>. QED
                BY <4>1, <4>2, <4>3
        <3>2. GREGORIAN_DAYS_IN_MONTH[gm + 1] = GREGORIAN_DAYS_IN_MONTH[gm] + gd
            BY <1>1, <1>4, <2>6, LengthOfMonth, DaysBeforeMonth
        <3>3. GREGORIAN_DAYS_IN_MONTH[gm] \in Nat
            BY <1>1, DaysBeforeMonth
        <3> HIDE DEF y
        <3>4. DayNumber(e) = DayNumber(d) + 1
            BY <1>1, <1>2, <2>3, <2>4, <3>1, <3>2, <3>3
        <3>. QED
            BY <2>1, <2>2, <3>4
    <2>. QED
        BY <2>5, <2>6
<1>5. CASE gd = MonthLength(gy, gm) /\ gm = 12
    <2>1. e = <<gy + 1, 1, 1>>
        BY <1>5, TomorrowIs
    <2>2. IsDate(e)
        BY <1>1, <1>2, <2>1 DEF IsDate
    <2> DEFINE y == gy - 1600
    <2>3. y \in Nat /\ (gy + 1) - 1600 = y + 1
        BY <1>1
    <2>4. /\ DayNumber(d) = 365 * y + LeapDays(y, 12) - 80 + gd + 334
          /\ DayNumber(e) = 365 * (y + 1) + LeapDays(y + 1, 1) - 80 + 1 + 0
          /\ LeapDays(y, 12) \in Nat
        BY <1>5, <2>1, <2>2, <2>3, DayNumberIs, DaysBeforeMonth
    <2>5. gd = 31
        BY <1>1, <1>5, LengthOfMonth
    <2> HIDE DEF y
    <2>6. LeapDays(y + 1, 1) = LeapDays(y, 12)
        <3>1. (y + 1) + 3 = y + 4 /\ (y + 1) + 99 = y + 100 /\ (y + 1) + 399 = y + 400
            BY <2>3
        <3>2. LeapDays(y + 1, 1) = ((y + 1) + 3) \div 4 - ((y + 1) + 99) \div 100 + ((y + 1) + 399) \div 400
            BY <2>3, LeapDaysPass
        <3>3. LeapDays(y, 12) = (y + 4) \div 4 - (y + 100) \div 100 + (y + 400) \div 400
            BY <2>3, LeapDaysPass
        <3>. QED
            BY <3>1, <3>2, <3>3
    <2>7. DayNumber(e) = DayNumber(d) + 1
        BY <2>3, <2>4, <2>5, <2>6
    <2>. QED
        BY <2>1, <2>2, <2>7
<1>. QED
    BY <1>3, <1>4, <1>5

-----------------------------------------------------------------------------
(* The Persian date of a day.                                              *)

Persian(p) == <<979 + p.year>> \o MonthAndDay(p.day)

LEMMA PersianIs ==
    ASSUME NEW p, p.year \in Nat, p.day \in 0..365
    PROVE  /\ p.day < 186 => Persian(p) = <<979 + p.year, 1 + p.day \div 31, 1 + (p.day % 31)>>
           /\ p.day >= 186 =>
                 Persian(p) = <<979 + p.year, 7 + (p.day - 186) \div 30, 1 + ((p.day - 186) % 30)>>
<1>1. ASSUME NEW a, NEW b, NEW c  PROVE <<a>> \o <<b, c>> = <<a, b, c>>
    <2> DEFINE S == {a, b, c}
    <2>1. <<a>> \in Seq(S) /\ <<b, c>> \in Seq(S) /\ Len(<<a>>) = 1 /\ Len(<<b, c>>) = 2
        OBVIOUS
    <2> DEFINE r == <<a>> \o <<b, c>>
    <2>2. /\ r \in Seq(S) /\ Len(r) = 3
          /\ r[1] = a /\ r[2] = b /\ r[3] = c
        BY <2>1, ConcatProperties
    <2> HIDE DEF r
    <2>3. r \in [1..3 -> S]
        BY <2>2
    <2>4. <<a, b, c>> \in [1..3 -> S]
        OBVIOUS
    <2>5. \A i \in 1..3 : r[i] = (<<a, b, c>>)[i]
        BY <2>2
    <2>6. r = <<a, b, c>>
        BY <2>3, <2>4, <2>5
    <2>. QED
        BY <2>6 DEF r
<1>2. CASE p.day < 186
    <2>1. MonthAndDay(p.day) = <<1 + p.day \div 31, 1 + (p.day % 31)>>
        BY <1>2 DEF MonthAndDay
    <2>. QED
        BY <1>1, <1>2, <2>1 DEF Persian
<1>3. CASE p.day >= 186
    <2>1. MonthAndDay(p.day) = <<7 + (p.day - 186) \div 30, 1 + ((p.day - 186) % 30)>>
        BY <1>3 DEF MonthAndDay
    <2>2. ~(p.day < 186)
        BY <1>3
    <2>. QED
        BY <1>1, <1>3, <2>1, <2>2 DEF Persian
<1>. QED
    BY <1>2, <1>3

LEMMA JalaliOfIs ==
    ASSUME NEW d, IsDate(d)
    PROVE  JalaliOf(d) = Persian(YearAndDay(DayNumber(d)))
<1>1. Epoch(d[1]) = [jy |-> 979, gy |-> 1600]
    BY DEF Epoch, IsDate
<1>. QED
    BY <1>1 DEF JalaliOf, gregorian_to_jalali, DayNumber, Persian

NextDays(y, m, k) ==
    LET next == JalaliTomorrows(<<y, m, k>>) IN
    /\ m < 7 /\ k < 31 => <<y, m, k + 1>> \in next
    /\ m < 7 /\ k = 31 => <<y, m + 1, 1>> \in next
    /\ m \in 7..11 /\ k < 30 => <<y, m, k + 1>> \in next
    /\ m \in 7..11 /\ k = 30 => <<y, m + 1, 1>> \in next
    /\ m = 12 /\ k < 30 => <<y, m, k + 1>> \in next
    /\ m = 12 /\ k \in {29, 30} => <<y + 1, 1, 1>> \in next

LEMMA Follows ==
    ASSUME NEW y \in Nat, NEW m \in 1..12, NEW k \in 1..31
    PROVE  NextDays(y, m, k)
<1> DEFINE j == <<y, m, k>>
           next == JalaliTomorrows(j)
           first == IF m < 12 THEN <<y, m + 1, 1>> ELSE <<y + 1, 1, 1>>
           lengths == IF m < 7 THEN {31} ELSE IF m < 12 THEN {30} ELSE {29, 30}
<1>1. next = IF k \in lengths THEN {first} \cup (IF k = 29 THEN {<<y, 12, 30>>} ELSE {})
             ELSE {<<y, m, k + 1>>}
    BY DEF JalaliTomorrows
<1>2. /\ m < 7 => (k \in lengths <=> k = 31)
      /\ m \in 7..11 => (k \in lengths <=> k = 30)
      /\ m = 12 => (k \in lengths <=> k \in {29, 30})
      /\ m # 12 => first = <<y, m + 1, 1>>
      /\ m = 12 => first = <<y + 1, 1, 1>>
    OBVIOUS
<1> HIDE DEF next, lengths, first
<1>3. /\ m < 7 /\ k < 31 => <<y, m, k + 1>> \in next
      /\ m < 7 /\ k = 31 => <<y, m + 1, 1>> \in next
      /\ m \in 7..11 /\ k < 30 => <<y, m, k + 1>> \in next
      /\ m \in 7..11 /\ k = 30 => <<y, m + 1, 1>> \in next
      /\ m = 12 /\ k < 30 => <<y, m, k + 1>> \in next
      /\ m = 12 /\ k \in {29, 30} => <<y + 1, 1, 1>> \in next
    BY <1>1, <1>2
<1>. QED
    BY <1>3, Zenon DEF NextDays, next

(* No date is left out or shown twice.                                     *)
LEMMA PersianDatesFollow ==
    ASSUME NEW days \in Nat
    PROVE  Persian(YearAndDay(days + 1)) \in JalaliTomorrows(Persian(YearAndDay(days)))
<1> DEFINE p == YearAndDay(days)
           y == p.year
           k == p.day
<1>1. /\ p = [year |-> y, day |-> k] /\ y \in Nat /\ k \in 0..365
      /\ days = NewYear(y) + k /\ days < NewYear(y + 1)
    BY DayOfYear
<1>2. NewYear(y) \in Nat /\ NewYear(y + 1) \in Nat /\ NewYear(y + 1) - NewYear(y) \in {365, 366}
    BY <1>1, YearsFollow
<1> DEFINE q == YearAndDay(days + 1)
<1>3. CASE days + 1 < NewYear(y + 1)
    <2>1. k + 1 \in 1..365
        BY <1>1, <1>2, <1>3
    <2>2. q = [year |-> y, day |-> k + 1]
        <3>1. days + 1 = NewYear(y) + (k + 1) /\ k + 1 \in Nat
            BY <1>1, <1>2
        <3> HIDE DEF p, y, k
        <3>. QED
            BY <1>1, <1>3, <3>1, YearOfDay
    <2> HIDE DEF q, y, k
    <2>3. q.year = y /\ q.day = k + 1 /\ p.year = y /\ p.day = k
        BY <2>2 DEF y, k
    <2> HIDE DEF p
    <2>4. CASE k + 1 < 186
        <3> DEFINE m == 1 + k \div 31
                   n == 1 + (k % 31)
        <3>1. /\ m \in 1..6 /\ n \in 1..31 /\ 979 + y \in Nat
              /\ n < 31 => 1 + (k + 1) \div 31 = m /\ 1 + ((k + 1) % 31) = n + 1
              /\ n = 31 => 1 + (k + 1) \div 31 = m + 1 /\ 1 + ((k + 1) % 31) = 1
            BY <1>1, <2>4
        <3>2. Persian(p) = <<979 + y, m, n>>
            BY <1>1, <2>3, <2>4, PersianIs
        <3>3. Persian(q) = <<979 + y, 1 + (k + 1) \div 31, 1 + ((k + 1) % 31)>>
            BY <1>1, <2>1, <2>3, <2>4, PersianIs
        <3> DEFINE z == 979 + y
        <3> HIDE DEF m, n, z
        <3>4. NextDays(z, m, n)
            BY <3>1, Follows DEF z
        <3>5. Persian(q) \in JalaliTomorrows(Persian(p))
            BY <3>1, <3>2, <3>3, <3>4 DEF NextDays, z
        <3>. QED
            BY <3>5 DEF p, q
    <2>5. CASE k = 185
        <3>1. Persian(p) = <<979 + y, 6, 31>>
            BY <1>1, <2>3, <2>5, PersianIs
        <3>2. Persian(q) = <<979 + y, 7, 1>>
            BY <1>1, <2>1, <2>3, <2>5, PersianIs
        <3>3. NextDays(979 + y, 6, 31)
            BY <1>1, Follows
        <3>4. Persian(q) \in JalaliTomorrows(Persian(p))
            BY <3>1, <3>2, <3>3 DEF NextDays
        <3>. QED
            BY <3>4 DEF p, q
    <2>6. CASE k >= 186
        <3> DEFINE m == 7 + (k - 186) \div 30
                   n == 1 + ((k - 186) % 30)
        <3>1. /\ m \in 7..12 /\ n \in 1..30 /\ 979 + y \in Nat /\ (k + 1) - 186 = (k - 186) + 1
              /\ n < 30 => /\ 7 + ((k - 186) + 1) \div 30 = m
                           /\ 1 + (((k - 186) + 1) % 30) = n + 1
              /\ n = 30 => /\ 7 + ((k - 186) + 1) \div 30 = m + 1
                           /\ 1 + (((k - 186) + 1) % 30) = 1
              /\ m = 12 => n < 30
            BY <1>1, <2>1, <2>6
        <3>2. Persian(p) = <<979 + y, m, n>>
            BY <1>1, <2>3, <2>6, PersianIs
        <3>3. Persian(q) = <<979 + y, 7 + ((k - 186) + 1) \div 30, 1 + (((k - 186) + 1) % 30)>>
            <4>1. q.day >= 186 /\ q.day \in 0..365 /\ q.year \in Nat /\ q.day - 186 = (k - 186) + 1
                BY <1>1, <2>1, <2>3, <2>6
            <4>. QED
                BY <2>3, <4>1, PersianIs
        <3> DEFINE z == 979 + y
        <3> HIDE DEF m, n, z
        <3>4. NextDays(z, m, n)
            BY <3>1, Follows DEF z
        <3>5. Persian(q) \in JalaliTomorrows(Persian(p))
            BY <3>1, <3>2, <3>3, <3>4 DEF NextDays, z
        <3>. QED
            BY <3>5 DEF p, q
    <2>. QED
        BY <1>1, <2>4, <2>5, <2>6 DEF p, q
<1>4. CASE ~(days + 1 < NewYear(y + 1))
    <2>1. k \in {364, 365} /\ days + 1 = NewYear(y + 1) + 0
        BY <1>1, <1>2, <1>4
    <2>2. q = [year |-> y + 1, day |-> 0]
        <3>1. y + 1 \in Nat /\ NewYear((y + 1) + 1) - NewYear(y + 1) \in {365, 366}
            BY <1>1, YearsFollow
        <3>2. NewYear(y + 1) + 0 < NewYear((y + 1) + 1)
            <4>1. NewYear((y + 1) + 1) \in Nat
                BY <3>1, YearsFollow
            <4>. QED
                BY <1>2, <3>1, <4>1
        <3> HIDE DEF p, y, k
        <3>. QED
            BY <2>1, <3>1, <3>2, YearOfDay
    <2> HIDE DEF q, y, k
    <2>3. q.year = y + 1 /\ q.day = 0 /\ p.year = y /\ p.day = k
        BY <2>2 DEF y, k
    <2> HIDE DEF p
    <2>4. Persian(q) = <<979 + (y + 1), 1, 1>>
        BY <1>1, <2>3, PersianIs
    <2>5. Persian(p) = <<979 + y, 12, k - 335>>
        BY <1>1, <2>1, <2>3, PersianIs
    <2>6. k - 335 \in {29, 30} /\ 979 + y \in Nat /\ (979 + y) + 1 = 979 + (y + 1)
        BY <1>1, <2>1
    <2> DEFINE z == 979 + y
               n == k - 335
    <2>7. NextDays(z, 12, n)
        BY <2>6, Follows
    <2>8. <<z + 1, 1, 1>> \in JalaliTomorrows(<<z, 12, n>>)
        <3> HIDE DEF z, n
        <3>. QED
            BY <2>6, <2>7 DEF NextDays, n
    <2>. QED
        BY <2>4, <2>5, <2>6, <2>8 DEF p, q
<1>. QED
    BY <1>3, <1>4

-----------------------------------------------------------------------------
(* The year begins with spring, until the cycle of 33 years, which is a    *)
(* little shorter than the Gregorian years, has gone a day wrong in 5296.  *)

MarchHolds(y) ==
    /\ March(y) = 365 * y + LeapDays(y, 3) - 21
    /\ LeapDays(y, 2) \in Int /\ LeapDays(y, 3) \in Int
    /\ March(y) \in Int /\ March(y) >= 365 * y - 21 /\ March(y) <= 366 * y
    /\ March(y + 1) \in Int /\ March(y + 1) - March(y) \in {365, 366}

LEMMA MarchIs ==
    ASSUME NEW y \in Nat
    PROVE  MarchHolds(y)
<1>1. 3 \in 3..12 /\ 2 \in 1..2
    OBVIOUS
<1>2. /\ LeapDays(y, 3) = (y + 4) \div 4 - (y + 100) \div 100 + (y + 400) \div 400
      /\ LeapDays(y, 2) = (y + 3) \div 4 - (y + 99) \div 100 + (y + 399) \div 400
    BY <1>1, LeapDaysPass
<1>3. March(y) = 365 * y + LeapDays(y, 3) - 21 /\ LeapDays(y, 2) \in Int /\ LeapDays(y, 3) \in Int
    BY <1>2 DEF March
<1>4. March(y) \in Int /\ March(y) >= 365 * y - 21 /\ March(y) <= 366 * y
    BY DEF March
<1>5. March(y + 1) \in Int /\ March(y + 1) - March(y) \in {365, 366}
    BY DEF March
<1>. QED
    BY <1>3, <1>4, <1>5 DEF MarchHolds

(* Where in the year a date is.                                            *)
LEMMA DateInYear ==
    ASSUME NEW y \in Nat, NEW d, IsDate(d), d[1] = y + 1600
    PROVE  /\ y >= 1 /\ DayNumber(d) \in Nat
           /\ DayNumber(d) >= March(y) - 59 /\ DayNumber(d) <= March(y) + 306
           /\ DayNumber(d) > March(y) /\ DayNumber(d) <= March(y) + 31 =>
                 d[2] = 3 /\ DayNumber(d) = March(y) + d[3]
<1> DEFINE gm == d[2]
           gd == d[3]
           D == DayNumber(d)
           days == GREGORIAN_DAYS_IN_MONTH[gm]
<1>1. /\ d[1] \in Nat /\ y >= 1 /\ gm \in 1..12 /\ gd \in 1..MonthLength(d[1], gm)
      /\ d[1] > 1600 /\ d[1] - 1600 = y
    BY DEF IsDate
<1>2. D = 365 * y + LeapDays(y, gm) - 80 + gd + days /\ D \in Nat /\ days \in Nat
    BY DayNumberIs
<1>3. MarchHolds(y)
    BY MarchIs
<1>4. LeapDays(y, 3) - LeapDays(y, 2) = IF IsLeapYear(d[1]) THEN 1 ELSE 0
    BY <1>1, LeapDayPasses
<1>5. LeapDays(y, 1) = LeapDays(y, 2) /\ \A m \in 3..12 : LeapDays(y, m) = LeapDays(y, 3)
    BY <1>1, LeapDaysPass
<1>6. /\ March(y) = 365 * y + LeapDays(y, 3) - 21 /\ March(y) \in Int
      /\ LeapDays(y, 2) \in Int /\ LeapDays(y, 3) \in Int
    BY <1>3 DEF MarchHolds
<1> HIDE DEF D, days
<1>7. CASE gm = 1
    <2>1. days = 0 /\ gd \in 1..31
        BY <1>1, <1>7, DaysBeforeMonth, LengthOfMonth DEF days
    <2>2. D >= March(y) - 59 /\ D <= March(y)
        BY <1>1, <1>2, <1>3, <1>4, <1>5, <1>6, <1>7, <2>1
    <2>. QED
        BY <1>1, <1>2, <1>6, <2>2 DEF D
<1>8. CASE gm = 2
    <2>1. days = 31 /\ gd \in 1..IF IsLeapYear(d[1]) THEN 29 ELSE 28
        BY <1>1, <1>8, DaysBeforeMonth, LengthOfMonth DEF days
    <2>2. D >= March(y) - 59 /\ D <= March(y)
        BY <1>1, <1>2, <1>3, <1>4, <1>6, <1>8, <2>1
    <2>. QED
        BY <1>1, <1>2, <1>6, <2>2 DEF D
<1>9. CASE gm = 3
    <2>1. days = 59 /\ gd \in 1..31
        BY <1>1, <1>9, DaysBeforeMonth, LengthOfMonth DEF days
    <2>2. D = March(y) + gd
        BY <1>1, <1>2, <1>3, <1>6, <1>9, <2>1
    <2>. QED
        BY <1>1, <1>2, <1>6, <1>9, <2>1, <2>2 DEF D
<1>10. CASE gm \in 4..12
    <2>1. days >= 90 /\ gd >= 1 /\ days + gd <= 365 /\ gd \in Nat
        BY <1>1, <1>10, DaysBeforeMonth, LengthOfMonth DEF days
    <2>2. LeapDays(y, gm) = LeapDays(y, 3)
        BY <1>5, <1>10
    <2>3. D > March(y) + 31 /\ D <= March(y) + 306
        BY <1>1, <1>2, <1>3, <1>6, <2>1, <2>2
    <2>. QED
        BY <1>1, <1>2, <1>6, <2>3 DEF D
<1>. QED
    BY <1>1, <1>7, <1>8, <1>9, <1>10

(* The day of the Gregorian year on which a Persian year begins.           *)
LEMMA NewYearInYear ==
    ASSUME NEW y \in Nat, y <= 3694, NEW days \in Nat,
           days >= March(y) - 59, days <= March(y) + 306,
           YearAndDay(days).day = 0
    PROVE  YearAndDay(days).year = y /\ days - March(y) \in 20..22
<1> DEFINE x == YearAndDay(days).year
<1>1. x \in Nat /\ days = NewYear(x) + 0
    BY DayOfYear
<1> HIDE DEF x
<1>2. y <= 3695 /\ y + 1 \in Nat /\ y + 1 <= 3695
    OBVIOUS
<1>3. InSpring(y) /\ InSpring(y + 1) /\ MarchHolds(y)
    BY <1>2, SpringBegins, MarchIs
<1>4. /\ March(y) \in Int /\ March(y + 1) \in Int /\ March(y + 1) - March(y) \in {365, 366}
      /\ NewYear(y) - March(y) \in 20..22 /\ NewYear(y + 1) - March(y + 1) \in 20..22
    BY <1>3 DEF InSpring, MarchHolds
<1>5. NewYear(y) \in Nat /\ NewYear(y + 1) \in Nat
    BY <1>2, YearsFollow
<1>6. /\ NewYear(x) \in Nat
      /\ NewYear(x + 1) \in Nat /\ NewYear(x + 1) - NewYear(x) \in {365, 366}
    BY <1>1, YearsFollow
<1>7. ~(x < y)
    <2> SUFFICES ASSUME x < y PROVE FALSE
        OBVIOUS
    <2>1. InOrder(x, y)
        BY <1>1, <1>2, YearsAreOrdered
    <2>. QED
        BY <1>1, <1>4, <1>5, <1>6, <2>1 DEF InOrder
<1>8. ~(y < x)
    <2> SUFFICES ASSUME y < x PROVE FALSE
        OBVIOUS
    <2>1. InOrder(y, x)
        BY <1>1, <1>2, YearsAreOrdered
    <2>. QED
        BY <1>1, <1>4, <1>5, <1>6, <2>1 DEF InOrder
<1>9. x = y
    BY <1>1, <1>2, <1>7, <1>8
<1>10. days - March(y) \in 20..22
    BY <1>1, <1>4, <1>5, <1>9
<1>. QED
    BY <1>9, <1>10 DEF x

IsNowruz(j) == j[2] = 1 /\ j[3] = 1

LEMMA SpringIsNowruz ==
    ASSUME NEW d, IsDate(d), d[1] <= 5294, IsNowruz(JalaliOf(d))
    PROVE  d[2] = 3 /\ d[3] \in 20..22 /\ JalaliOf(d)[1] = d[1] - 621
<1> DEFINE y == d[1] - 1600
           D == DayNumber(d)
           p == YearAndDay(D)
<1>1. /\ y \in Nat /\ y <= 3694 /\ D \in Nat
      /\ D >= March(y) - 59 /\ D <= March(y) + 306
      /\ D > March(y) /\ D <= March(y) + 31 => d[2] = 3 /\ D = March(y) + d[3]
    <2>1. y \in Nat /\ y <= 3694 /\ d[1] = y + 1600
        BY DEF IsDate
    <2> HIDE DEF y
    <2>. QED
        BY <2>1, DateInYear
<1>2. d[3] \in Nat
    <2>1. d[1] \in Nat /\ d[2] \in 1..12 /\ d[3] \in 1..MonthLength(d[1], d[2])
        BY DEF IsDate
    <2>. QED
        BY <2>1, LengthOfMonth
<1>3. JalaliOf(d) = Persian(p)
    BY JalaliOfIs
<1> HIDE DEF D
<1>4. /\ p = [year |-> p.year, day |-> p.day] /\ p.year \in Nat /\ p.day \in 0..365
      /\ D = NewYear(p.year) + p.day
    BY <1>1, DayOfYear
<1> HIDE DEF p
<1>5. p.day = 0 /\ JalaliOf(d)[1] = 979 + p.year
    <2>1. CASE p.day < 186
        <3>1. Persian(p) = <<979 + p.year, 1 + p.day \div 31, 1 + (p.day % 31)>>
            BY <1>4, <2>1, PersianIs
        <3>2. 1 + p.day \div 31 = 1 /\ 1 + (p.day % 31) = 1
            BY <1>3, <3>1 DEF IsNowruz
        <3>3. p.day = 0
            BY <1>4, <3>2
        <3>. QED
            BY <1>3, <3>1, <3>3
    <2>2. CASE p.day >= 186
        <3>1. Persian(p) = <<979 + p.year, 7 + (p.day - 186) \div 30, 1 + ((p.day - 186) % 30)>>
            BY <1>4, <2>2, PersianIs
        <3>2. 7 + (p.day - 186) \div 30 = 1
            BY <1>3, <3>1 DEF IsNowruz
        <3>. QED
            BY <1>4, <2>2, <3>2
    <2>. QED
        BY <1>4, <2>1, <2>2
<1> HIDE DEF y
<1>6. p.year = y /\ D - March(y) \in 20..22
    BY <1>1, <1>5, NewYearInYear DEF p
<1>7. March(y) \in Int
    <2>1. y \in Nat
        BY <1>1
    <2>2. MarchHolds(y)
        BY <2>1, MarchIs
    <2>. QED
        BY <2>2 DEF MarchHolds
<1>8. d[2] = 3 /\ d[3] \in 20..22
    BY <1>1, <1>2, <1>6, <1>7
<1>9. 979 + y = d[1] - 621
    BY DEF y, IsDate
<1>. QED
    BY <1>5, <1>6, <1>8, <1>9

LEMMA DatesGoOn ==
    ASSUME NEW d, IsDate(d), d[1] <= 5294
    PROVE  GoesOn(d)
<1>1. IsDate(Tomorrow(d)) /\ DayNumber(Tomorrow(d)) = DayNumber(d) + 1 /\ DayNumber(d) \in Nat
    BY TomorrowIsNext, DayNumberIs
<1>2. JalaliOf(Tomorrow(d)) \in JalaliTomorrows(JalaliOf(d))
    BY <1>1, JalaliOfIs, PersianDatesFollow
<1>3. <<JalaliOf(d)[2], JalaliOf(d)[3]>> = <<1, 1>> => IsNowruz(JalaliOf(d))
    BY DEF IsNowruz
<1>. QED
    BY <1>2, <1>3, SpringIsNowruz DEF GoesOn

-----------------------------------------------------------------------------
(* The days after a first one.                                             *)

Later(d, n, f) == f = [k \in 0..n |-> IF k = 0 THEN d ELSE Tomorrow(f[k - 1])]

LEMMA DaysCanBeCounted ==
    ASSUME NEW d, NEW n \in Nat
    PROVE  \E f : Later(d, n, f)
<1> DEFINE Bad == {m \in Nat : ~ \E f : Later(d, m, f)}
<1> SUFFICES ASSUME Bad # {} PROVE FALSE
    OBVIOUS
<1>1. PICK m \in Bad : \A k \in Bad : m <= k
    <2>1. Bad \subseteq Nat
        OBVIOUS
    <2> HIDE DEF Bad
    <2>. QED
        BY <2>1, LeastNumber
<1>2. m # 0
    <2>1. Later(d, 0, [k \in 0..0 |-> d])
        BY DEF Later
    <2>. QED
        BY <1>1, <2>1
<1>3. m \in Nat /\ m - 1 \in Nat /\ ~(m <= m - 1)
    BY <1>1, <1>2
<1>4. m - 1 \notin Bad
    BY <1>1, <1>3
<1>5. PICK f : Later(d, m - 1, f)
    BY <1>3, <1>4
<1> DEFINE g == [k \in 0..m |-> IF k = m THEN Tomorrow(f[m - 1]) ELSE f[k]]
<1>6. \A k \in 0..(m - 1) : f[k] = IF k = 0 THEN d ELSE Tomorrow(f[k - 1])
    BY <1>5 DEF Later
<1>7. ASSUME NEW k \in 0..m  PROVE g[k] = IF k = 0 THEN d ELSE Tomorrow(g[k - 1])
    <2>1. CASE k = m
        <3>1. k # 0 /\ k - 1 \in 0..m /\ k - 1 # m /\ k - 1 = m - 1
            BY <1>2, <1>3, <2>1
        <3>. QED
            BY <2>1, <3>1
    <2>2. CASE k # m
        <3>1. k \in 0..(m - 1) /\ (k # 0 => k - 1 \in 0..m /\ k - 1 # m)
            BY <1>3, <2>2
        <3>2. g[k] = f[k] /\ (k # 0 => g[k - 1] = f[k - 1])
            BY <2>2, <3>1
        <3>. QED
            BY <1>6, <3>1, <3>2
    <2>. QED
        BY <2>1, <2>2
<1>8. g = [k \in 0..m |-> g[k]]
    OBVIOUS
<1> HIDE DEF g
<1>9. Later(d, m, g)
    BY <1>7, <1>8 DEF Later
<1>. QED
    BY <1>1, <1>9

LEMMA LaterDates ==
    ASSUME NEW d, IsDate(d), NEW n \in Nat
    PROVE  LET e == DaysLater(d, n) IN IsDate(e) /\ DayNumber(e) = DayNumber(d) + n
<1> DEFINE later == CHOOSE f : Later(d, n, f)
<1>1. DaysLater(d, n) = later[n]
    BY DEF DaysLater, Later
<1>2. Later(d, n, later)
    BY DaysCanBeCounted
<1> HIDE DEF later
<1>3. \A k \in 0..n : later[k] = IF k = 0 THEN d ELSE Tomorrow(later[k - 1])
    BY <1>2 DEF Later
<1>4. DayNumber(d) \in Nat
    BY DayNumberIs
<1> DEFINE Good(k) == IsDate(later[k]) /\ DayNumber(later[k]) = DayNumber(d) + k
           Bad == {k \in 0..n : ~Good(k)}
<1>5. Bad = {}
    <2> SUFFICES ASSUME Bad # {} PROVE FALSE
        OBVIOUS
    <2>1. PICK m \in Bad : \A k \in Bad : m <= k
        <3>1. Bad \subseteq Nat
            OBVIOUS
        <3> HIDE DEF Bad
        <3>. QED
            BY <3>1, LeastNumber
    <2>2. m # 0
        <3>1. later[0] = d
            BY <1>3
        <3>. QED
            BY <1>4, <2>1, <3>1
    <2>3. m \in 0..n /\ m - 1 \in 0..n /\ ~(m <= m - 1)
        BY <2>1, <2>2
    <2>4. Good(m - 1)
        BY <2>1, <2>3
    <2>5. later[m] = Tomorrow(later[m - 1])
        BY <1>3, <2>2, <2>3
    <2>6. IsDate(later[m]) /\ DayNumber(later[m]) = DayNumber(later[m - 1]) + 1
        BY <2>4, <2>5, TomorrowIsNext
    <2>. QED
        BY <1>4, <2>1, <2>3, <2>4, <2>6
<1>6. Good(n)
    BY <1>5
<1>. QED
    BY <1>1, <1>6

(* For a clock that starts between the years 1601 and 4000 and runs for a  *)
(* thousand years: the date shown today and the one of tomorrow follow     *)
(* each other in the Persian calendar, and its year begins with spring     *)
(* (gregorian_to_jalali).                                                  *)
THEOREM CalendarFollows ==
    ASSUME FirstYears \subseteq Nat, \A gy \in FirstYears : gy > 1600 /\ gy <= 4000,
           date(MaxTime) <= 365 * 1000
    PROVE  Spec => []DatesFollow
<1>1. ASSUME NEW first \in FirstDays, NEW day \in 0..date(MaxTime)
      PROVE  GoesOn(DaysLater(first, day))
    <2>1. IsDate(first) /\ first[1] <= 4000
        <3>1. PICK gy \in FirstYears : first \in DatesOf(gy)
            BY DEF FirstDays
        <3>2. PICK gm \in 1..12 : first \in {<<gy, gm, gd>> : gd \in 1..MonthLength(gy, gm)}
            BY <3>1 DEF DatesOf
        <3>3. PICK gd \in 1..MonthLength(gy, gm) : first = <<gy, gm, gd>>
            BY <3>2
        <3>4. gy \in Nat /\ gy > 1600 /\ gy <= 4000
            BY <3>1
        <3>. QED
            BY <3>3, <3>4 DEF IsDate
    <2>2. date(MaxTime) \in Nat /\ day \in Nat /\ day <= 365000
        BY BoundsAreNat, DayHasTicks DEF date
    <2> DEFINE e == DaysLater(first, day)
    <2>3. IsDate(e) /\ DayNumber(e) = DayNumber(first) + day
        BY <2>1, <2>2, LaterDates
    <2> HIDE DEF e
    <2> DEFINE x == first[1] - 1600
               y == e[1] - 1600
    <2>6. /\ x \in Nat /\ x <= 2400 /\ first[1] = x + 1600
          /\ y \in Nat /\ e[1] = y + 1600
        BY <2>1, <2>3 DEF IsDate
    <2> HIDE DEF x, y
    <2>4. DayNumber(first) \in Nat /\ DayNumber(first) <= March(x) + 306
        BY <2>1, <2>6, DateInYear
    <2>5. DayNumber(e) \in Nat /\ DayNumber(e) >= March(y) - 59
        BY <2>3, <2>6, DateInYear
    <2>7. /\ March(x) \in Int /\ March(x) <= 366 * x
          /\ March(y) \in Int /\ March(y) >= 365 * y - 21
        <3>1. MarchHolds(x) /\ MarchHolds(y)
            BY <2>6, MarchIs
        <3>. QED
            BY <3>1 DEF MarchHolds
    <2>8. y <= 3694
        BY <2>2, <2>3, <2>4, <2>5, <2>6, <2>7
    <2>9. e[1] <= 5294
        BY <2>6, <2>8
    <2>. QED
        BY <2>3, <2>9, DatesGoOn DEF e
<1>2. FollowedDays = 0..date(MaxTime)
    BY <1>1 DEF FollowedDays
<1>3. TypeOK => DatesFollow
    <2> SUFFICES ASSUME TypeOK PROVE DatesFollow
        OBVIOUS
    <2>1. now \in 0..MaxTime /\ MaxTime \in Nat
        BY BoundsAreNat DEF TypeOK, EnrollmentTypeOK
    <2>2. date(now) \in 0..date(MaxTime)
        BY <2>1, DayHasTicks DEF date
    <2>. QED
        BY <1>2, <2>2 DEF DatesFollow
<1>. QED
    BY <1>3, TypesAreKept, PTL
=============================================================================
