------------------------------- MODULE Courses -------------------------------
(***************************************************************************)
(* What the rest of the shop asks a course row: its price and whether it   *)
(* can still be taken up (class Course in src/apps/courses/models.py).     *)
(* Times are clock ticks and dates are days; the server takes the date of  *)
(* timezone.now(), which is the date in UTC.                               *)
(***************************************************************************)
EXTENDS Integers, FiniteSets

CONSTANTS
    Day,        \* clock ticks in a day
    None        \* NULL in the database, no row, no lesson

ASSUME DayHasTicks == Day \in Nat \ {0}
ASSUME NoneIsNoNumber == None \notin Int

CourseRows ==
    [is_published: BOOLEAN, price: Nat, discount_price: Nat \cup {None},
     start_date: Nat \cup {None}, access_duration_days: Nat \cup {None},
     vip_access: BOOLEAN]

date(time) == time \div Day

-----------------------------------------------------------------------------
has_discount(c) == c.discount_price # None /\ c.discount_price < c.price

final_price(c) == IF has_discount(c) THEN c.discount_price ELSE c.price

is_free(c) == final_price(c) = 0

is_upcoming(c, time) == c.start_date # None /\ c.start_date >= date(time)

OpenUntilStart(c, time) ==      \* faulty: closes on the day the course starts
    c.is_published /\ (c.start_date # None => c.start_date > date(time))

(* A course without a start date is always open.                           *)
registration_open(c, time) ==
    c.is_published /\ (c.start_date # None => c.start_date >= date(time))
=============================================================================
