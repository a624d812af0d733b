----------------------------- MODULE Enrollment -----------------------------
(***************************************************************************)
(* One learner's enrolment in one course (src/apps/courses/enrollment.py,  *)
(* class Enrollment, EnrollmentAdmin, the VIP fields of User).  A row is   *)
(* there or not; if it is, enroll() renews it instead of adding another.   *)
(* Whether it opens the course is worked out anew whenever it is asked.    *)
(***************************************************************************)
EXTENDS Courses

CONSTANTS
    CourseVersions, \* the rows an administrator gives the course
    SoonDays,       \* the days of is_expiring_soon and of --expiring
    MaxTime,        \* bounds the clock
    MaxGrants,      \* bounds the calls of enroll()
    MaxCorrections, \* bounds the enrolment rows changed by hand
    MaxEdits        \* bounds the other edits in the admin

VARIABLES
    now,            \* the clock
    course,         \* the course row
    vip,            \* the learner's VIP fields
    enrollment,     \* the Enrollment row, or None
    grants,         \* how often enroll() ran
    corrections,    \* how often the row was changed by hand
    edits           \* the other edits in the admin so far

ASSUME BoundsAreNat ==
    MaxTime \in Nat /\ MaxGrants \in Nat /\ MaxCorrections \in Nat /\ MaxEdits \in Nat
ASSUME SoonIsDays == SoonDays \in Nat
ASSUME VersionsAreRows == CourseVersions \subseteq CourseRows

enrolmentVars == <<now, course, vip, enrollment, grants, corrections, edits>>

Statuses == {"active", "suspended", "refunded"}
Ends == Nat \cup {None}

EnrollmentRows == [status: Statuses, starts_at: Nat, expires_at: Ends]
VipRows == [is_vip: BOOLEAN, vip_expires_at: Ends]

ASSUME NoneIsNoEnrollment == None \notin EnrollmentRows

EnrollmentTypeOK ==
    /\ now \in 0..MaxTime
    /\ course \in CourseRows
    /\ vip \in VipRows
    /\ enrollment \in EnrollmentRows \cup {None}
    /\ grants \in 0..MaxGrants
    /\ corrections \in 0..MaxCorrections
    /\ edits \in 0..MaxEdits

EnrollmentInit ==
    /\ now = 0
    /\ course \in CourseVersions
    /\ vip = [is_vip |-> FALSE, vip_expires_at |-> None]
    /\ enrollment = None
    /\ grants = 0
    /\ corrections = 0
    /\ edits = 0

-----------------------------------------------------------------------------
(* What a row means at this moment.  An access ends after its last tick.   *)
is_expired(row) == row.expires_at # None /\ now > row.expires_at

has_started(row) == now >= row.starts_at

ActiveByStatus(row) == row.status = "active" /\ has_started(row)    \* faulty
is_active(row) == row.status = "active" /\ has_started(row) /\ ~is_expired(row)

HasActiveEnrollment == enrollment # None /\ is_active(enrollment)

VipAfterItsEnd ==       \* faulty: compares the wrong way round
    vip.is_vip /\ (vip.vip_expires_at # None => vip.vip_expires_at <= now)

has_active_vip ==
    vip.is_vip /\ (vip.vip_expires_at # None => vip.vip_expires_at > now)

has_access == HasActiveEnrollment \/ (course.vip_access /\ has_active_vip)

(* The heading manage.py enrollments counts a row under; refunded rows are *)
(* counted under none.                                                     *)
ReportedAs(row) ==
    CASE row.status = "suspended" -> "suspended"
      [] row.status = "refunded" -> "none"
      [] row.status = "active" ->
            IF row.expires_at = None THEN "lifetime"
            ELSE IF row.expires_at > now THEN "valid" ELSE "expired"

(* The accesses the command lists as ending soon.                          *)
soon(row) ==
    /\ row.status = "active" /\ row.expires_at # None
    /\ row.expires_at > now /\ row.expires_at <= now + SoonDays * Day

(* The pages of the course and of the learner count whole days and warn.   *)
days_remaining(row) ==
    IF row.expires_at = None THEN None
    ELSE IF row.expires_at > now THEN (row.expires_at - now) \div Day ELSE 0

is_expiring_soon(row) == days_remaining(row) # None /\ days_remaining(row) <= SoonDays

-----------------------------------------------------------------------------
HasDuration == course.access_duration_days \notin {None, 0}

expiry_for(start) ==
    IF HasDuration THEN start + course.access_duration_days * Day ELSE None

RenewFromNow(row) == now            \* faulty: what was left is lost

(* An early renewal starts where the present access ends.                  *)
RenewFrom(row) ==
    IF row.expires_at # None /\ row.expires_at > now THEN row.expires_at ELSE now

(* The label of where an access came from is asked by nothing and left     *)
(* out.                                                                    *)
enroll ==
    IF enrollment = None
    THEN [status |-> "active", starts_at |-> now, expires_at |-> expiry_for(now)]
    ELSE [enrollment EXCEPT !.status = "active",
                            !.expires_at = expiry_for(RenewFrom(enrollment))]

Grant ==
    /\ grants < MaxGrants
    /\ enrollment' = enroll
    /\ grants' = grants + 1
    /\ UNCHANGED <<now, course, vip, corrections, edits>>

(* The admin form writes every field of the row, from what it showed when  *)
(* it was opened or from what was typed: a few rows stand for the others.  *)
HandWrittenTerms ==
    {[start |-> now, end |-> now], [start |-> now + 1, end |-> None]}

AdminSavesEnrollment ==
    /\ corrections < MaxCorrections
    /\ \E status \in {"active", "suspended"}, term \in HandWrittenTerms :
           enrollment' = [status |-> status, starts_at |-> term.start, expires_at |-> term.end]
    /\ corrections' = corrections + 1
    /\ UNCHANGED <<now, course, vip, grants, edits>>

Edited == edits < MaxEdits /\ edits' = edits + 1

(* Closing and reopening an access keeps its end.                          *)
SetStatus(status) ==
    /\ enrollment # None
    /\ enrollment.status # status
    /\ Edited
    /\ enrollment' = [enrollment EXCEPT !.status = status]
    /\ UNCHANGED <<now, course, vip, grants, corrections>>

revoke == \E status \in {"suspended", "refunded"} : SetStatus(status)

activate_selected == SetStatus("active")

EditVip ==
    /\ Edited
    /\ vip' \in {[is_vip |-> FALSE, vip_expires_at |-> None],
                 [is_vip |-> TRUE, vip_expires_at |-> None],
                 [is_vip |-> TRUE, vip_expires_at |-> now + 1]} \ {vip}
    /\ UNCHANGED <<now, course, enrollment, grants, corrections>>

EditCourse ==
    /\ Edited
    /\ course' \in CourseVersions \ {course}
    /\ UNCHANGED <<now, vip, enrollment, grants, corrections>>

Tick ==
    /\ now < MaxTime
    /\ now' = now + 1
    /\ UNCHANGED <<course, vip, enrollment, grants, corrections, edits>>
=============================================================================
