----------------------------- MODULE AccessDays -----------------------------
(***************************************************************************)
(* What an enrolment promises (README.md, "access duration"): a learner    *)
(* has an amount of time left in a course.  Time uses it up, a grant adds  *)
(* the course's duration to it and keeps what was left, and nothing else   *)
(* changes it but an administrator's hand.  One thing is not kept: a grant *)
(* in a course that has got a duration since ends a permanent access.      *)
(***************************************************************************)
EXTENDS Integers

CONSTANTS
    Day,            \* clock ticks in a day
    Never,          \* left: the learner has no enrolment
    Forever         \* left: the access does not end

VARIABLES
    left,           \* the ticks left, Never or Forever
    now,            \* the clock
    duration,       \* the days a grant gives; 0 gives a permanent access
    grants,         \* the grants so far
    corrections     \* the changes made by hand so far

vars == <<left, now, duration, grants, corrections>>

Init ==
    /\ left = Never
    /\ now \in Nat
    /\ duration \in Nat
    /\ grants = 0
    /\ corrections = 0

IsTimed == left \notin {Never, Forever}

Pass ==
    /\ now' = now + 1
    /\ left' = IF IsTimed /\ left > 0 THEN left - 1 ELSE left
    /\ UNCHANGED <<duration, grants, corrections>>

Grant ==
    /\ grants' = grants + 1
    /\ left' = IF duration = 0 THEN Forever
               ELSE duration * Day + (IF IsTimed THEN left ELSE 0)
    /\ UNCHANGED <<now, duration, corrections>>

(* By hand the access is given any end.                                    *)
Correct ==
    /\ corrections' = corrections + 1
    /\ left' \in Nat \cup {Forever}
    /\ UNCHANGED <<now, duration, grants>>

Reprice ==
    /\ duration' \in Nat
    /\ UNCHANGED <<left, now, grants, corrections>>

Next == Pass \/ Grant \/ Correct \/ Reprice

Spec == Init /\ [][Next]_vars
=============================================================================
