------------------------------- MODULE Academy -------------------------------
(***************************************************************************)
(* A learner, a course among others, the cart, the learner's orders of the *)
(* course, the enrolment and the lessons together, one request at a time.  *)
(* How an order is paid when requests overlap is the subject of Purchase.  *)
(***************************************************************************)
EXTENDS Lessons, Catalogue, Records, Jalali, FiniteSetsExt

CONSTANTS
    Orders,         \* primary keys; bounds the orders ever placed
    AdminStatuses,  \* the statuses an administrator gives an order by hand
    FirstYears      \* the years in one of which the clock starts

ASSUME KeysAreNat == Orders \subseteq Nat

VARIABLES
    in_cart,        \* the session's cart holds the course
    order           \* order[o]: the status of order o for the course, or None

shopVars == <<in_cart, order>>
vars == <<enrolmentVars, lessonVars, active, shopVars>>

OrderStatus == {"PENDING", "PAID", "CANCELED", "REFUNDED"}

ASSUME NoneIsNoStatus == None \notin OrderStatus
ASSUME AdminStatusesAreStatuses == AdminStatuses \subseteq OrderStatus

TypeOK ==
    /\ EnrollmentTypeOK
    /\ LessonsTypeOK
    /\ CatalogueTypeOK
    /\ in_cart \in BOOLEAN
    /\ order \in [Orders -> OrderStatus \cup {None}]

Init ==
    /\ EnrollmentInit
    /\ LessonsInit
    /\ CatalogueInit
    /\ in_cart = FALSE
    /\ order = [o \in Orders |-> None]

-----------------------------------------------------------------------------
IsOrdered == \E o \in Orders : order[o] # None    \* faulty: whatever its status
IsPurchased == \E o \in Orders : order[o] = "PAID"

IsNextKey(o) == order[o] = None /\ \A p \in Orders : p < o => order[p] # None

(* The button that sells the course.                                       *)
CanBePutInCart == course.is_published /\ ~IsPurchased /\ registration_open(course, now)

(* The operations of the cart; to add or to remove twice changes nothing.  *)
add == ~in_cart /\ in_cart' = TRUE
remove == in_cart /\ in_cart' = FALSE
clear == in_cart' = FALSE

CartAdd ==
    /\ CanBePutInCart
    /\ add
    /\ UNCHANGED <<enrolmentVars, lessonVars, active, order>>

CartRemove ==
    /\ remove
    /\ UNCHANGED <<enrolmentVars, lessonVars, active, order>>

(* A withdrawn course stays in the cart and is not shown.                  *)
CartHasLine == in_cart /\ course.is_published

(* Checkout first throws out what has been bought in the meantime.         *)
CheckoutDropsPurchased ==
    /\ CartHasLine
    /\ IsPurchased
    /\ remove
    /\ UNCHANGED <<enrolmentVars, lessonVars, active, order>>

(* An order with nothing to pay is paid at once.  The cart is the last     *)
(* that asked whether the registration is open.                            *)
Checkout(o) ==
    /\ CartHasLine
    /\ ~IsPurchased
    /\ IsNextKey(o)
    /\ clear
    /\ IF is_free(course)
       THEN Grant /\ order' = [order EXCEPT ![o] = "PAID"]
       ELSE order' = [order EXCEPT ![o] = "PENDING"] /\ UNCHANGED enrolmentVars
    /\ UNCHANGED <<lessonVars, active>>

(* An order whose payment failed is one that waits for its payment: either *)
(* can be paid and cancelled alike, and is PENDING here.                   *)
IsPayable(o) == order[o] = "PENDING"

(* The gateway confirms a payment: the order is paid and the learner       *)
(* enrolled in one transaction, whatever has become of the course.         *)
Pay(o) ==
    /\ IsPayable(o)
    /\ order' = [order EXCEPT ![o] = "PAID"]
    /\ Grant
    /\ UNCHANGED <<lessonVars, active, in_cart>>

OrderCancel(o) ==
    /\ order[o] \notin {None, "PAID", "CANCELED"}
    /\ order' = [order EXCEPT ![o] = "CANCELED"]
    /\ UNCHANGED <<enrolmentVars, lessonVars, active, in_cart>>

(* The order form changes the status and nothing else.                     *)
AdminEditsOrder(o) ==
    /\ order[o] # None
    /\ Edited
    /\ \E status \in AdminStatuses \ {order[o]} : order' = [order EXCEPT ![o] = status]
    /\ UNCHANGED <<now, course, vip, enrollment, grants, corrections, lessonVars,
                   active, in_cart>>

(* Any learner may enrol in a free course, and enrol again.                *)
EnrollFree ==
    /\ is_free(course)
    /\ registration_open(course, now)
    /\ Grant
    /\ UNCHANGED <<lessonVars, active, shopVars>>

Study ==
    /\ \E l \in Lesson :
           \/ lesson_detail(l)
           \/ \E done \in BOOLEAN : lesson_complete(l, done)
           \/ lesson_position(l)
    /\ UNCHANGED <<enrolmentVars, active, shopVars>>

EditContent ==
    /\ Edited
    /\ \/ \E l \in Lesson : EditLesson(l)
       \/ \E s \in Section : EditSection(s)
    /\ UNCHANGED <<now, course, vip, enrollment, grants, corrections, active, shopVars>>

AdministerAccess ==
    /\ AdminSavesEnrollment \/ revoke \/ activate_selected \/ EditVip \/ EditCourse
    /\ UNCHANGED <<lessonVars, active, shopVars>>

AdministerCatalogue == EditCatalogue /\ UNCHANGED <<lessonVars, shopVars>>

TimePasses == Tick /\ UNCHANGED <<lessonVars, active, shopVars>>

Shop ==
    \/ CartAdd \/ CartRemove \/ CheckoutDropsPurchased
    \/ \E o \in Orders :
           Checkout(o) \/ Pay(o) \/ OrderCancel(o) \/ AdminEditsOrder(o)
    \/ EnrollFree

Next ==
    \/ Shop \/ Study \/ TimePasses
    \/ EditContent \/ AdministerAccess \/ AdministerCatalogue

Spec == Init /\ [][Next]_vars

-----------------------------------------------------------------------------
(* Properties.                                                             *)

TicksLeft ==
    IF enrollment = None THEN -2
    ELSE IF enrollment.expires_at = None THEN -1
    ELSE IF enrollment.expires_at > now THEN enrollment.expires_at - now ELSE 0

Days == INSTANCE AccessDays WITH
    Never <- -2, Forever <- -1, left <- TicksLeft,
    duration <- IF HasDuration THEN course.access_duration_days ELSE 0

(* What was bought is had: a renewal adds the whole duration to whatever   *)
(* is left, early or late, suspended or not, and only time uses it up      *)
(* (enroll, the renewal of an early customer in README.md).                *)
DaysAreKept == Days!Spec

(* What a page offers and the lock of a lesson agree: a course among my    *)
(* courses opens, the lesson behind the continue button included, what     *)
(* opens by enrolment is listed there, and the sample opens to everybody    *)
(* (learner_courses, check_lesson_access, preview_lesson).                 *)
ListedIsOpen ==
    LET list == curriculum("learner") IN
    /\ IsListed => LessonFound /\ \A l \in DOMAIN list : Allowed(list[l].access)
    /\ dashboard_view.resume_lesson # None =>
          LessonOpens("learner", dashboard_view.resume_lesson)
    /\ LessonFound /\ (\E l \in DOMAIN list : list[l].access = "enrolled") => IsListed
    /\ LessonFound /\ preview_lesson # None =>
          \A visitor \in Visitors : LessonOpens(visitor, preview_lesson)

(* Whoever a lesson tells to buy the course can put it in the cart while   *)
(* the registration is open (check_lesson_access, cart_add, mark_order_    *)
(* paid): an order is never paid without an enrolment row.                 *)
WayIn ==
    \A l \in Lesson :
        /\ check_lesson_access("learner", l) = "purchase_required"
        /\ registration_open(course, now)
        => CanBePutInCart

(* A lesson tells whoever's access has ended to renew it, and README.md    *)
(* says that the course is bought again.                                   *)
RenewalCanBeBought ==
    \A l \in Lesson :
        /\ check_lesson_access("learner", l) = "enrollment_expired"
        /\ registration_open(course, now)
        => CanBePutInCart

(* The page's numbers, its marks and its button and the counts of the      *)
(* admin agree whatever is hidden or published later: as many lessons are  *)
(* marked as are counted, never more than the list shows, the counts of    *)
(* the sections add up, a course is finished when no lesson is next, and   *)
(* the dashboard counts as finished what is under that tab                 *)
(* (CourseProgress, _curriculum_for, Course and Section.lesson_count).     *)
ProgressAddsUp ==
    LET list == curriculum("learner")
        done == completed_count
    IN
    /\ done <= lesson_count
    /\ Cardinality(DOMAIN list) = lesson_count
    /\ MapThenSumSet(LAMBDA s : lesson_count_of[s], {s \in Section : section[s]}) = lesson_count
    /\ lesson_count > 0 => has_curriculum
    /\ Cardinality({l \in DOMAIN list : list[l].is_completed}) = done
    /\ is_finished <=> total > 0 /\ next_lesson = None
    /\ remaining > 0 => resume_lesson \in visible_lessons \ completed
    /\ learner_stats.finished_courses = (IF my_courses_view.finished THEN 1 ELSE 0)
    /\ IsListed => my_courses_view.in_progress \/ dashboard_view.current_progress = 100
    /\ learner_stats.completed_lessons >= done

(* Completing the lesson behind the continue button leads on: one lesson   *)
(* less remains, and the next button leads to one that is still to do      *)
(* (lesson_complete with go_next).                                         *)
CompletingLeadsOn ==
    [][LET new == completed' \ completed IN
       new # {} /\ new = {resume_lesson} /\ remaining > 0
          => /\ remaining' = remaining - 1
             /\ remaining' > 0 => resume_lesson' \in visible_lessons \ completed']_vars

(* The report counts under permanent or valid who can open the course now, *)
(* or once the access starts, and under expired or suspended nobody who    *)
(* can, but for the very moment of the end; and it lists as ending soon    *)
(* whom the pages warn, who count whole days and so warn up to a day       *)
(* earlier (manage.py enrollments, Enrollment.is_expiring_soon).           *)
ReportAgrees ==
    enrollment # None /\ has_started(enrollment) =>
        /\ ReportedAs(enrollment) \in {"lifetime", "valid"} => is_active(enrollment)
        /\ is_active(enrollment) => \/ ReportedAs(enrollment) \in {"lifetime", "valid"}
                                    \/ enrollment.expires_at = now
        /\ soon(enrollment) => is_expiring_soon(enrollment)
        /\ is_active(enrollment) /\ is_expiring_soon(enrollment) =>
              \/ soon(enrollment)
              \/ enrollment.expires_at = now
              \/ enrollment.expires_at - now \in SoonDays * Day + 1 .. SoonDays * Day + Day - 1

(* The course opens to a learner by a grant or an administrator's act;     *)
(* time alone opens only an access that was given a later start.           *)
AccessIsGiven ==
    [][has_access' /\ ~has_access =>
          \/ grants' > grants \/ corrections' > corrections \/ edits' > edits
          \/ enrollment # None /\ enrollment.starts_at = now']_vars

(* One hundred percent is shown for a finished course and for no other,    *)
(* however many more lessons, all done, the course has, up to 199 lessons  *)
(* (CourseProgress.percent).                                               *)
FullMeansFinished ==
    LET done == completed_count
        whole == total
        finished == is_finished
    IN
    whole > 0 => \A more \in {0, 10, 98, 197} :
        whole + more <= 199 => (percent(done + more, whole + more) = 100 <=> finished)

(* What the calendar lists can be signed up for and search engines are     *)
(* told so, and what the list of free courses holds costs nothing there:   *)
(* the query of the calendar and the question of the cart button draw the  *)
(* line on the same day (training_calendar, Course.registration_open,      *)
(* filter_courses, course_jsonld).                                         *)
CalendarIsOpen ==
    LET listed == training_calendar(None, "any")
        open == {c \in published : registration_open(shelf(c), now)}
    IN
    /\ \A c \in open \ listed : shelf(c).start_date = None
    /\ \A c \in listed : course_jsonld(c).availability = "InStock"
    /\ \A c \in course_list(None, "free") :
          course_jsonld(c).price = 0 /\ course_jsonld(c).category = "free"

(* A withdrawn course is on no page, each of which makes its own query,    *)
(* nor among the courses of the learner or the lines of the cart.          *)
Shown ==
    (UNION {course_list(k, "any") \cup training_calendar(k, "any") : k \in Category})
    \cup (UNION {related_courses(c) : c \in published})
    \cup (UNION {instructor_detail(i) : i \in Instructor})
    \cup calendar_courses \cup featured_courses \cup search(TRUE, None, "free")
    \cup (IF IsListed \/ CartHasLine THEN {ThisCourse} ELSE {})

WithdrawnIsNowhere == \A c \in CourseIds \ published : c \notin Shown

(* Whoever browses by category finds every course that is in an active     *)
(* branch: on the page of a main category on offer, whose number and those *)
(* of its subcategories add up to what the page shows if none is switched  *)
(* off; and whoever follows a card, of a category or of an instructor on   *)
(* the home page or the about page, finds at least the courses counted on  *)
(* it (filter_courses, _filter_context, home, about, instructor_detail).   *)
EveryCourseIsOffered ==
    LET page == [k \in Category |-> course_list(k, "any")]
        num == [k \in Category |-> num_courses(k)]
        offered == UNION {page[k] : k \in categories}
        whole == {k \in categories : \A j \in Category : ParentOf[j] = k => active[j]}
    IN
    /\ \A c \in published \ offered :
          \E k \in {CategoryOf[c], ParentOf[CategoryOf[c]]} \ {None} : ~active[k]
    /\ \A k \in whole :
          Cardinality(page[k]) = num[k] + MapThenSumSet(LAMBDA j : num[j], Subcategories(k))
    /\ \A k \in home_categories : num[k] <= Cardinality(page[k])
    /\ \A i \in home_instructors \cup about :
          num_courses_of(i) = Cardinality(instructor_detail(i))

(* Which of the rows that come and go here are there.                      *)
Tracked == {"Enrollment", "LessonProgress", "Order"}

Stored ==
    {class \in Tracked :
        /\ class = "Enrollment" => enrollment # None
        /\ class = "LessonProgress" => viewed # <<>>
        /\ class = "Order" => \E o \in Orders : order[o] # None}

(* What databases hold of those in which a deletion spoils the records, or *)
(* a reset stops half way: worked out once.                                *)
TrackedIn(db) == {ClassOf[r] : r \in db} \cap Tracked
Spoilt == {TrackedIn(db) : db \in {d \in Databases : ~DeletionsKeepRecords(d)}}
HalfReset == {TrackedIn(db) : db \in {d \in Databases : ~ResetsAllOrNothing(d)}}

(* Whatever else the database holds and whoever deletes a row of it in the *)
(* admin, what was paid for and, except by a superuser, what a learner has *)
(* or has done is kept (on_delete of the models, PaymentAdmin,             *)
(* GROUP_PERMISSIONS).                                                     *)
RecordsAreKept == Stored \notin Spoilt

(* seed_demo --reset deletes all it is to delete or, if a payment protects *)
(* an order, nothing, though it opens no transaction (_reset).             *)
ResetIsAllOrNothing == Stored \notin HalfReset

FirstDays == UNION {DatesOf(gy) : gy \in FirstYears}

(* The days after which, whichever the first was, the dates go on.         *)
FollowedDays ==
    {day \in 0..date(MaxTime) : \A first \in FirstDays : GoesOn(DaysLater(first, day))}

(* Whatever day the clock started on, the date that the pages show today   *)
(* and the one of tomorrow follow each other in the Persian calendar, and  *)
(* its year begins with spring (gregorian_to_jalali).                      *)
DatesFollow == date(now) \in FollowedDays
=============================================================================
