------------------------------ MODULE MCAcademy ------------------------------
(* Small instances of Academy.                                             *)
EXTENDS Academy

CONSTANTS s1, s2, safety, fire, teacher, assistant

MCSectionOf == [l \in Lesson |-> IF l = 1 THEN s1 ELSE s2]

TimedCourse ==
    [is_published |-> TRUE, price |-> 100, discount_price |-> None, start_date |-> None,
     access_duration_days |-> 1, vip_access |-> TRUE]

(* The course as an administrator may leave it: for sale, withdrawn, free  *)
(* by a discount and starting on the first day, permanent and not for VIPs.*)
MCCourseVersions ==
    {TimedCourse,
     [TimedCourse EXCEPT !.is_published = FALSE],
     [TimedCourse EXCEPT !.discount_price = 0, !.start_date = 0],
     [TimedCourse EXCEPT !.access_duration_days = None, !.vip_access = FALSE]}

(* A permanent course that starts on the second day, beside the course in  *)
(* the subcategory, and a free one in the main category.                   *)
MCOtherRows ==
    "c2" :> [TimedCourse EXCEPT !.start_date = 1, !.access_duration_days = None]
    @@ "c3" :> [TimedCourse EXCEPT !.price = 0]

MCParentOf == safety :> None @@ fire :> safety
MCCategoryOf == "c1" :> fire @@ "c2" :> fire @@ "c3" :> safety
MCInstructorOf == "c1" :> teacher @@ "c2" :> teacher @@ "c3" :> assistant

(* The home page has room for one category and one instructor of two.      *)
MCShownAtHome == {safety, fire, teacher, assistant}
MCPlaceOf == safety :> 1 @@ fire :> 2 @@ teacher :> 1 @@ assistant :> 2

(* A learner who has bought a course and studied it; the course belongs to *)
(* a subcategory and to an instructor with an account.                     *)
MCClassOf ==
    "learner" :> "User" @@ "colleague" :> "User" @@ "inquiry" :> "IdentityVerification"
    @@ "profile" :> "InstructorProfile" @@ "main" :> "CourseCategory"
    @@ "sub" :> "CourseCategory" @@ "course" :> "Course" @@ "section" :> "Section"
    @@ "lesson" :> "Lesson" @@ "attachment" :> "LessonAttachment"
    @@ "progress" :> "LessonProgress" @@ "enrolment" :> "Enrollment"
    @@ "coupon" :> "Coupon" @@ "order" :> "Order" @@ "item" :> "OrderItem"
    @@ "payment" :> "Payment"
MCRow == DOMAIN MCClassOf

MCRefersTo ==
    "learner" :> <<>> @@ "colleague" :> <<>> @@ "main" :> <<>> @@ "coupon" :> <<>>
    @@ "inquiry" :> [user |-> "learner"]
    @@ "profile" :> [user |-> "colleague"]
    @@ "sub" :> [parent |-> "main"]
    @@ "course" :> [category |-> "sub", instructor |-> "profile"]
    @@ "section" :> [course |-> "course"]
    @@ "lesson" :> [section |-> "section"]
    @@ "attachment" :> [lesson |-> "lesson"]
    @@ "progress" :> [user |-> "learner", lesson |-> "lesson"]
    @@ "enrolment" :> [user |-> "learner", course |-> "course", order |-> "order"]
    @@ "order" :> [user |-> "learner", coupon |-> "coupon"]
    @@ "item" :> [order |-> "order", course |-> "course"]
    @@ "payment" :> [order |-> "order"]

(* Years of this shop and those at which the rule of the centuries tells.  *)
MCFirstYears == (2024..2032) \cup {1900, 1999, 2000, 2099, 2100}
=============================================================================
