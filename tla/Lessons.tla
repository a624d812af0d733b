------------------------------- MODULE Lessons -------------------------------
(***************************************************************************)
(* The lessons of the course: who may open them, and the progress of the   *)
(* learner (src/apps/courses/access.py, progress.py and the lesson views). *)
(* Lessons are numbered in the order of the page.                          *)
(***************************************************************************)
EXTENDS Enrollment, SequencesExt

CONSTANTS
    Lesson,         \* the lessons of the course, in the order of the page
    SectionOf,      \* SectionOf[l]: the section lesson l belongs to
    Samples         \* the lessons that are free previews from the start

ASSUME LessonsAreNumbered == Lesson \subseteq Nat /\ IsFiniteSet(Lesson)

Section == {SectionOf[l] : l \in Lesson}

VARIABLES
    lesson,         \* the publication and preview flags of the lessons
    section,        \* section[s]: section s is published
    viewed,         \* the lessons with a LessonProgress row, last viewed last
    completed       \* those of them with is_completed

lessonVars == <<lesson, section, viewed, completed>>

LessonRows == [is_published: BOOLEAN, is_free_preview: BOOLEAN]
Visitors == {"guest", "learner", "instructor", "admin"}

WasViewed == {viewed[i] : i \in 1..Len(viewed)}

LessonsTypeOK ==
    /\ lesson \in [Lesson -> LessonRows]
    /\ section \in [Section -> BOOLEAN]
    /\ viewed \in Seq(Lesson)
    /\ completed \subseteq WasViewed
    /\ Cardinality(WasViewed) = Len(viewed)

LessonsInit ==
    /\ lesson = [l \in Lesson |-> [is_published |-> TRUE, is_free_preview |-> l \in Samples]]
    /\ section = [s \in Section |-> TRUE]
    /\ viewed = <<>>
    /\ completed = {}

-----------------------------------------------------------------------------
(* Access.                                                                 *)

is_visible(l) == lesson[l].is_published /\ section[SectionOf[l]]

IsCourseStaff(visitor) == visitor \in {"admin", "instructor"}

(* The reason the code gives with its answer.  Only the learner has rows   *)
(* and a subscription here.                                                *)
check_lesson_access(visitor, l) ==
    CASE ~is_visible(l) -> IF IsCourseStaff(visitor) THEN "staff_preview" ELSE "unpublished"
      [] is_visible(l) /\ lesson[l].is_free_preview -> "free_preview"
      [] OTHER ->
         CASE IsCourseStaff(visitor) -> "staff"
           [] visitor = "learner" /\ HasActiveEnrollment -> "enrolled"
           [] visitor = "learner" /\ ~HasActiveEnrollment /\ has_access -> "vip"
           [] visitor = "learner" /\ ~has_access /\ enrollment # None ->
                IF is_expired(enrollment) THEN "enrollment_expired"
                ELSE "enrollment_suspended"
           [] visitor = "learner" /\ ~has_access /\ enrollment = None ->
                IF is_free(course) THEN "free_enrollment_required"
                ELSE "purchase_required"
           [] visitor = "guest" ->
                IF is_free(course) THEN "login_required" ELSE "purchase_required"

Allowed(reason) ==
    reason \in {"staff_preview", "free_preview", "staff", "enrolled", "vip"}

(* Every address of a lesson answers 404 for a course not published, even  *)
(* to staff; a lesson not published is not found by those it is closed to. *)
LessonFound == course.is_published

(* The page, the video and the attachments, and the marks in the course's  *)
(* list of lessons, all ask the same question.                             *)
LessonOpens(visitor, l) == LessonFound /\ Allowed(check_lesson_access(visitor, l))

-----------------------------------------------------------------------------
(* Progress.                                                               *)

First(S) == CHOOSE l \in S : \A m \in S : l <= m

visible_lessons == {l \in Lesson : is_visible(l)}

total == Cardinality(visible_lessons)

(* The course's list of lessons, with a lock on each.                      *)
curriculum(visitor) ==
    [l \in visible_lessons |->
        [access |-> check_lesson_access(visitor, l),
         is_completed |-> visitor = "learner" /\ l \in completed]]

(* A course page shows the lessons if a section is published, else a text, *)
(* and counts them by a query of its own.                                  *)
has_curriculum == \E s \in Section : section[s]

lesson_count ==
    Cardinality({l \in Lesson : lesson[l].is_published /\ section[SectionOf[l]]})

(* What the admin's list of sections says.                                 *)
lesson_count_of ==
    [s \in Section |-> Cardinality({l \in Lesson : SectionOf[l] = s /\ lesson[l].is_published})]

(* The lesson behind the button that shows a sample.                       *)
preview_lesson ==
    LET free == {l \in visible_lessons : lesson[l].is_free_preview} IN
    IF free = {} THEN None ELSE First(free)

HiddenCount == Cardinality(completed)     \* faulty: counts hidden lessons too
completed_count == Cardinality(completed \cap visible_lessons)

(* Of the rows of the visible lessons, the one viewed last.                *)
records == {i \in DOMAIN viewed : is_visible(viewed[i])}

last_lesson == IF records = {} THEN None ELSE viewed[Max(records)]

FirstUnseen ==                  \* faulty: a lesson seen but not done is left out
    LET rest == visible_lessons \ WasViewed IN IF rest = {} THEN None ELSE First(rest)

next_lesson ==
    LET rest == visible_lessons \ completed IN IF rest = {} THEN None ELSE First(rest)

resume_lesson == IF next_lesson # None THEN next_lesson ELSE last_lesson

is_finished == total > 0 /\ completed_count >= total

remaining == IF total > completed_count THEN total - completed_count ELSE 0

RoundedUp(part, whole) == (part + whole - 1) \div whole     \* faulty

(* round(): to the nearest whole number, halves to the even one.           *)
Rounded(part, whole) ==
    LET down == part \div whole
        twice == 2 * (part % whole)
    IN  IF twice > whole \/ (twice = whole /\ down % 2 = 1) THEN down + 1 ELSE down

percent(done, of) == IF of = 0 THEN 0 ELSE Rounded(done * 100, of)

(* The learner's courses: this one is among them or not.                   *)
ListedEvenIfEnded ==            \* faulty: the list believes the status
    enrollment # None /\ enrollment.status = "active" /\ course.is_published
IsListed == HasActiveEnrollment /\ course.is_published

(* The dashboard's button leads into the course viewed last.               *)
dashboard_view ==
    [current_progress |-> IF IsListed THEN percent(completed_count, total) ELSE None,
     resume_lesson |-> IF IsListed THEN resume_lesson ELSE None]

(* The page of the learner's courses has a tab for the finished ones.      *)
my_courses_view ==
    [in_progress |-> IsListed /\ ~is_finished, finished |-> IsListed /\ is_finished]

(* The numbers at the top of the dashboard: what was ever completed counts *)
(* there, whatever became of the course.                                   *)
learner_stats ==
    [courses |-> IF IsListed THEN 1 ELSE 0,
     completed_lessons |-> Cardinality(completed),
     finished_courses |-> IF IsListed /\ is_finished THEN 1 ELSE 0]

-----------------------------------------------------------------------------
(* The learner's requests.                                                 *)

(* Any save of a progress row stamps it as the one viewed last.            *)
PlaceOfRow(l) == CHOOSE i \in DOMAIN viewed : viewed[i] = l

Touch(l) ==
    viewed' = Append(IF l \in WasViewed THEN RemoveAt(viewed, PlaceOfRow(l)) ELSE viewed, l)

lesson_detail(l) ==
    /\ LessonOpens("learner", l)
    /\ Touch(l)
    /\ UNCHANGED <<lesson, section, completed>>

CompleteWithoutRow(l, done) ==      \* faulty: the row need not be there
    /\ completed' = IF done THEN completed \cup {l} ELSE completed \ {l}
    /\ UNCHANGED viewed

set_completed(l, done) ==
    /\ Touch(l)
    /\ completed' = IF done THEN completed \cup {l} ELSE completed \ {l}

lesson_complete(l, done) ==
    /\ LessonOpens("learner", l)
    /\ set_completed(l, done)
    /\ UNCHANGED <<lesson, section>>

(* The second of the video is kept in the row and asked nothing else.      *)
lesson_position(l) ==
    /\ LessonOpens("learner", l)
    /\ Touch(l)
    /\ UNCHANGED <<lesson, section, completed>>

(* The lists and forms of the admin.                                       *)
EditLesson(l) ==
    /\ lesson' \in {[lesson EXCEPT ![l].is_published = ~@],
                    [lesson EXCEPT ![l].is_free_preview = ~@]}
    /\ UNCHANGED <<section, viewed, completed>>

EditSection(s) ==
    /\ section' = [section EXCEPT ![s] = ~@]
    /\ UNCHANGED <<lesson, viewed, completed>>
=============================================================================
