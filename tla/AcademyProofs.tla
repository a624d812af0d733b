---------------------------- MODULE AcademyProofs ----------------------------
(***************************************************************************)
(* What the academy promises a learner and shows on its pages, for any     *)
(* lessons, courses, categories, orders, durations and bounds.             *)
(***************************************************************************)
EXTENDS Academy, FiniteSetTheorems, SequenceTheorems, TLAPS

(* The steps of Academy as the enrolment sees them.                        *)
OtherEdit == Edited /\ UNCHANGED <<now, course, vip, enrollment, grants, corrections>>

EnrollmentStep ==
    \/ Grant \/ AdminSavesEnrollment \/ revoke \/ activate_selected
    \/ EditVip \/ EditCourse \/ Tick \/ OtherEdit
    \/ UNCHANGED enrolmentVars

(* As the learner's progress sees them.                                    *)
LessonStep ==
    \/ \E l \in Lesson :
          /\ Touch(l)
          /\ \/ UNCHANGED completed
             \/ \E done \in BOOLEAN : completed' = IF done THEN completed \cup {l} ELSE completed \ {l}
          /\ UNCHANGED <<lesson, section>>
    \/ \E l \in Lesson : EditLesson(l)
    \/ \E s \in Section : EditSection(s)
    \/ UNCHANGED lessonVars

(* As an order sees them: one that is paid had the learner enrolled.       *)
OrderStep ==
    \/ \E o \in Orders, status \in OrderStatus \ {"PAID"} : order' = [order EXCEPT ![o] = status]
    \/ Grant /\ \E o \in Orders : order' = [order EXCEPT ![o] = "PAID"]
    \/ \E o \in Orders : AdminEditsOrder(o)
    \/ UNCHANGED order

LEMMA EnrollmentMoves ==
    ASSUME [Next]_vars
    PROVE  EnrollmentStep
<1> USE DEF EnrollmentStep
<1>1. CASE Shop
    BY <1>1 DEF Shop, CartAdd, CartRemove, CheckoutDropsPurchased, Checkout, Pay, OrderCancel,
        AdminEditsOrder, EnrollFree, OtherEdit, enrolmentVars
<1>2. CASE Study
    BY <1>2 DEF Study
<1>3. CASE TimePasses
    BY <1>3 DEF TimePasses
<1>4. CASE EditContent
    BY <1>4 DEF EditContent, OtherEdit
<1>5. CASE AdministerAccess
    BY <1>5 DEF AdministerAccess
<1>6. CASE AdministerCatalogue
    BY <1>6 DEF AdministerCatalogue, EditCatalogue, OtherEdit
<1>7. CASE UNCHANGED vars
    BY <1>7 DEF vars
<1>. QED
    BY <1>1, <1>2, <1>3, <1>4, <1>5, <1>6, <1>7 DEF Next

LEMMA LessonsMove ==
    ASSUME [Next]_vars
    PROVE  LessonStep
<1> USE DEF LessonStep
<1>1. CASE Shop
    BY <1>1 DEF Shop, CartAdd, CartRemove, CheckoutDropsPurchased, Checkout, Pay, OrderCancel,
        AdminEditsOrder, EnrollFree, lessonVars
<1>2. CASE Study
    BY <1>2 DEF Study, lesson_detail, lesson_complete, lesson_position, set_completed
<1>3. CASE TimePasses
    BY <1>3 DEF TimePasses
<1>4. CASE EditContent
    BY <1>4 DEF EditContent
<1>5. CASE AdministerAccess
    BY <1>5 DEF AdministerAccess
<1>6. CASE AdministerCatalogue
    BY <1>6 DEF AdministerCatalogue
<1>7. CASE UNCHANGED vars
    BY <1>7 DEF vars
<1>. QED
    BY <1>1, <1>2, <1>3, <1>4, <1>5, <1>6, <1>7 DEF Next

LEMMA OrdersMove ==
    ASSUME [Next]_vars
    PROVE  OrderStep
<1> USE DEF OrderStep
<1>1. CASE Shop
    BY <1>1 DEF Shop, CartAdd, CartRemove, CheckoutDropsPurchased, Checkout, Pay, OrderCancel,
        EnrollFree, shopVars, OrderStatus
<1>2. CASE Study
    BY <1>2 DEF Study, shopVars
<1>3. CASE TimePasses
    BY <1>3 DEF TimePasses, shopVars
<1>4. CASE EditContent
    BY <1>4 DEF EditContent, shopVars
<1>5. CASE AdministerAccess
    BY <1>5 DEF AdministerAccess, shopVars
<1>6. CASE AdministerCatalogue
    BY <1>6 DEF AdministerCatalogue, shopVars
<1>7. CASE UNCHANGED vars
    BY <1>7 DEF vars, shopVars
<1>. QED
    BY <1>1, <1>2, <1>3, <1>4, <1>5, <1>6, <1>7 DEF Next

-----------------------------------------------------------------------------
(* Types.                                                                  *)

LEMMA ProductIsNat ==
    ASSUME NEW a \in Nat, NEW b \in Nat
    PROVE  a * b \in Nat
    OBVIOUS

LEMMA ExpiryType ==
    ASSUME EnrollmentTypeOK, NEW start \in Nat
    PROVE  expiry_for(start) \in Ends
<1>1. CASE HasDuration
    <2>1. course.access_duration_days \in Nat
        BY <1>1 DEF HasDuration, EnrollmentTypeOK, CourseRows
    <2>2. course.access_duration_days * Day \in Nat
        BY <2>1, DayHasTicks, ProductIsNat
    <2>. QED
        BY <1>1, <2>2 DEF expiry_for, Ends
<1>2. CASE ~HasDuration
    BY <1>2 DEF expiry_for, Ends
<1>. QED
    BY <1>1, <1>2

LEMMA EnrollType ==
    ASSUME EnrollmentTypeOK
    PROVE  enroll \in EnrollmentRows
<1>0. now \in Nat
    BY BoundsAreNat DEF EnrollmentTypeOK
<1>1. CASE enrollment = None
    <2>1. expiry_for(now) \in Ends
        BY <1>0, ExpiryType
    <2>. QED
        BY <1>0, <1>1, <2>1 DEF enroll, EnrollmentRows, Statuses
<1>2. CASE enrollment # None
    <2>1. enrollment \in EnrollmentRows
        BY <1>2 DEF EnrollmentTypeOK
    <2>2. RenewFrom(enrollment) \in Nat
        BY <1>0, <2>1 DEF RenewFrom, EnrollmentRows, Ends
    <2>3. expiry_for(RenewFrom(enrollment)) \in Ends
        BY <2>2, ExpiryType
    <2>. QED
        BY <1>2, <2>1, <2>3 DEF enroll, EnrollmentRows, Statuses
<1>. QED
    BY <1>1, <1>2

LEMMA HandWrittenRow ==
    ASSUME EnrollmentTypeOK, AdminSavesEnrollment
    PROVE  enrollment' \in EnrollmentRows
<1>1. now \in Nat
    BY BoundsAreNat DEF EnrollmentTypeOK
<1>2. PICK status \in {"active", "suspended"}, term \in HandWrittenTerms :
          enrollment' = [status |-> status, starts_at |-> term.start, expires_at |-> term.end]
    BY DEF AdminSavesEnrollment
<1>3. term.start \in Nat /\ term.end \in Ends
    BY <1>1 DEF HandWrittenTerms, Ends
<1>. QED
    BY <1>2, <1>3 DEF EnrollmentRows, Statuses

LEMMA EnrollmentTypeStep ==
    ASSUME EnrollmentTypeOK, EnrollmentStep
    PROVE  EnrollmentTypeOK'
<1> USE BoundsAreNat
<1>1. CASE Grant
    <2>1. enrollment' \in EnrollmentRows
        BY <1>1, EnrollType DEF Grant
    <2>. QED
        BY <1>1, <2>1 DEF Grant, EnrollmentTypeOK
<1>2. CASE AdminSavesEnrollment
    <2>1. enrollment' \in EnrollmentRows
        BY <1>2, HandWrittenRow
    <2>. QED
        BY <1>2, <2>1 DEF AdminSavesEnrollment, EnrollmentTypeOK
<1>3. CASE revoke \/ activate_selected
    <2>1. PICK status \in Statuses : SetStatus(status)
        BY <1>3 DEF revoke, activate_selected, Statuses
    <2>2. enrollment' \in EnrollmentRows
        BY <2>1 DEF SetStatus, EnrollmentTypeOK, EnrollmentRows
    <2>. QED
        BY <2>1, <2>2 DEF SetStatus, Edited, EnrollmentTypeOK
<1>4. CASE EditVip
    <2>1. now + 1 \in Nat /\ None \in Ends
        BY DEF EnrollmentTypeOK, Ends
    <2>2. PICK end \in {None, now + 1}, is \in BOOLEAN : vip' = [is_vip |-> is, vip_expires_at |-> end]
        BY <1>4 DEF EditVip
    <2>3. end \in Ends
        BY <2>1, <2>2 DEF Ends
    <2>4. vip' \in VipRows
        BY <2>2, <2>3 DEF VipRows
    <2>. QED
        BY <1>4, <2>4 DEF EditVip, Edited, EnrollmentTypeOK
<1>5. CASE EditCourse
    BY <1>5, VersionsAreRows DEF EditCourse, Edited, EnrollmentTypeOK
<1>6. CASE Tick
    BY <1>6 DEF Tick, EnrollmentTypeOK
<1>7. CASE OtherEdit
    BY <1>7 DEF OtherEdit, Edited, EnrollmentTypeOK
<1>8. CASE UNCHANGED enrolmentVars
    BY <1>8 DEF enrolmentVars, EnrollmentTypeOK
<1>. QED
    BY <1>1, <1>2, <1>3, <1>4, <1>5, <1>6, <1>7, <1>8 DEF EnrollmentStep

LEMMA RemoveAtProperties ==
    ASSUME NEW S, NEW s \in Seq(S), NEW p \in 1..Len(s)
    PROVE  /\ RemoveAt(s, p) \in Seq(S)
           /\ Len(RemoveAt(s, p)) = Len(s) - 1
           /\ \A i \in 1..(Len(s) - 1) : RemoveAt(s, p)[i] = IF i < p THEN s[i] ELSE s[i + 1]
<1> DEFINE n == Len(s)
           front == SubSeq(s, 1, p - 1)
           back == SubSeq(s, p + 1, n)
<1>0. n \in Nat /\ p \in Nat /\ \A i \in 1..n : s[i] \in S
    BY ElementOfSeq
<1>1. front \in Seq(S) /\ Len(front) = p - 1 /\ \A i \in 1..(p - 1) : front[i] = s[i]
    <2>1. \A i \in 1..(p - 1) : s[i] \in S
        BY <1>0
    <2>2. /\ front \in Seq(S) /\ Len(front) = IF 1 <= p - 1 THEN (p - 1) - 1 + 1 ELSE 0
          /\ \A i \in 1..((p - 1) - 1 + 1) : front[i] = s[1 + i - 1]
        <3> HIDE DEF n
        <3>. QED
            BY <1>0, <2>1, SubSeqProperties
    <2> HIDE DEF front, n
    <2>3. Len(front) = p - 1
        BY <1>0, <2>2
    <2>4. ASSUME NEW i \in 1..(p - 1)  PROVE front[i] = s[i]
        <3>1. i \in 1..((p - 1) - 1 + 1) /\ 1 + i - 1 = i
            BY <1>0
        <3>. QED
            BY <2>2, <3>1
    <2>. QED
        BY <2>2, <2>3, <2>4
<1>2. back \in Seq(S) /\ Len(back) = n - p /\ \A i \in 1..(n - p) : back[i] = s[p + i]
    <2>1. \A i \in (p + 1)..n : s[i] \in S
        BY <1>0
    <2>2. /\ back \in Seq(S) /\ Len(back) = IF p + 1 <= n THEN n - (p + 1) + 1 ELSE 0
          /\ \A i \in 1..(n - (p + 1) + 1) : back[i] = s[p + 1 + i - 1]
        <3> HIDE DEF n
        <3>. QED
            BY <1>0, <2>1, SubSeqProperties
    <2>0. p <= n
        OBVIOUS
    <2> HIDE DEF back, n
    <2>3. Len(back) = n - p
        BY <1>0, <2>0, <2>2
    <2>4. ASSUME NEW i \in 1..(n - p)  PROVE back[i] = s[p + i]
        <3>1. i \in 1..(n - (p + 1) + 1) /\ p + 1 + i - 1 = p + i
            BY <1>0
        <3>. QED
            BY <2>2, <3>1
    <2>. QED
        BY <2>2, <2>3, <2>4
<1>3. RemoveAt(s, p) = front \o back
    BY DEF RemoveAt
<1>4. p <= n
    OBVIOUS
<1> HIDE DEF front, back, n
<1>5. /\ front \o back \in Seq(S)
      /\ Len(front \o back) = Len(front) + Len(back)
      /\ \A i \in 1..(Len(front) + Len(back)) :
            (front \o back)[i] = IF i <= Len(front) THEN front[i] ELSE back[i - Len(front)]
    BY <1>1, <1>2, ConcatProperties
<1>6. ASSUME NEW i \in 1..(n - 1)
      PROVE  (front \o back)[i] = IF i < p THEN s[i] ELSE s[i + 1]
    <2>1. i \in 1..(Len(front) + Len(back))
        BY <1>0, <1>1, <1>2
    <2>2. CASE i < p
        <3>1. i <= Len(front) /\ i \in 1..(p - 1)
            BY <1>0, <1>1, <2>2
        <3>. QED
            BY <1>1, <1>5, <2>1, <2>2, <3>1
    <2>3. CASE ~(i < p)
        <3>1. ~(i <= Len(front)) /\ i - Len(front) \in 1..(n - p) /\ p + (i - Len(front)) = i + 1
            BY <1>0, <1>1, <2>3
        <3>. QED
            BY <1>2, <1>5, <2>1, <2>3, <3>1
    <2>. QED
        BY <2>2, <2>3
<1>7. Len(front) + Len(back) = n - 1
    BY <1>0, <1>1, <1>2
<1>. QED
    BY <1>3, <1>5, <1>6, <1>7 DEF n

(* A row that is viewed again is moved to the end: none is lost, and the   *)
(* list grows by the lesson if it was not there.                           *)
LEMMA TouchedRows ==
    ASSUME LessonsTypeOK, NEW l \in Lesson, Touch(l)
    PROVE  /\ viewed' \in Seq(Lesson)
           /\ WasViewed' = WasViewed \cup {l}
           /\ Len(viewed') = IF l \in WasViewed THEN Len(viewed) ELSE Len(viewed) + 1
           /\ viewed'[Len(viewed')] = l
<1>0. viewed \in Seq(Lesson) /\ Len(viewed) \in Nat /\ DOMAIN viewed = 1..Len(viewed)
    BY DEF LessonsTypeOK
<1>1. CASE l \notin WasViewed
    <2>1. viewed' = Append(viewed, l)
        BY <1>1 DEF Touch
    <2>2. /\ viewed' \in Seq(Lesson) /\ Len(viewed') = Len(viewed) + 1
          /\ viewed'[Len(viewed) + 1] = l
          /\ \A i \in 1..Len(viewed) : viewed'[i] = viewed[i]
        BY <1>0, <2>1
    <2>3. WasViewed' = WasViewed \cup {l}
        BY <1>0, <2>2 DEF WasViewed
    <2>. QED
        BY <1>1, <2>2, <2>3
<1>2. CASE l \in WasViewed
    <2> DEFINE p == PlaceOfRow(l)
               n == Len(viewed)
               kept == RemoveAt(viewed, p)
    <2>1. p \in 1..n /\ viewed[p] = l
        BY <1>0, <1>2 DEF WasViewed, PlaceOfRow
    <2>2. viewed' = Append(kept, l)
        BY <1>2 DEF Touch
    <2> HIDE DEF p
    <2>3. /\ kept \in Seq(Lesson) /\ Len(kept) = n - 1
          /\ \A i \in 1..(n - 1) : kept[i] = IF i < p THEN viewed[i] ELSE viewed[i + 1]
        BY <1>0, <2>1, RemoveAtProperties
    <2> HIDE DEF kept, n
    <2>0. n \in Nat /\ p \in Nat /\ p <= n /\ 1 <= p /\ n = Len(viewed)
        BY <1>0, <2>1 DEF n
    <2>4. /\ viewed' \in Seq(Lesson) /\ Len(viewed') = n
          /\ viewed'[n] = l
          /\ \A i \in 1..(n - 1) : viewed'[i] = kept[i]
        <3>1. /\ Append(kept, l) \in Seq(Lesson) /\ Len(Append(kept, l)) = Len(kept) + 1
              /\ Append(kept, l)[Len(kept) + 1] = l
              /\ \A i \in 1..Len(kept) : Append(kept, l)[i] = kept[i]
            BY <2>3
        <3>2. Len(kept) + 1 = n
            BY <2>0, <2>3
        <3>. QED
            BY <2>2, <2>3, <3>1, <3>2
    <2>5. ASSUME NEW m \in WasViewed  PROVE m \in WasViewed'
        <3>1. PICK i \in 1..n : viewed[i] = m
            BY <2>0 DEF WasViewed
        <3>2. CASE i < p
            <4>1. i \in 1..(n - 1) /\ viewed'[i] = m
                BY <2>0, <2>3, <2>4, <3>1, <3>2
            <4>. QED
                BY <2>0, <2>4, <4>1 DEF WasViewed
        <3>3. CASE i = p
            BY <2>0, <2>1, <2>4, <3>1, <3>3 DEF WasViewed
        <3>4. CASE i > p
            <4>1. i - 1 \in 1..(n - 1) /\ ~(i - 1 < p) /\ (i - 1) + 1 = i
                BY <2>0, <3>1, <3>4
            <4>2. viewed'[i - 1] = m
                BY <2>3, <2>4, <3>1, <4>1
            <4>. QED
                BY <2>0, <2>4, <4>1, <4>2 DEF WasViewed
        <3>. QED
            BY <2>0, <3>1, <3>2, <3>3, <3>4
    <2>6. ASSUME NEW m \in WasViewed'  PROVE m \in WasViewed
        <3>1. PICK i \in 1..n : viewed'[i] = m
            BY <2>4 DEF WasViewed
        <3>2. CASE i = n
            BY <1>2, <2>4, <3>1, <3>2
        <3>3. CASE i # n
            <4>1. i \in 1..(n - 1) /\ i \in 1..n /\ i + 1 \in 1..n
                BY <2>0, <3>1, <3>3
            <4>2. m = viewed[i] \/ m = viewed[i + 1]
                BY <2>3, <2>4, <3>1, <4>1
            <4>. QED
                BY <2>0, <4>1, <4>2 DEF WasViewed
        <3>. QED
            BY <3>2, <3>3
    <2>7. WasViewed' = WasViewed \cup {l}
        BY <1>2, <2>5, <2>6
    <2>. QED
        BY <1>2, <2>0, <2>4, <2>7
<1>. QED
    BY <1>1, <1>2

LEMMA ViewedAreFinite ==
    ASSUME LessonsTypeOK
    PROVE  /\ WasViewed \subseteq Lesson /\ IsFiniteSet(WasViewed)
           /\ completed \subseteq Lesson /\ IsFiniteSet(completed)
<1>1. WasViewed \subseteq Lesson
    BY ElementOfSeq DEF LessonsTypeOK, WasViewed
<1>2. completed \subseteq Lesson
    BY <1>1 DEF LessonsTypeOK
<1>. QED
    BY <1>1, <1>2, LessonsAreNumbered, FS_Subset

LEMMA LessonsTypeStep ==
    ASSUME LessonsTypeOK, LessonStep
    PROVE  LessonsTypeOK'
<1>1. ASSUME NEW l \in Lesson, Touch(l), UNCHANGED <<lesson, section>>,
             \/ UNCHANGED completed
             \/ \E done \in BOOLEAN :
                    completed' = IF done THEN completed \cup {l} ELSE completed \ {l}
      PROVE  LessonsTypeOK'
    <2>1. /\ viewed' \in Seq(Lesson)
          /\ WasViewed' = WasViewed \cup {l}
          /\ Len(viewed') = IF l \in WasViewed THEN Len(viewed) ELSE Len(viewed) + 1
        BY <1>1, TouchedRows
    <2>2. completed' \subseteq WasViewed'
        BY <1>1, <2>1 DEF LessonsTypeOK
    <2>3. Cardinality(WasViewed') = IF l \in WasViewed THEN Cardinality(WasViewed)
                                    ELSE Cardinality(WasViewed) + 1
        BY <2>1, ViewedAreFinite, FS_AddElement
    <2>4. Cardinality(WasViewed') = Len(viewed')
        BY <2>1, <2>3 DEF LessonsTypeOK
    <2>. QED
        BY <1>1, <2>1, <2>2, <2>4 DEF LessonsTypeOK
<1>2. ASSUME NEW l \in Lesson, EditLesson(l)
      PROVE  LessonsTypeOK'
    <2>1. lesson' \in [Lesson -> LessonRows]
        <3>1. lesson[l] \in LessonRows
            BY DEF LessonsTypeOK
        <3>2. PICK row \in LessonRows : lesson' = [lesson EXCEPT ![l] = row]
            <4>1. CASE lesson' = [lesson EXCEPT ![l].is_published = ~@]
                <5>1. [lesson[l] EXCEPT !.is_published = ~@] \in LessonRows
                    BY <3>1 DEF LessonRows
                <5>. QED
                    BY <4>1, <5>1
            <4>2. CASE lesson' = [lesson EXCEPT ![l].is_free_preview = ~@]
                <5>1. [lesson[l] EXCEPT !.is_free_preview = ~@] \in LessonRows
                    BY <3>1 DEF LessonRows
                <5>. QED
                    BY <4>2, <5>1
            <4>. QED
                BY <1>2, <4>1, <4>2 DEF EditLesson
        <3>. QED
            BY <3>2 DEF LessonsTypeOK
    <2>2. UNCHANGED <<viewed, completed>> /\ UNCHANGED section
        BY <1>2 DEF EditLesson
    <2>3. WasViewed' = WasViewed
        BY <2>2 DEF WasViewed
    <2>. QED
        BY <2>1, <2>2, <2>3 DEF LessonsTypeOK
<1>3. ASSUME NEW s \in Section, EditSection(s)
      PROVE  LessonsTypeOK'
    <2>1. section' \in [Section -> BOOLEAN]
        BY <1>3 DEF EditSection, LessonsTypeOK
    <2>2. UNCHANGED <<viewed, completed>> /\ UNCHANGED lesson
        BY <1>3 DEF EditSection
    <2>3. WasViewed' = WasViewed
        BY <2>2 DEF WasViewed
    <2>. QED
        BY <2>1, <2>2, <2>3 DEF LessonsTypeOK
<1>4. CASE UNCHANGED lessonVars
    BY <1>4 DEF lessonVars, LessonsTypeOK, WasViewed
<1>. QED
    BY <1>1, <1>2, <1>3, <1>4 DEF LessonStep

LEMMA OrdersTypeStep ==
    ASSUME TypeOK, OrderStep
    PROVE  order' \in [Orders -> OrderStatus \cup {None}]
    BY AdminStatusesAreStatuses DEF TypeOK, OrderStep, AdminEditsOrder, OrderStatus

LEMMA OthersTypeStep ==
    ASSUME TypeOK, [Next]_vars
    PROVE  CatalogueTypeOK' /\ in_cart' \in BOOLEAN
<1>1. CatalogueTypeOK'
    <2>1. UNCHANGED active \/ EditCatalogue
        BY DEF Next, Shop, CartAdd, CartRemove, CheckoutDropsPurchased, Checkout, Pay, OrderCancel,
            AdminEditsOrder, EnrollFree, Study, TimePasses, EditContent, AdministerAccess,
            AdministerCatalogue, vars
    <2>2. active \in [Category \cup Instructor -> BOOLEAN]
        BY DEF TypeOK, CatalogueTypeOK
    <2>3. CASE EditCatalogue
        <3>1. PICK k \in Category \cup Instructor : active' = [active EXCEPT ![k] = ~active[k]]
            BY <2>2, <2>3 DEF EditCatalogue
        <3>. QED
            BY <2>2, <3>1 DEF CatalogueTypeOK
    <2>. QED
        BY <2>1, <2>2, <2>3 DEF CatalogueTypeOK
<1>2. in_cart' \in BOOLEAN
    BY DEF TypeOK, Next, Shop, CartAdd, CartRemove, CheckoutDropsPurchased, Checkout, Pay, OrderCancel,
        AdminEditsOrder, EnrollFree, Study, TimePasses, EditContent, AdministerAccess,
        AdministerCatalogue, vars, shopVars, add, remove, clear
<1>. QED
    BY <1>1, <1>2

LEMMA TypeInit == Init => TypeOK
<1> SUFFICES ASSUME Init PROVE TypeOK
    OBVIOUS
<1>1. EnrollmentTypeOK
    BY BoundsAreNat, VersionsAreRows DEF Init, EnrollmentInit, EnrollmentTypeOK, VipRows, Ends
<1>2. LessonsTypeOK
    <2>1. viewed = <<>> /\ completed = {} /\ WasViewed = {}
        BY DEF Init, LessonsInit, WasViewed
    <2>2. lesson \in [Lesson -> LessonRows] /\ section \in [Section -> BOOLEAN]
        BY DEF Init, LessonsInit, LessonRows
    <2>. QED
        BY <2>1, <2>2, FS_EmptySet DEF LessonsTypeOK
<1>3. CatalogueTypeOK
    BY DEF Init, CatalogueInit, CatalogueTypeOK
<1>. QED
    BY <1>1, <1>2, <1>3 DEF Init, TypeOK

LEMMA TypeStep == TypeOK /\ [Next]_vars => TypeOK'
<1> SUFFICES ASSUME TypeOK, [Next]_vars PROVE TypeOK'
    OBVIOUS
<1>1. EnrollmentTypeOK'
    BY EnrollmentMoves, EnrollmentTypeStep DEF TypeOK
<1>2. LessonsTypeOK'
    BY LessonsMove, LessonsTypeStep DEF TypeOK
<1>. QED
    BY <1>1, <1>2, OrdersMove, OrdersTypeStep, OthersTypeStep DEF TypeOK

(* In every reachable state the rows, the flags and the list of the viewed *)
(* lessons are what their tables hold: one progress row for each lesson,   *)
(* and a row for each that is completed.                                   *)
THEOREM TypesAreKept == Spec => []TypeOK
    BY TypeInit, TypeStep, PTL DEF Spec

-----------------------------------------------------------------------------
(* What is left of an access (AccessDays).                                 *)

LEMMA LeftAfter ==
    ASSUME EnrollmentTypeOK
    PROVE  /\ enrollment = None => TicksLeft = -2
           /\ enrollment # None => TicksLeft \in Nat \cup {-1}
           /\ enrollment # None => (TicksLeft = -1 <=> enrollment.expires_at = None)
           /\ enrollment # None /\ enrollment.expires_at # None =>
                 TicksLeft = IF enrollment.expires_at > now THEN enrollment.expires_at - now ELSE 0
<1>1. now \in Nat
    BY BoundsAreNat DEF EnrollmentTypeOK
<1>2. CASE enrollment = None
    BY <1>2 DEF TicksLeft
<1>3. CASE enrollment # None
    <2>1. enrollment.expires_at \in Nat \cup {None}
        BY <1>3 DEF EnrollmentTypeOK, EnrollmentRows, Ends
    <2>. QED
        BY <1>1, <1>3, <2>1 DEF TicksLeft
<1>. QED
    BY <1>2, <1>3

LEMMA GrantKeepsDays ==
    ASSUME EnrollmentTypeOK, Grant
    PROVE  Days!Grant
<1>0. now \in Nat /\ Day \in Nat /\ Day > 0
    BY BoundsAreNat, DayHasTicks DEF EnrollmentTypeOK
<1>1. now' = now /\ course' = course /\ grants' = grants + 1 /\ corrections' = corrections
      /\ enrollment' = enroll
    BY DEF Grant
<1> DEFINE from == IF enrollment = None THEN now ELSE RenewFrom(enrollment)
           duration == IF HasDuration THEN course.access_duration_days ELSE 0
<1>2. enrollment' # None /\ enrollment'.expires_at = expiry_for(from)
    <2>1. enroll \in EnrollmentRows
        BY EnrollType
    <2>2. enroll.expires_at = expiry_for(from)
        <3>1. CASE enrollment = None
            BY <3>1 DEF enroll
        <3>2. CASE enrollment # None
            <4>1. enrollment \in EnrollmentRows
                BY <3>2 DEF EnrollmentTypeOK
            <4>. QED
                BY <3>2, <4>1 DEF enroll, EnrollmentRows
        <3>. QED
            BY <3>1, <3>2
    <2>. QED
        BY <1>1, <2>1, <2>2, NoneIsNoEnrollment
<1>3. /\ from \in Nat
      /\ from = now + (IF TicksLeft \notin {-2, -1} THEN TicksLeft ELSE 0)
    <2>1. CASE enrollment = None
        BY <1>0, <2>1 DEF TicksLeft
    <2>2. CASE enrollment # None
        <3>1. enrollment.expires_at \in Nat \cup {None}
            BY <2>2 DEF EnrollmentTypeOK, EnrollmentRows, Ends
        <3>. QED
            BY <1>0, <2>2, <3>1, NoneIsNoNumber DEF TicksLeft, RenewFrom
    <2>. QED
        BY <2>1, <2>2
<1> HIDE DEF from
<1>4. duration' = duration
    BY <1>1 DEF HasDuration
<1>5. TicksLeft' = IF duration = 0 THEN -1
                   ELSE duration * Day + (IF TicksLeft \notin {-2, -1} THEN TicksLeft ELSE 0)
    <2>1. CASE HasDuration
        <3>1. course.access_duration_days \in Nat \ {0}
            BY <2>1 DEF HasDuration, EnrollmentTypeOK, CourseRows
        <3>2. /\ course.access_duration_days * Day \in Nat
              /\ course.access_duration_days * Day > 0
            BY <1>0, <3>1
        <3>3. expiry_for(from) = from + course.access_duration_days * Day
            BY <2>1 DEF expiry_for
        <3>4. TicksLeft' = IF expiry_for(from) > now THEN expiry_for(from) - now ELSE 0
            BY <1>0, <1>1, <1>2, <1>3, <3>2, <3>3, NoneIsNoNumber DEF TicksLeft
        <3>5. (IF TicksLeft \notin {-2, -1} THEN TicksLeft ELSE 0) \in Nat
            BY LeftAfter
        <3>. QED
            BY <1>0, <1>3, <2>1, <3>1, <3>2, <3>3, <3>4, <3>5
    <2>2. CASE ~HasDuration
        BY <1>2, <2>2 DEF TicksLeft, expiry_for
    <2>. QED
        BY <2>1, <2>2
<1>. QED
    BY <1>1, <1>4, <1>5 DEF Days!Grant, Days!IsTimed

LEMMA TimeUsesDaysUp ==
    ASSUME EnrollmentTypeOK, Tick
    PROVE  Days!Pass
<1>0. now \in Nat
    BY BoundsAreNat DEF EnrollmentTypeOK
<1>1. /\ now' = now + 1 /\ course' = course /\ enrollment' = enrollment
      /\ grants' = grants /\ corrections' = corrections
    BY DEF Tick
<1>2. TicksLeft' = IF TicksLeft \notin {-2, -1} /\ TicksLeft > 0 THEN TicksLeft - 1 ELSE TicksLeft
    <2>1. CASE enrollment = None
        BY <1>1, <2>1 DEF TicksLeft
    <2>2. CASE enrollment # None
        <3>1. enrollment.expires_at \in Nat \cup {None}
            BY <2>2 DEF EnrollmentTypeOK, EnrollmentRows, Ends
        <3>. QED
            BY <1>0, <1>1, <2>2, <3>1 DEF TicksLeft
    <2>. QED
        BY <2>1, <2>2
<1>. QED
    BY <1>1, <1>2 DEF Days!Pass, Days!IsTimed, HasDuration

LEMMA DaysStep ==
    ASSUME EnrollmentTypeOK, EnrollmentTypeOK', EnrollmentStep
    PROVE  [Days!Next]_(Days!vars)
<1> USE DEF Days!Next, Days!vars
<1>1. CASE Grant
    BY <1>1, GrantKeepsDays
<1>2. CASE AdminSavesEnrollment
    <2>1. enrollment' # None
        BY <1>2, NoneIsNoEnrollment, HandWrittenRow
    <2>2. TicksLeft' \in Nat \cup {-1}
        <3>1. /\ now' \in Nat
              /\ enrollment'.expires_at \in Nat \cup {None}
            BY <2>1, BoundsAreNat DEF EnrollmentTypeOK, EnrollmentRows, Ends
        <3>. QED
            BY <2>1, <3>1 DEF TicksLeft
    <2>. QED
        BY <1>2, <2>2 DEF AdminSavesEnrollment, Days!Correct, HasDuration
<1>3. CASE revoke \/ activate_selected
    <2>1. PICK status \in Statuses : SetStatus(status)
        BY <1>3 DEF revoke, activate_selected, Statuses
    <2>2. enrollment \in EnrollmentRows
        BY <2>1 DEF SetStatus, EnrollmentTypeOK
    <2>3. enrollment' \in EnrollmentRows /\ enrollment'.expires_at = enrollment.expires_at
        BY <2>1, <2>2 DEF SetStatus, EnrollmentRows
    <2>4. TicksLeft' = TicksLeft
        BY <2>1, <2>2, <2>3, NoneIsNoEnrollment DEF TicksLeft, SetStatus
    <2>. QED
        BY <2>1, <2>4 DEF SetStatus, HasDuration
<1>4. CASE EditCourse
    <2>1. (IF HasDuration THEN course.access_duration_days ELSE 0)' \in Nat
        <3>1. course'.access_duration_days \in Nat \cup {None}
            BY DEF EnrollmentTypeOK, CourseRows
        <3>. QED
            BY <3>1 DEF HasDuration
    <2>2. UNCHANGED <<TicksLeft, now, grants, corrections>>
        BY <1>4 DEF EditCourse, TicksLeft
    <2>. QED
        BY <2>1, <2>2 DEF Days!Reprice
<1>5. CASE Tick
    BY <1>5, TimeUsesDaysUp
<1>6. CASE EditVip \/ OtherEdit \/ UNCHANGED enrolmentVars
    BY <1>6 DEF EditVip, OtherEdit, enrolmentVars, TicksLeft, HasDuration
<1>. QED
    BY <1>1, <1>2, <1>3, <1>4, <1>5, <1>6 DEF EnrollmentStep

(* The academy implements AccessDays for any durations, any clock and any  *)
(* course edits: a renewal, early or late, suspended or not, adds the      *)
(* whole duration to what is left (enroll), only time uses it up, and      *)
(* neither suspending nor refunding nor reactivating an access touches it. *)
THEOREM BoughtDaysAreKept == Spec => DaysAreKept
<1>1. Init => Days!Init
    <2> SUFFICES ASSUME Init PROVE Days!Init
        OBVIOUS
    <2>1. EnrollmentTypeOK
        BY TypeInit DEF TypeOK
    <2>2. enrollment = None /\ now = 0 /\ grants = 0 /\ corrections = 0
        BY DEF Init, EnrollmentInit
    <2>3. (IF HasDuration THEN course.access_duration_days ELSE 0) \in Nat
        <3>1. course.access_duration_days \in Nat \cup {None}
            BY <2>1 DEF EnrollmentTypeOK, CourseRows
        <3>. QED
            BY <3>1 DEF HasDuration
    <2>. QED
        BY <2>2, <2>3 DEF Days!Init, TicksLeft
<1>2. TypeOK /\ TypeOK' /\ [Next]_vars => [Days!Next]_(Days!vars)
    BY EnrollmentMoves, DaysStep DEF TypeOK
<1>. QED
    BY <1>1, <1>2, TypeInit, TypeStep, PTL DEF Spec, DaysAreKept, Days!Spec

-----------------------------------------------------------------------------
(* Who is let in, and who is told what.                                    *)

LEMMA AccessStep ==
    ASSUME EnrollmentTypeOK, EnrollmentStep, has_access', ~has_access
    PROVE  \/ grants' > grants \/ corrections' > corrections \/ edits' > edits
           \/ enrollment # None /\ enrollment.starts_at = now'
<1>0. grants \in Nat /\ corrections \in Nat /\ edits \in Nat /\ now \in Nat
    BY BoundsAreNat DEF EnrollmentTypeOK
<1>1. CASE Tick
    <2>1. now' = now + 1 /\ UNCHANGED <<course, vip, enrollment>>
        BY <1>1 DEF Tick
    <2>2. ~(course.vip_access /\ has_active_vip)'
        <3>1. vip.vip_expires_at \in Nat \cup {None}
            BY DEF EnrollmentTypeOK, VipRows, Ends
        <3>. QED
            BY <1>0, <2>1, <3>1 DEF has_active_vip, has_access
    <2>3. enrollment # None /\ is_active(enrollment)' /\ ~is_active(enrollment)
        BY <2>1, <2>2 DEF has_access, HasActiveEnrollment
    <2>4. enrollment.starts_at \in Nat /\ enrollment.expires_at \in Nat \cup {None}
        BY <2>3 DEF EnrollmentTypeOK, EnrollmentRows, Ends
    <2>. QED
        BY <1>0, <2>1, <2>3, <2>4 DEF is_active, has_started, is_expired
<1>2. CASE UNCHANGED enrolmentVars
    BY <1>2 DEF enrolmentVars, has_access, HasActiveEnrollment, is_active, has_started, is_expired,
        has_active_vip
<1>3. CASE ~Tick /\ ~UNCHANGED enrolmentVars
    BY <1>0, <1>3 DEF EnrollmentStep, Grant, AdminSavesEnrollment, revoke, activate_selected,
        SetStatus, EditVip, EditCourse, OtherEdit, Edited
<1>. QED
    BY <1>1, <1>2, <1>3

(* Nobody gets into the course by the passing of time but at the start     *)
(* that an administrator typed: a learner who could not open it and now    *)
(* can was granted the access or given it by hand (user_has_course_access).*)
THEOREM OpenedOnlyByGrant == Spec => AccessIsGiven
<1>1. TypeOK /\ [Next]_vars =>
        [has_access' /\ ~has_access =>
          \/ grants' > grants \/ corrections' > corrections \/ edits' > edits
          \/ enrollment # None /\ enrollment.starts_at = now']_vars
    BY EnrollmentMoves, AccessStep DEF TypeOK
<1>. QED
    BY <1>1, TypeInit, TypeStep, PTL DEF Spec, AccessIsGiven

(* The reasons of check_lesson_access, read one by one.                    *)
LEMMA ReasonsToBuy ==
    ASSUME NEW l, check_lesson_access("learner", l) = "purchase_required"
    PROVE  enrollment = None
    BY Zenon DEF check_lesson_access, IsCourseStaff

(* No order is paid without an enrolment row: what the learner paid for    *)
(* was granted in the same step, and rows are never taken away.            *)
PaidHasRow == IsPurchased => enrollment # None

LEMMA PaidHasRowStep ==
    ASSUME "PAID" \notin AdminStatuses, TypeOK, PaidHasRow, [Next]_vars
    PROVE  PaidHasRow'
<1>1. EnrollmentStep /\ OrderStep
    BY EnrollmentMoves, OrdersMove
<1>2. Grant => enrollment' # None
    BY EnrollType, NoneIsNoEnrollment DEF Grant, TypeOK
<1>3. enrollment # None => enrollment' # None
    <2>1. SUFFICES ASSUME enrollment # None PROVE enrollment' # None
        OBVIOUS
    <2>2. CASE AdminSavesEnrollment
        BY <2>2, HandWrittenRow, NoneIsNoEnrollment DEF TypeOK
    <2>3. CASE revoke \/ activate_selected
        <3>1. PICK status \in Statuses : SetStatus(status)
            BY <2>3 DEF revoke, activate_selected, Statuses
        <3>2. enrollment' \in EnrollmentRows
            BY <2>1, <3>1 DEF SetStatus, TypeOK, EnrollmentTypeOK, EnrollmentRows
        <3>. QED
            BY <3>2, NoneIsNoEnrollment
    <2>. QED
        BY <1>1, <1>2, <2>1, <2>2, <2>3 DEF EnrollmentStep, EditVip, EditCourse, Tick, OtherEdit,
            enrolmentVars
<1>4. IsPurchased' => IsPurchased \/ Grant
    <2> SUFFICES ASSUME NEW o \in Orders, order'[o] = "PAID"
                 PROVE  IsPurchased \/ Grant
        BY DEF IsPurchased
    <2>1. order \in [Orders -> OrderStatus \cup {None}]
        BY DEF TypeOK
    <2>. QED
        BY <1>1, <2>1 DEF OrderStep, AdminEditsOrder, IsPurchased
<1>. QED
    BY <1>2, <1>3, <1>4 DEF PaidHasRow

(* Unless an administrator marks an order as paid by hand, whoever a       *)
(* lesson tells to buy the course can put it in the cart while the         *)
(* registration is open: the paid orders that keep the course out of the   *)
(* cart belong to learners with an enrolment row, who are told otherwise.  *)
THEOREM BuyersCanBuy ==
    ASSUME "PAID" \notin AdminStatuses
    PROVE  Spec => []WayIn
<1>1. Init => TypeOK /\ PaidHasRow
    <2> SUFFICES ASSUME Init PROVE PaidHasRow
        BY TypeInit
    <2>. QED
        BY NoneIsNoStatus DEF Init, PaidHasRow, IsPurchased, OrderStatus
<1>2. TypeOK /\ PaidHasRow /\ [Next]_vars => (TypeOK /\ PaidHasRow)'
    BY TypeStep, PaidHasRowStep
<1>3. TypeOK /\ PaidHasRow => WayIn
    BY ReasonsToBuy DEF WayIn, PaidHasRow, CanBePutInCart, registration_open
<1>. QED
    BY <1>1, <1>2, <1>3, PTL DEF Spec

-----------------------------------------------------------------------------
(* The report of the command and the warnings of the pages.                *)

LEMMA WholeDays ==
    ASSUME NEW ticks \in Nat, NEW days \in Nat
    PROVE  /\ ticks \div Day \in Nat
           /\ ticks <= days * Day => ticks \div Day <= days
           /\ ticks \div Day <= days => ticks <= days * Day + Day - 1
<1>0. Day \in Nat /\ Day > 0
    BY DayHasTicks
<1>1. PICK q \in Nat : q = ticks \div Day /\ q * Day <= ticks /\ ticks <= q * Day + Day - 1
    BY <1>0
<1>2. ticks <= days * Day => q <= days
    BY <1>0, <1>1
<1>3. q <= days => q * Day <= days * Day
    BY <1>0
<1>4. q <= days => ticks <= days * Day + Day - 1
    BY <1>0, <1>1, <1>3
<1>. QED
    BY <1>1, <1>2, <1>4

LEMMA Headings ==
    ASSUME NEW row, row.status \in Statuses
    PROVE  /\ ReportedAs(row) = "lifetime" => row.status = "active" /\ row.expires_at = None
           /\ ReportedAs(row) = "valid" =>
                 row.status = "active" /\ row.expires_at # None /\ row.expires_at > now
           /\ row.status = "active" =>
                 /\ row.expires_at = None => ReportedAs(row) = "lifetime"
                 /\ row.expires_at # None /\ row.expires_at > now => ReportedAs(row) = "valid"
<1>1. CASE row.status = "suspended"
    <2>1. ReportedAs(row) = "suspended"
        BY <1>1, Zenon DEF ReportedAs
    <2>. QED
        BY <1>1, <2>1
<1>2. CASE row.status = "refunded"
    <2>1. ReportedAs(row) = "none"
        BY <1>2, Zenon DEF ReportedAs
    <2>. QED
        BY <1>2, <2>1
<1>3. CASE row.status = "active"
    <2>1. ReportedAs(row) = IF row.expires_at = None THEN "lifetime"
                            ELSE IF row.expires_at > now THEN "valid" ELSE "expired"
        BY <1>3, Zenon DEF ReportedAs
    <2>. QED
        BY <1>3, <2>1
<1>. QED
    BY <1>1, <1>2, <1>3 DEF Statuses

(* The two ways of counting what is left, in ticks and in whole days,      *)
(* agree but for the moment of the end and for less than a day, for any    *)
(* length of the day and any number of days.                               *)
THEOREM ReportsAgree == Spec => []ReportAgrees
<1>1. TypeOK => ReportAgrees
    <2> SUFFICES ASSUME TypeOK, enrollment # None, has_started(enrollment)
                 PROVE  /\ ReportedAs(enrollment) \in {"lifetime", "valid"} => is_active(enrollment)
                        /\ is_active(enrollment) =>
                              \/ ReportedAs(enrollment) \in {"lifetime", "valid"}
                              \/ enrollment.expires_at = now
                        /\ soon(enrollment) => is_expiring_soon(enrollment)
                        /\ is_active(enrollment) /\ is_expiring_soon(enrollment) =>
                              \/ soon(enrollment)
                              \/ enrollment.expires_at = now
                              \/ enrollment.expires_at - now
                                    \in SoonDays * Day + 1 .. SoonDays * Day + Day - 1
        BY DEF ReportAgrees
    <2> DEFINE end == enrollment.expires_at
    <2>1. /\ now \in Nat /\ SoonDays \in Nat /\ Day \in Nat
          /\ SoonDays * Day \in Nat
          /\ enrollment.status \in Statuses
          /\ end \in Nat \cup {None}
        <3>1. enrollment \in EnrollmentRows
            BY DEF TypeOK, EnrollmentTypeOK
        <3>2. SoonDays * Day \in Nat
            BY SoonIsDays, DayHasTicks, ProductIsNat
        <3>. QED
            BY <3>1, <3>2, BoundsAreNat, SoonIsDays, DayHasTicks
                DEF TypeOK, EnrollmentTypeOK, EnrollmentRows, Ends
    <2>2. ReportedAs(enrollment) \in {"lifetime", "valid"} => is_active(enrollment)
        BY <2>1, Headings DEF is_active, is_expired, Statuses
    <2>3. is_active(enrollment) =>
              \/ ReportedAs(enrollment) \in {"lifetime", "valid"}
              \/ end = now
        BY <2>1, Headings DEF is_active, is_expired, Statuses
    <2>4. soon(enrollment) => is_expiring_soon(enrollment)
        <3> SUFFICES ASSUME soon(enrollment) PROVE is_expiring_soon(enrollment)
            OBVIOUS
        <3>1. end \in Nat /\ end > now /\ end - now \in Nat /\ end - now <= SoonDays * Day
            BY <2>1 DEF soon
        <3>2. (end - now) \div Day \in Nat /\ (end - now) \div Day <= SoonDays
            BY <2>1, <3>1, WholeDays
        <3>. QED
            BY <3>1, <3>2, NoneIsNoNumber DEF is_expiring_soon, days_remaining
    <2>5. ASSUME is_active(enrollment), is_expiring_soon(enrollment)
          PROVE  \/ soon(enrollment) \/ end = now
                 \/ end - now \in SoonDays * Day + 1 .. SoonDays * Day + Day - 1
        <3>1. end \in Nat /\ end >= now /\ enrollment.status = "active"
            BY <2>1, <2>5 DEF is_active, is_expired, is_expiring_soon, days_remaining
        <3>2. CASE end > now
            <4>1. (end - now) \div Day <= SoonDays /\ end - now \in Nat
                BY <2>1, <2>5, <3>1, <3>2, NoneIsNoNumber DEF is_expiring_soon, days_remaining
            <4>2. end - now <= SoonDays * Day + Day - 1
                BY <2>1, <4>1, WholeDays
            <4>. QED
                BY <2>1, <3>1, <3>2, <4>1, <4>2, NoneIsNoNumber DEF soon
        <3>. QED
            BY <2>1, <3>1, <3>2
    <2>. QED
        BY <2>2, <2>3, <2>4, <2>5
<1>. QED
    BY <1>1, TypesAreKept, PTL

-----------------------------------------------------------------------------
(* What is offered and what opens.                                         *)

LEMMA LeastNumber ==
    ASSUME NEW S, S \subseteq Nat, S # {}
    PROVE  \E l \in S : \A m \in S : l <= m
<1>1. \E l \in S : \A m \in S : ~(<<m, l>> \in OpToRel(<, Nat))
    BY NatLessThanWellFounded, WFMin
<1>2. PICK l \in S : \A m \in S : ~(<<m, l>> \in OpToRel(<, Nat))
    BY <1>1
<1>3. ASSUME NEW m \in S PROVE l <= m
    <2>1. m \in Nat /\ l \in Nat /\ ~(m < l)
        BY <1>2 DEF OpToRel
    <2>. QED
        BY <2>1
<1>. QED
    BY <1>3

LEMMA FirstIsFirst ==
    ASSUME NEW S, S \subseteq Lesson, S # {}
    PROVE  First(S) \in S
<1>1. \E l \in S : \A m \in S : l <= m
    BY LeastNumber, LessonsAreNumbered
<1>. QED
    BY <1>1 DEF First

LEMMA LastIsLast ==
    ASSUME NEW n \in Nat, NEW S, S \subseteq 1..n, S # {}
    PROVE  Max(S) \in S
<1> DEFINE T == {n - i : i \in S}
<1>1. T \subseteq Nat /\ T # {}
    <2>1. \A i \in S : i \in 1..n /\ n - i \in Nat
        OBVIOUS
    <2>2. PICK i \in S : TRUE
        OBVIOUS
    <2>3. n - i \in T
        OBVIOUS
    <2>. QED
        BY <2>1, <2>3
<1>2. PICK j \in T : \A k \in T : j <= k
    BY <1>1, LeastNumber
<1>3. PICK i \in S : j = n - i
    BY <1>2
<1>4. ASSUME NEW m \in S PROVE i >= m
    <2>1. n - m \in T
        OBVIOUS
    <2>2. n - i <= n - m /\ i \in 1..n /\ m \in 1..n
        BY <1>2, <1>3, <2>1
    <2>. QED
        BY <2>2
<1>. QED
    BY <1>4 DEF Max

(* The buttons of the pages lead to lessons that are there.                *)
LEMMA ButtonsLeadOn ==
    ASSUME LessonsTypeOK
    PROVE  /\ next_lesson # None => next_lesson \in visible_lessons \ completed
           /\ next_lesson = None <=> visible_lessons \subseteq completed
           /\ resume_lesson # None => resume_lesson \in visible_lessons
           /\ preview_lesson # None =>
                 preview_lesson \in visible_lessons /\ lesson[preview_lesson].is_free_preview
<1>1. visible_lessons \subseteq Lesson /\ None \notin Lesson
    <2>1. None \notin Nat
        BY NoneIsNoNumber
    <2>. QED
        BY <2>1, LessonsAreNumbered DEF visible_lessons
<1>2. /\ next_lesson # None => next_lesson \in visible_lessons \ completed
      /\ next_lesson = None <=> visible_lessons \subseteq completed
    <2>1. CASE visible_lessons \ completed = {}
        BY <2>1 DEF next_lesson
    <2>2. CASE visible_lessons \ completed # {}
        <3>1. next_lesson \in visible_lessons \ completed
            BY <1>1, <2>2, FirstIsFirst DEF next_lesson
        <3>. QED
            BY <1>1, <2>2, <3>1
    <2>. QED
        BY <2>1, <2>2
<1>3. last_lesson # None => last_lesson \in visible_lessons
    <2> SUFFICES ASSUME records # {} PROVE viewed[Max(records)] \in visible_lessons
        BY DEF last_lesson
    <2>1. records \subseteq 1..Len(viewed) /\ Len(viewed) \in Nat /\ viewed \in Seq(Lesson)
        BY DEF LessonsTypeOK, records
    <2>2. Max(records) \in records
        BY <2>1, LastIsLast
    <2>3. viewed[Max(records)] \in Lesson
        BY <2>1, <2>2, ElementOfSeq
    <2>. QED
        BY <2>2, <2>3 DEF records, visible_lessons
<1>4. preview_lesson # None =>
          preview_lesson \in visible_lessons /\ lesson[preview_lesson].is_free_preview
    <2> DEFINE free == {l \in visible_lessons : lesson[l].is_free_preview}
    <2>1. free # {} => First(free) \in free
        BY <1>1, FirstIsFirst
    <2>. QED
        BY <2>1 DEF preview_lesson
<1>. QED
    BY <1>2, <1>3, <1>4 DEF resume_lesson

LEMMA EnrolledMayOpen ==
    ASSUME NEW l, is_visible(l), HasActiveEnrollment
    PROVE  Allowed(check_lesson_access("learner", l))
<1>1. CASE lesson[l].is_free_preview
    <2>1. check_lesson_access("learner", l) = "free_preview"
        BY <1>1, Zenon DEF check_lesson_access
    <2>. QED
        BY <2>1 DEF Allowed
<1>2. CASE ~lesson[l].is_free_preview
    <2>1. ~IsCourseStaff("learner") /\ has_access
        BY DEF IsCourseStaff, has_access
    <2>2. check_lesson_access("learner", l) = "enrolled"
        BY <1>2, <2>1, Zenon DEF check_lesson_access
    <2>. QED
        BY <2>2 DEF Allowed
<1>. QED
    BY <1>1, <1>2

LEMMA PreviewOpens ==
    ASSUME NEW l, NEW visitor, is_visible(l), lesson[l].is_free_preview
    PROVE  Allowed(check_lesson_access(visitor, l))
<1>1. check_lesson_access(visitor, l) = "free_preview"
    BY Zenon DEF check_lesson_access
<1>. QED
    BY <1>1 DEF Allowed

LEMMA EnrolledIsEnrolled ==
    ASSUME NEW l, check_lesson_access("learner", l) = "enrolled"
    PROVE  HasActiveEnrollment
    BY Zenon DEF check_lesson_access, IsCourseStaff

(* A course in the learner's list opens in every visible lesson, the       *)
(* button that continues it and the sample on its page lead to lessons     *)
(* that open, and a lesson open by enrolment is of a course in the list.   *)
THEOREM OfferedIsOpen == Spec => []ListedIsOpen
<1>1. TypeOK => ListedIsOpen
    <2> SUFFICES ASSUME TypeOK PROVE ListedIsOpen
        OBVIOUS
    <2> DEFINE list == curriculum("learner")
    <2>1. /\ DOMAIN list = visible_lessons
          /\ \A l \in visible_lessons : is_visible(l) /\ list[l].access = check_lesson_access("learner", l)
        BY DEF curriculum, visible_lessons
    <2>2. LessonsTypeOK
        BY DEF TypeOK
    <2>3. IsListed => LessonFound /\ \A l \in DOMAIN list : Allowed(list[l].access)
        BY <2>1, EnrolledMayOpen DEF IsListed, LessonFound
    <2>4. dashboard_view.resume_lesson # None => LessonOpens("learner", dashboard_view.resume_lesson)
        <3>1. dashboard_view.resume_lesson = IF IsListed THEN resume_lesson ELSE None
            BY DEF dashboard_view
        <3>. QED
            BY <2>1, <2>2, <3>1, ButtonsLeadOn, EnrolledMayOpen DEF IsListed, LessonOpens, LessonFound
    <2>5. LessonFound /\ (\E l \in DOMAIN list : list[l].access = "enrolled") => IsListed
        BY <2>1, EnrolledIsEnrolled DEF IsListed, LessonFound
    <2>6. LessonFound /\ preview_lesson # None =>
              \A visitor \in Visitors : LessonOpens(visitor, preview_lesson)
        BY <2>1, <2>2, ButtonsLeadOn, PreviewOpens DEF LessonOpens
    <2> HIDE DEF list
    <2>. QED
        BY <2>3, <2>4, <2>5, <2>6 DEF ListedIsOpen, list
<1>. QED
    BY <1>1, TypesAreKept, PTL

(* The calendar and the button of the cart draw the line on the same day,  *)
(* for any courses, prices, dates and length of the day, and the list of   *)
(* free courses holds none that search engines are told to cost anything.  *)
THEOREM CalendarsAreOpen == Spec => []CalendarIsOpen
<1>1. TypeOK => CalendarIsOpen
    <2> SUFFICES ASSUME TypeOK PROVE CalendarIsOpen
        OBVIOUS
    <2>1. \A c \in CourseIds : shelf(c) \in CourseRows
        BY OtherRowsAreRows DEF shelf, CourseIds, TypeOK, EnrollmentTypeOK
    <2> DEFINE listed == training_calendar(None, "any")
               open == {c \in published : registration_open(shelf(c), now)}
    <2>2. listed = upcoming
        BY DEF training_calendar, filter_courses
    <2>3. \A c \in open \ listed : shelf(c).start_date = None
        BY <2>2 DEF upcoming, is_upcoming, registration_open
    <2>4. \A c \in listed : course_jsonld(c).availability = "InStock"
        BY <2>2 DEF upcoming, is_upcoming, registration_open, course_jsonld, published
    <2>5. ASSUME NEW c \in course_list(None, "free")
          PROVE  course_jsonld(c).price = 0 /\ course_jsonld(c).category = "free"
        <3>1. c \in CourseIds /\ shelf(c).price = 0
            BY <2>5 DEF course_list, filter_courses, published
        <3>2. shelf(c).discount_price \in Nat \cup {None}
            BY <2>1, <3>1 DEF CourseRows
        <3>3. final_price(shelf(c)) = 0
            BY <3>1, <3>2 DEF final_price, has_discount
        <3>. QED
            BY <3>3 DEF course_jsonld, is_free
    <2>. QED
        BY <2>3, <2>4, <2>5 DEF CalendarIsOpen
<1>. QED
    BY <1>1, TypesAreKept, PTL

(* Each page makes a query of its own, and none shows a withdrawn course.  *)
THEOREM WithdrawnIsGone == Spec => []WithdrawnIsNowhere
<1>1. WithdrawnIsNowhere
    <2>1. ThisCourse \in published <=> course.is_published
        BY DEF published, CourseIds, shelf
    <2>2. upcoming \subseteq published
        BY DEF upcoming
    <2>3. \A k, S, price : filter_courses(S, k, price) \subseteq S
        BY DEF filter_courses
    <2>4. \A k : course_list(k, "any") \subseteq published /\ training_calendar(k, "any") \subseteq published
        BY <2>2, <2>3 DEF course_list, training_calendar
    <2>5. \A c, i : related_courses(c) \subseteq published /\ instructor_detail(i) \subseteq published
        BY DEF related_courses, instructor_detail
    <2>6. /\ calendar_courses \subseteq published /\ featured_courses \subseteq published
          /\ search(TRUE, None, "free") \subseteq published
        BY <2>2, <2>3 DEF calendar_courses, featured_courses, search
    <2>7. (IF IsListed \/ CartHasLine THEN {ThisCourse} ELSE {}) \subseteq published
        BY <2>1 DEF IsListed, CartHasLine
    <2>8. /\ UNION {course_list(k, "any") \cup training_calendar(k, "any") : k \in Category} \subseteq published
          /\ UNION {related_courses(c) : c \in published} \subseteq published
          /\ UNION {instructor_detail(i) : i \in Instructor} \subseteq published
        BY <2>4, <2>5
    <2>9. Shown \subseteq published
        BY <2>6, <2>7, <2>8 DEF Shown
    <2>. QED
        BY <2>9 DEF WithdrawnIsNowhere
<1>. QED
    BY <1>1, PTL

-----------------------------------------------------------------------------
(* Counting.                                                               *)

(* The lessons to do are those the page counts as remaining.               *)
Remaining ==
    /\ IsFiniteSet(visible_lessons) /\ IsFiniteSet(visible_lessons \ completed)
    /\ total \in Nat /\ completed_count \in Nat /\ completed_count <= total
    /\ completed_count = total <=> visible_lessons \subseteq completed
    /\ remaining = Cardinality(visible_lessons \ completed)
    /\ remaining > 0 => resume_lesson = next_lesson
    /\ next_lesson # None => next_lesson \in visible_lessons \ completed
    /\ next_lesson = None <=> visible_lessons \subseteq completed

LEMMA RemainingHolds == LessonsTypeOK => Remaining
<1> SUFFICES ASSUME LessonsTypeOK PROVE Remaining
    OBVIOUS
<1>1. visible_lessons \subseteq Lesson /\ IsFiniteSet(visible_lessons)
    BY LessonsAreNumbered, FS_Subset DEF visible_lessons
<1>2. /\ IsFiniteSet(visible_lessons \ completed)
      /\ Cardinality(visible_lessons \ completed) = total - Cardinality(visible_lessons \cap completed)
      /\ total \in Nat
    BY <1>1, FS_Difference, FS_CardinalityType DEF total
<1>3. completed_count = Cardinality(visible_lessons \cap completed)
    <2>1. completed \cap visible_lessons = visible_lessons \cap completed
        OBVIOUS
    <2>. QED
        BY <2>1 DEF completed_count
<1>4. /\ completed_count \in Nat /\ completed_count <= total
      /\ completed_count = total => visible_lessons \cap completed = visible_lessons
    BY <1>1, <1>3, FS_Subset, FS_CardinalityType DEF total
<1>5. completed_count = total <=> visible_lessons \subseteq completed
    <2>1. visible_lessons \subseteq completed => visible_lessons \cap completed = visible_lessons
        OBVIOUS
    <2>. QED
        BY <1>3, <1>4, <2>1 DEF total
<1>6. remaining = Cardinality(visible_lessons \ completed)
    BY <1>2, <1>3, <1>4 DEF remaining
<1>7. remaining > 0 => next_lesson # None
    <2>1. remaining > 0 => completed_count # total
        BY <1>2, <1>4 DEF remaining
    <2>. QED
        BY <1>5, <2>1, ButtonsLeadOn
<1>. QED
    BY <1>1, <1>2, <1>4, <1>5, <1>6, <1>7, ButtonsLeadOn DEF Remaining, resume_lesson

LEMMA CompletingStep ==
    ASSUME LessonsTypeOK, Remaining, Remaining', LessonStep,
           remaining > 0, completed' \ completed = {resume_lesson}
    PROVE  /\ remaining' = remaining - 1
           /\ remaining' > 0 => resume_lesson' \in visible_lessons \ completed'
<1>1. resume_lesson \in visible_lessons \ completed
    <2>1. next_lesson # None
        <3>1. visible_lessons \ completed # {}
            BY FS_EmptySet DEF Remaining
        <3>. QED
            BY <3>1 DEF Remaining
    <2>. QED
        BY <2>1 DEF Remaining
<1>2. /\ UNCHANGED <<lesson, section>>
      /\ completed' = completed \cup {resume_lesson}
    <2>1. completed' # completed
        OBVIOUS
    <2>2. PICK l \in Lesson, done \in BOOLEAN :
              /\ UNCHANGED <<lesson, section>>
              /\ completed' = IF done THEN completed \cup {l} ELSE completed \ {l}
        BY <2>1 DEF LessonStep, EditLesson, EditSection, lessonVars
    <2>3. completed' = completed \cup {l} /\ l = resume_lesson
        BY <2>2
    <2>. QED
        BY <2>2, <2>3
<1>3. visible_lessons' = visible_lessons
    BY <1>2 DEF visible_lessons, is_visible
<1>4. (visible_lessons \ completed)' = (visible_lessons \ completed) \ {resume_lesson}
    BY <1>2, <1>3
<1>5. Cardinality((visible_lessons \ completed) \ {resume_lesson})
          = Cardinality(visible_lessons \ completed) - 1
    <2>1. IsFiniteSet(visible_lessons \ completed)
        BY DEF Remaining
    <2>. QED
        BY <1>1, <2>1, FS_RemoveElement
<1>6. remaining' = remaining - 1
    BY <1>4, <1>5 DEF Remaining
<1>7. remaining' > 0 => resume_lesson' \in visible_lessons \ completed'
    <2> SUFFICES ASSUME remaining' > 0 PROVE resume_lesson' \in visible_lessons \ completed'
        OBVIOUS
    <2>1. (visible_lessons \ completed)' # {}
        BY FS_EmptySet DEF Remaining
    <2>2. next_lesson' # None
        BY <2>1 DEF Remaining
    <2>. QED
        BY <1>3, <2>2 DEF Remaining
<1>. QED
    BY <1>6, <1>7

(* Completing the lesson that the continue button led to leaves one lesson *)
(* less, and the next button leads to a lesson that is still to do, in     *)
(* whatever order the lessons were done and whatever is hidden.            *)
THEOREM ButtonLeadsOn == Spec => CompletingLeadsOn
<1>1. TypeOK => Remaining
    BY RemainingHolds DEF TypeOK
<1>2. TypeOK /\ Remaining /\ Remaining' /\ [Next]_vars =>
        [LET new == completed' \ completed IN
         new # {} /\ new = {resume_lesson} /\ remaining > 0
            => /\ remaining' = remaining - 1
               /\ remaining' > 0 => resume_lesson' \in visible_lessons \ completed']_vars
    BY LessonsMove, CompletingStep DEF TypeOK
<1>. QED
    BY <1>1, <1>2, TypesAreKept, PTL DEF Spec, CompletingLeadsOn

(* The sum of a function over a set.                                       *)
SumOf(term, S) == MapThenSumSet(LAMBDA x : term[x], S)

Grows(sum, term, S) ==
    /\ sum \in [SUBSET S -> Nat]
    /\ sum[{}] = 0
    /\ \A s \in SUBSET S : \A x \in s : sum[s] = term[x] + sum[s \ {x}]

(* The members of M whose group is that one.                               *)
Members(M, group, g) == {m \in M : group[m] = g}

Counts(term, M, group, G) == \A g \in G : term[g] = Cardinality(Members(M, group, g))

(* What a fold adds up is any function of sets that grows as it does: that *)
(* function satisfies the equation of the fold, so the fold does, and no   *)
(* finite set is the smallest on which the two differ.                     *)
LEMMA SumIs ==
    ASSUME NEW S, IsFiniteSet(S), NEW term, NEW sum, Grows(sum, term, S)
    PROVE  SumOf(term, S) = sum[S]
<1> USE DEF Grows
<1> DEFINE Eqn(g) == g = [s \in SUBSET S |->
                            IF s = {} THEN 0
                            ELSE term[CHOOSE x \in s : TRUE] + g[s \ {CHOOSE x \in s : TRUE}]]
           fold == CHOOSE g : Eqn(g)
<1>1. SumOf(term, S) = fold[S]
    BY DEF SumOf, MapThenSumSet, MapThenFoldSet
<1>2. Eqn(sum)
    <2>1. ASSUME NEW s \in SUBSET S, s # {}
          PROVE  sum[s] = term[CHOOSE x \in s : TRUE] + sum[s \ {CHOOSE x \in s : TRUE}]
        <3> DEFINE c == CHOOSE x \in s : TRUE
        <3>1. c \in s
            BY <2>1
        <3> HIDE DEF c
        <3>2. sum[s] = term[c] + sum[s \ {c}]
            BY <3>1
        <3>. QED
            BY <3>2 DEF c
    <2>. QED
        BY <2>1
<1>3. Eqn(fold)
    <2> HIDE DEF Eqn
    <2>. QED
        BY <1>2, Zenon
<1>4. ASSUME NEW s \in SUBSET S, s # {}
      PROVE  \E x \in s : fold[s] = term[x] + fold[s \ {x}]
    <2>1. fold[s] = term[CHOOSE x \in s : TRUE] + fold[s \ {CHOOSE x \in s : TRUE}]
        <3> HIDE DEF fold
        <3>. QED
            BY <1>3, <1>4
    <2> HIDE DEF fold
    <2>. QED
        BY <1>4, <2>1
<1>5. fold[{}] = 0
    <2> HIDE DEF fold
    <2>. QED
        BY <1>3
<1> HIDE DEF fold
<1> DEFINE Bad == {s \in SUBSET S : fold[s] # sum[s]}
           R == StrictSubsetOrdering(S)
<1>6. SUFFICES ASSUME Bad # {} PROVE FALSE
    BY <1>1
<1>7. IsWellFoundedOn(R, SUBSET S)
    BY FS_StrictSubsetOrderingWellFounded, FS_FiniteSubsetsOfFinite
<1>8. Bad \subseteq SUBSET S
    OBVIOUS
<1>9. PICK s \in Bad : \A t \in Bad : ~(<<t, s>> \in R)
    <2> HIDE DEF Bad, R
    <2>. QED
        BY <1>6, <1>7, <1>8, WFMin
<1>10. s \in SUBSET S /\ s # {}
    BY <1>5, <1>9
<1>11. PICK x \in s : fold[s] = term[x] + fold[s \ {x}]
    BY <1>4, <1>10
<1>12. fold[s \ {x}] = sum[s \ {x}]
    <2>1. s \ {x} \in SUBSET S /\ <<s \ {x}, s>> \in R
        BY <1>10, <1>11 DEF StrictSubsetOrdering
    <2>. QED
        BY <1>9, <2>1
<1>. QED
    BY <1>9, <1>10, <1>11, <1>12

(* Counting the members of a set by their groups.                          *)
LEMMA CountByGroups ==
    ASSUME NEW M, IsFiniteSet(M), NEW G, IsFiniteSet(G), NEW group, NEW term,
           Counts(term, M, group, G)
    PROVE  SumOf(term, G) = Cardinality({m \in M : group[m] \in G})
<1> DEFINE sum == [s \in SUBSET G |-> Cardinality({m \in M : group[m] \in s})]
<1>1. \A s : IsFiniteSet({m \in M : group[m] \in s}) /\ Cardinality({m \in M : group[m] \in s}) \in Nat
    <2> TAKE s
    <2>1. {m \in M : group[m] \in s} \in SUBSET M
        OBVIOUS
    <2>. QED
        BY <2>1, FS_Subset, FS_CardinalityType
<1>2. sum \in [SUBSET G -> Nat]
    BY <1>1
<1>3. sum[{}] = 0
    <2>1. {m \in M : group[m] \in {}} = {}
        OBVIOUS
    <2>. QED
        BY <2>1, FS_EmptySet
<1>4. ASSUME NEW s \in SUBSET G, NEW x \in s
      PROVE  sum[s] = term[x] + sum[s \ {x}]
    <2> DEFINE A == {m \in M : group[m] = x}
               B == {m \in M : group[m] \in s \ {x}}
               C == {m \in M : group[m] \in s}
    <2>1. C = A \cup B /\ A \cap B = {} /\ A = {m \in M : group[m] \in {x}}
        OBVIOUS
    <2>2. IsFiniteSet(A) /\ IsFiniteSet(B) /\ Cardinality(A) \in Nat /\ Cardinality(B) \in Nat
        BY <1>1, <2>1
    <2>3. sum[s] = Cardinality(C) /\ term[x] = Cardinality(A) /\ sum[s \ {x}] = Cardinality(B)
        BY DEF Counts, Members
    <2> HIDE DEF A, B, C
    <2>4. Cardinality(A \cup B) = Cardinality(A) + Cardinality(B) - Cardinality(A \cap B)
        BY <2>2, FS_Union
    <2>5. Cardinality(A \cap B) = 0
        BY <2>1, FS_EmptySet
    <2>6. Cardinality(C) = Cardinality(A) + Cardinality(B)
        BY <2>1, <2>2, <2>4, <2>5
    <2> HIDE DEF sum
    <2>. QED
        BY <2>3, <2>6
<1>5. sum[G] = Cardinality({m \in M : group[m] \in G})
    OBVIOUS
<1> HIDE DEF sum
<1>6. Grows(sum, term, G)
    BY <1>2, <1>3, <1>4 DEF Grows
<1>7. SumOf(term, G) = sum[G]
    BY <1>6, SumIs
<1>. QED
    BY <1>5, <1>7

(* A percentage is shown as 100 only if all is done, as long as there are  *)
(* no more than 199 lessons: from 200 on the last one is rounded away.     *)
LEMMA FullPercent ==
    ASSUME NEW done \in Nat, NEW of \in Nat, done <= of, of > 0
    PROVE  /\ done = of => percent(done, of) = 100
           /\ of <= 199 /\ done < of => percent(done, of) # 100
<1> DEFINE part == done * 100
           down == part \div of
           rest == part % of
           q == IF 2 * rest > of \/ (2 * rest = of /\ down % 2 = 1) THEN down + 1 ELSE down
<1>1. percent(done, of) = q
    BY DEF percent, Rounded
<1>2. down \in Nat /\ rest \in Nat /\ rest < of /\ part = down * of + rest
    OBVIOUS
<1>3. done = of => percent(done, of) = 100
    <2> SUFFICES ASSUME done = of PROVE q = 100
        BY <1>1
    <2>1. down = 100 /\ rest = 0
        OBVIOUS
    <2>. QED
        BY <2>1
<1>4. ASSUME of <= 199, done < of
      PROVE  q # 100
    <2>1. down < 100
        <3>1. ASSUME down >= 100 PROVE FALSE
            <4>1. down * of >= 100 * of
                BY <1>2, <3>1
            <4>. QED
                BY <1>2, <1>4, <4>1
        <3>. QED
            BY <1>2, <3>1
    <2>2. CASE down < 99
        BY <1>2, <2>2
    <2>3. CASE down = 99
        <3>1. part = 99 * of + rest
            BY <1>2, <2>3
        <3>2. 2 * rest < of
            BY <1>2, <1>4, <3>1
        <3>. QED
            BY <1>2, <2>3, <3>2
    <2>. QED
        BY <1>2, <2>1, <2>2, <2>3
<1>. QED
    BY <1>1, <1>3, <1>4

(* One hundred percent is shown for a finished course and for no other,    *)
(* whatever the lessons are: with more than they are by any of these       *)
(* numbers, up to 199 lessons.                                             *)
THEOREM FullIsFinished == Spec => []FullMeansFinished
<1>1. TypeOK => FullMeansFinished
    <2> SUFFICES ASSUME TypeOK, total > 0, NEW more \in {0, 10, 98, 197}, total + more <= 199
                 PROVE  percent(completed_count + more, total + more) = 100 <=> is_finished
        BY DEF FullMeansFinished
    <2>1. total \in Nat /\ completed_count \in Nat /\ completed_count <= total
        BY RemainingHolds DEF TypeOK, Remaining
    <2>2. is_finished <=> completed_count = total
        BY <2>1 DEF is_finished
    <2>3. /\ completed_count + more \in Nat /\ total + more \in Nat /\ total + more > 0
          /\ completed_count + more <= total + more
          /\ completed_count + more = total + more <=> completed_count = total
          /\ completed_count + more < total + more <=> completed_count # total
        BY <2>1
    <2>. QED
        BY <2>2, <2>3, FullPercent
<1>. QED
    BY <1>1, TypesAreKept, PTL

(* Whatever is published, hidden, viewed and completed and whatever the    *)
(* sections, the numbers, the marks and the button of the learner's pages  *)
(* and the counts of the admin agree.                                      *)
THEOREM NumbersAgree == Spec => []ProgressAddsUp
<1>1. TypeOK => ProgressAddsUp
    <2> SUFFICES ASSUME TypeOK PROVE ProgressAddsUp
        OBVIOUS
    <2> DEFINE list == curriculum("learner")
    <2>0. /\ LessonsTypeOK /\ Remaining
          /\ DOMAIN list = visible_lessons
          /\ \A l \in visible_lessons : list[l].is_completed = (l \in completed)
        BY RemainingHolds DEF TypeOK, curriculum
    <2>1. total \in Nat /\ completed_count \in Nat /\ completed_count <= total
          /\ IsFiniteSet(visible_lessons) /\ visible_lessons \subseteq Lesson
        BY <2>0 DEF Remaining, visible_lessons
    <2>2. lesson_count = total
        BY DEF lesson_count, total, visible_lessons, is_visible
    <2>3. Cardinality(DOMAIN list) = lesson_count
        BY <2>0, <2>2 DEF total
    <2>4. MapThenSumSet(LAMBDA s : lesson_count_of[s], {s \in Section : section[s]}) = lesson_count
        <3> DEFINE M == {l \in Lesson : lesson[l].is_published}
                   G == {s \in Section : section[s]}
        <3>1. IsFiniteSet(M)
            BY LessonsAreNumbered, FS_Subset
        <3>2. IsFiniteSet(G)
            <4> DEFINE f == [l \in Lesson |-> SectionOf[l]]
            <4>1. f \in Surjection(Lesson, Section)
                BY DEF Section, Surjection
            <4>2. IsFiniteSet(Section)
                BY <4>1, LessonsAreNumbered, FS_Surjection
            <4>. QED
                BY <4>2, FS_Subset
        <3>3. Counts(lesson_count_of, M, SectionOf, G)
            <4> SUFFICES ASSUME NEW s \in G
                         PROVE  lesson_count_of[s] = Cardinality(Members(M, SectionOf, s))
                BY DEF Counts
            <4>1. {l \in M : SectionOf[l] = s} = {l \in Lesson : SectionOf[l] = s /\ lesson[l].is_published}
                OBVIOUS
            <4>. QED
                BY <4>1 DEF lesson_count_of, Members
        <3>4. {l \in M : SectionOf[l] \in G} = visible_lessons
            BY DEF visible_lessons, is_visible, Section
        <3> HIDE DEF M, G
        <3>5. SumOf(lesson_count_of, G) = Cardinality({l \in M : SectionOf[l] \in G})
            BY <3>1, <3>2, <3>3, CountByGroups
        <3>. QED
            BY <2>2, <3>4, <3>5 DEF SumOf, G, total
    <2>5. lesson_count > 0 => has_curriculum
        <3> SUFFICES ASSUME lesson_count > 0 PROVE has_curriculum
            OBVIOUS
        <3>1. PICK l \in visible_lessons : TRUE
            BY <2>1, <2>2, FS_EmptySet DEF total
        <3>. QED
            BY <3>1 DEF has_curriculum, visible_lessons, is_visible, Section
    <2>6. Cardinality({l \in DOMAIN list : list[l].is_completed}) = completed_count
        <3>1. {l \in DOMAIN list : list[l].is_completed} = completed \cap visible_lessons
            BY <2>0
        <3>. QED
            BY <3>1 DEF completed_count
    <2>7. is_finished <=> total > 0 /\ next_lesson = None
        BY <2>0, <2>1 DEF is_finished, Remaining
    <2>8. remaining > 0 => resume_lesson \in visible_lessons \ completed
        <3> SUFFICES ASSUME remaining > 0 PROVE resume_lesson \in visible_lessons \ completed
            OBVIOUS
        <3>1. visible_lessons \ completed # {}
            BY <2>0, FS_EmptySet DEF Remaining
        <3>. QED
            BY <2>0, <3>1 DEF Remaining
    <2>9. learner_stats.finished_courses = (IF my_courses_view.finished THEN 1 ELSE 0)
        BY DEF learner_stats, my_courses_view
    <2>10. IsListed => my_courses_view.in_progress \/ dashboard_view.current_progress = 100
        <3>1. is_finished => percent(completed_count, total) = 100
            BY <2>1, FullPercent DEF is_finished
        <3>. QED
            BY <3>1 DEF my_courses_view, dashboard_view
    <2>11. learner_stats.completed_lessons >= completed_count
        <3>1. completed \cap visible_lessons \in SUBSET completed
            OBVIOUS
        <3>2. Cardinality(completed \cap visible_lessons) <= Cardinality(completed)
              /\ Cardinality(completed) \in Nat
            BY <2>0, <3>1, ViewedAreFinite, FS_Subset, FS_CardinalityType
        <3>. QED
            BY <2>1, <3>2 DEF learner_stats, completed_count
    <2> HIDE DEF list
    <2>. QED
        BY <2>1, <2>2, <2>3, <2>4, <2>5, <2>6, <2>7, <2>8, <2>9, <2>10, <2>11 DEF ProgressAddsUp, list
<1>. QED
    BY <1>1, TypesAreKept, PTL

(* Whatever the tree of two levels, the courses in it, the pages of the    *)
(* instructors and the ticks of the administrator: a published course is   *)
(* on the page of an active main category unless its branch is switched    *)
(* off, and every number on a card or in the filter bar is that of the     *)
(* page behind it.                                                         *)
THEOREM CoursesAreOffered == Spec => []EveryCourseIsOffered
<1>0. \A k \in Category :
          course_list(k, "any") = {c \in published : k \in {CategoryOf[c], ParentOf[CategoryOf[c]]}}
    BY NoneIsNoCategory DEF course_list, filter_courses, InCategory, published
<1>1. EveryCourseIsOffered
    <2> DEFINE page == [k \in Category |-> course_list(k, "any")]
               num == [k \in Category |-> num_courses(k)]
               offered == UNION {page[k] : k \in categories}
               whole == {k \in categories : \A j \in Category : ParentOf[j] = k => active[j]}
    <2>1. /\ IsFiniteSet(published)
          /\ \A c \in published : CategoryOf[c] \in Category
        BY TablesAreFinite, CategoriesOfCourses, FS_Subset DEF published
    <2>2. ASSUME NEW c \in published \ offered
          PROVE  \E k \in {CategoryOf[c], ParentOf[CategoryOf[c]]} \ {None} : ~active[k]
        <3> DEFINE k == CategoryOf[c]
        <3>1. k \in Category /\ k # None
            BY <2>1, NoneIsNoCategory
        <3>2. \A j \in categories : c \notin page[j]
            BY <2>2
        <3>3. CASE ParentOf[k] = None
            <4>1. c \in course_list(k, "any")
                BY <1>0, <3>1
            <4>2. k \notin categories
                BY <3>1, <3>2, <4>1 DEF categories
            <4>3. ~active[k]
                BY <3>1, <3>3, <4>2 DEF categories
            <4>. QED
                BY <3>1, <4>3
        <3>4. CASE ParentOf[k] # None
            <4> DEFINE p == ParentOf[k]
            <4>1. p \in Category /\ ParentOf[p] = None
                BY <3>1, <3>4, TreeHasTwoLevels
            <4>2. c \in course_list(p, "any")
                BY <1>0, <4>1
            <4>3. p \notin categories
                BY <3>2, <4>1, <4>2 DEF categories
            <4>4. ~active[p]
                BY <4>1, <4>3 DEF categories
            <4>. QED
                BY <3>4, <4>4
        <3>. QED
            BY <3>3, <3>4
    <2>3. ASSUME NEW k \in whole
          PROVE  Cardinality(page[k]) = num[k] + MapThenSumSet(LAMBDA j : num[j], Subcategories(k))
        <3> DEFINE below == Subcategories(k)
                   A == {c \in published : CategoryOf[c] = k}
                   B == {c \in published : CategoryOf[c] \in below}
        <3>1. k \in Category /\ active[k] /\ ParentOf[k] = None
            BY DEF categories
        <3>2. below = {j \in Category : ParentOf[j] = k}
            BY <3>1 DEF Subcategories
        <3>3. page[k] = A \cup B
            BY <1>0, <2>1, <3>1, <3>2
        <3>4. A \cap B = {}
            BY <3>1, <3>2, NoneIsNoCategory
        <3>5. IsFiniteSet(A) /\ IsFiniteSet(B) /\ IsFiniteSet(below)
            BY <2>1, <3>2, TablesAreFinite, FS_Subset
        <3>6. num[k] = Cardinality(A)
            BY <3>1 DEF num_courses
        <3>7. Counts(num, published, CategoryOf, below)
            BY <3>2 DEF Counts, Members, num_courses
        <3> HIDE DEF num, page
        <3>8. SumOf(num, below) = Cardinality(B)
            BY <2>1, <3>5, <3>7, CountByGroups
        <3> HIDE DEF A, B, below
        <3>9. Cardinality(A \cup B) = Cardinality(A) + Cardinality(B)
            <4>1. /\ Cardinality(A \cup B) = Cardinality(A) + Cardinality(B) - Cardinality(A \cap B)
                  /\ Cardinality(A) \in Nat /\ Cardinality(B) \in Nat
                BY <3>5, FS_Union, FS_CardinalityType
            <4>2. Cardinality(A \cap B) = 0
                BY <3>4, FS_EmptySet
            <4>. QED
                BY <4>1, <4>2
        <3>. QED
            BY <3>3, <3>6, <3>8, <3>9 DEF SumOf, below
    <2>4. ASSUME NEW k \in home_categories
          PROVE  num[k] <= Cardinality(page[k])
        <3>1. k \in Category
            BY DEF home_categories, FirstOf
        <3>2. {c \in published : CategoryOf[c] = k} \in SUBSET course_list(k, "any")
            BY <1>0, <3>1
        <3>3. IsFiniteSet(course_list(k, "any"))
            BY <1>0, <2>1, <3>1, FS_Subset
        <3>4. num_courses(k) <= Cardinality(course_list(k, "any"))
            BY <3>2, <3>3, FS_Subset DEF num_courses
        <3>. QED
            BY <3>1, <3>4
    <2>5. ASSUME NEW i \in home_instructors \cup about
          PROVE  num_courses_of(i) = Cardinality(instructor_detail(i))
        <3>1. active[i]
            BY DEF home_instructors, about, FirstOf, instructor_list
        <3>. QED
            BY <3>1 DEF num_courses_of, instructor_detail
    <2> HIDE DEF page, num, offered, whole
    <2>. QED
        BY <2>2, <2>3, <2>4, <2>5 DEF EveryCourseIsOffered, page, num, offered, whole
<1>. QED
    BY <1>1, PTL
=============================================================================
