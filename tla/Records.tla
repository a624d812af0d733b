------------------------------ MODULE Records -------------------------------
(***************************************************************************)
(* Which rows of the database can be deleted, and by whom: the foreign     *)
(* keys of the models, the groups of setup_groups, the hooks of the admin  *)
(* and seed_demo --reset.  Django gathers what a deletion takes along,     *)
(* asks for the permission to delete each of it, and refuses the deletion  *)
(* if a protected key stands in the way.                                   *)
(***************************************************************************)
EXTENDS Naturals, Sequences, FiniteSets

CONSTANTS
    Row,        \* the rows of a full database
    ClassOf,    \* ClassOf[r]: the model of row r
    RefersTo    \* RefersTo[r][key]: the row in that foreign key of row r

(* The foreign keys of the models and what becomes of a row when the row   *)
(* they refer to is deleted.                                               *)
OrderKeys == [user |-> "PROTECT", coupon |-> "SET_NULL"]
ItemsGoWithCourse == [order |-> "CASCADE", course |-> "CASCADE"]        \* faulty
OrderItemKeys == [order |-> "CASCADE", course |-> "PROTECT"]
PaymentKeys == [order |-> "PROTECT"]
CategoryKeys == [parent |-> "CASCADE"]
CourseKeys == [category |-> "PROTECT", instructor |-> "SET_NULL"]
SectionKeys == [course |-> "CASCADE"]
LessonKeys == [section |-> "CASCADE"]
AttachmentKeys == [lesson |-> "CASCADE"]
ProgressKeys == [user |-> "CASCADE", lesson |-> "CASCADE"]
EnrollmentKeys == [user |-> "CASCADE", course |-> "CASCADE", order |-> "SET_NULL"]
InstructorKeys == [user |-> "CASCADE"]
IdentityKeys == [user |-> "CASCADE"]

keys ==
    [Order |-> OrderKeys, OrderItem |-> OrderItemKeys, Payment |-> PaymentKeys,
     CourseCategory |-> CategoryKeys, Course |-> CourseKeys, Section |-> SectionKeys,
     Lesson |-> LessonKeys, LessonAttachment |-> AttachmentKeys,
     LessonProgress |-> ProgressKeys, Enrollment |-> EnrollmentKeys,
     InstructorProfile |-> InstructorKeys, IdentityVerification |-> IdentityKeys,
     User |-> <<>>, Coupon |-> <<>>]

(* The model that a key refers to, and the keys that may be NULL.          *)
TargetOf ==
    [user |-> "User", coupon |-> "Coupon", order |-> "Order", course |-> "Course",
     parent |-> "CourseCategory", category |-> "CourseCategory",
     instructor |-> "InstructorProfile", section |-> "Section", lesson |-> "Lesson"]

MayBeNull(class, key) ==
    \/ keys[class][key] = "SET_NULL"
    \/ <<class, key>> \in {<<"CourseCategory", "parent">>, <<"InstructorProfile", "user">>,
                           <<"IdentityVerification", "user">>}

ASSUME RowsAreFinite == IsFiniteSet(Row)

(* A key that is NULL is not in the domain of RefersTo[r].                 *)
ASSUME RowsReferToRows ==
    /\ ClassOf \in [Row -> DOMAIN keys]
    /\ \A r \in Row :
          /\ DOMAIN RefersTo[r] \subseteq DOMAIN keys[ClassOf[r]]
          /\ \A key \in DOMAIN keys[ClassOf[r]] :
                IF key \in DOMAIN RefersTo[r]
                THEN RefersTo[r][key] \in Row /\ ClassOf[RefersTo[r][key]] = TargetOf[key]
                ELSE MayBeNull(ClassOf[r], key)

(* Pairs of a row and the one it refers to by a key of that kind.          *)
Links(kind) ==
    UNION {{<<r, RefersTo[r][key]>> :
               key \in {k \in DOMAIN RefersTo[r] : keys[ClassOf[r]][k] = kind}} : r \in Row}

Cascading == Links("CASCADE")
Protecting == Links("PROTECT")

(* A database in which no key leads nowhere; the keys that become NULL are *)
(* NULL if their row is not there.                                         *)
Databases ==
    {db \in SUBSET Row : \A link \in Cascading \cup Protecting : link[1] \in db => link[2] \in db}

(* Row q is deleted with row r if cascading keys lead from q to r: a row of *)
(* a database has all its keys lead to there.                              *)
GoesWith ==
    LET along[n \in 0..Cardinality(Row)] ==
            IF n = 0 THEN {<<r, r>> : r \in Row}
            ELSE LET shorter == along[n - 1] IN
                 shorter \cup UNION {{<<link[1], r>> : r \in {r \in Row : <<link[2], r>> \in shorter}} :
                                        link \in Cascading}
    IN along[Cardinality(Row)]

Collected(db, rows) == {q \in db : \E r \in rows : <<q, r>> \in GoesWith}

IsProtected(db, rows) ==
    \E r \in Collected(db, rows), q \in db : <<q, r>> \in Protecting

-----------------------------------------------------------------------------
(* The groups' permissions to delete: the models they have in full.        *)
GROUP_PERMISSIONS ==
    [manager |-> [full |-> {"Course", "CourseCategory", "InstructorProfile"},
                  edit |-> {"User"}],
     teacher |-> [full |-> {}, edit |-> {"Course"}],
     content_manager |-> [full |-> {}, edit |-> {"Course", "CourseCategory"}],
     support |-> [full |-> {}, edit |-> {}],
     finance |-> [full |-> {}, edit |-> {}]]

ActionsOf ==
    [full |-> {"add", "view", "change", "delete"}, edit |-> {"add", "view", "change"}]

(* Whoever is in several groups has the permissions of all.                *)
HasPermission(groups, action, class) ==
    \E g \in groups, level \in DOMAIN ActionsOf :
        class \in GROUP_PERMISSIONS[g][level] /\ action \in ActionsOf[level]

Superuser == [is_superuser |-> TRUE, groups |-> {}]
MemberOfAll == [is_superuser |-> FALSE, groups |-> DOMAIN GROUP_PERMISSIONS]

IsRegistered(class) == class \notin {"OrderItem", "LessonAttachment"}

(* A payment is deleted by nobody.                                         *)
has_delete_permission(staff, class) ==
    /\ class # "Payment"
    /\ staff.is_superuser \/ HasPermission(staff.groups, "delete", class)

(* Rows that have no page of their own in the admin need no permission to  *)
(* be deleted along.                                                       *)
CanDelete(staff, db, r) ==
    /\ IsRegistered(ClassOf[r])
    /\ \A q \in Collected(db, {r}) :
          IsRegistered(ClassOf[q]) => has_delete_permission(staff, ClassOf[q])
    /\ ~IsProtected(db, {r})

-----------------------------------------------------------------------------
(* seed_demo --reset deletes all rows of these models, one after the       *)
(* other, and stops with an error at a model of which a row is protected.  *)
CoursesFirst ==             \* faulty: a course that was sold stands in the way
    <<"Course", "Order", "Coupon", "CourseCategory", "InstructorProfile">>
ResetModels == <<"Order", "Coupon", "Course", "CourseCategory", "InstructorProfile">>

ModelsOf(list) == {list[n] : n \in DOMAIN list}

(* The database after the first n models, and whether the command goes on. *)
reset(db) ==
    LET after[n \in 0..Len(ResetModels)] ==
            IF n = 0 THEN [db |-> db, failed |-> FALSE]
            ELSE LET before == after[n - 1]
                     rows == {r \in before.db : ClassOf[r] = ResetModels[n]}
                 IN
                 IF before.failed \/ IsProtected(before.db, rows)
                 THEN [before EXCEPT !.failed = TRUE]
                 ELSE [before EXCEPT !.db = @ \ Collected(@, rows)]
    IN after[Len(ResetModels)]

-----------------------------------------------------------------------------
(* What deletions are to keep.                                             *)

(* What a payment was for: its order with the customer and the items, and  *)
(* the courses and their categories.                                       *)
Trail(db, payment) ==
    LET paid == RefersTo[payment].order
        items == {r \in db : ClassOf[r] = "OrderItem" /\ RefersTo[r].order = paid}
        courses == {RefersTo[r].course : r \in items}
    IN
    {payment, paid, RefersTo[paid].user} \cup items \cup courses
        \cup {RefersTo[c].category : c \in courses}

LearnersRecords == {"Enrollment", "LessonProgress", "IdentityVerification"}

(* Whoever deletes whatever row of it: nothing goes that belongs to a      *)
(* payment, and by a member of groups, even of all of them, nothing that   *)
(* records what a learner has or has done.                                 *)
DeletionsKeepRecords(db) ==
    \A r \in db :
        /\ CanDelete(Superuser, db, r) =>
              \A p \in db : ClassOf[p] = "Payment" => Trail(db, p) \cap Collected(db, {r}) = {}
        /\ CanDelete(MemberOfAll, db, r) =>
              \A q \in Collected(db, {r}) : ClassOf[q] \notin LearnersRecords

(* The reset deletes all it is to delete or nothing.                       *)
ResetsAllOrNothing(db) ==
    LET result == reset(db) IN
    \/ result.failed /\ result.db = db
    \/ ~result.failed /\ \A r \in result.db : ClassOf[r] \notin ModelsOf(ResetModels)
=============================================================================
