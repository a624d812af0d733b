----------------------------- MODULE Catalogue -----------------------------
(***************************************************************************)
(* The pages that offer courses (src/apps/courses/views.py and the home    *)
(* page): every one makes a query of its own.  The course under study      *)
(* stands among others that do not change, in a tree of categories and on  *)
(* the pages of instructors, which the administrator switches on and off.  *)
(***************************************************************************)
EXTENDS Enrollment

CONSTANTS
    ThisCourse,     \* the course whose row changes
    OtherRows,      \* OtherRows[c]: the row of any other course c
    Category,
    ParentOf,       \* ParentOf[k]: the category above k, or None
    CategoryOf,     \* CategoryOf[c]: the category of course c
    Instructor,
    InstructorOf,   \* InstructorOf[c]: the instructor of course c
    Featured,       \* the courses marked for the home page
    CalendarCount,  \* homepage_calendar_count of the site's settings
    ShownAtHome,    \* the categories and instructors marked for the home page
    PlaceOf,        \* PlaceOf[k]: the place of a category or an instructor in the lists
    CategoryCount,  \* homepage_category_count
    InstructorCount,    \* the instructors the home page has room for
    AboutCount          \* and the about page

VARIABLE active     \* active[k]: the category or the instructor is_active

CourseIds == {ThisCourse} \cup DOMAIN OtherRows

ASSUME OtherRowsAreRows == \A c \in DOMAIN OtherRows : OtherRows[c] \in CourseRows
ASSUME CategoriesOfCourses == CategoryOf \in [CourseIds -> Category]
ASSUME InstructorsOfCourses == InstructorOf \in [CourseIds -> Instructor]

ASSUME TablesAreFinite == IsFiniteSet(Category) /\ IsFiniteSet(CourseIds)
ASSUME NoneIsNoCategory == None \notin Category

(* Nothing in the code forbids a deeper tree; its queries look one level   *)
(* down.                                                                   *)
ASSUME TreeHasTwoLevels ==
    /\ ParentOf \in [Category -> Category \cup {None}]
    /\ \A k \in Category : ParentOf[k] # None => ParentOf[ParentOf[k]] = None

ASSUME PlacesAreDistinct ==
    \A S \in {Category, Instructor} : \A j, k \in S :
        PlaceOf[j] \in Nat /\ (PlaceOf[j] = PlaceOf[k] => j = k)

CatalogueTypeOK == active \in [Category \cup Instructor -> BOOLEAN]

CatalogueInit == active = [k \in Category \cup Instructor |-> TRUE]

-----------------------------------------------------------------------------
shelf(c) == IF c = ThisCourse THEN course ELSE OtherRows[c]

published == {c \in CourseIds : shelf(c).is_published}

upcoming == {c \in published : is_upcoming(shelf(c), now)}

InCategoryItself(k) == {c \in CourseIds : CategoryOf[c] = k}    \* faulty

(* A category's page shows the courses of its subcategories too, the       *)
(* inactive ones included.                                                 *)
InCategory(k) == {c \in CourseIds : k \in {CategoryOf[c], ParentOf[CategoryOf[c]]}}

(* The filters of the address: price goes by the price before a discount.  *)
(* Type, level and words narrow a list the same way.                       *)
filter_courses(S, category, price) ==
    {c \in IF category = None THEN S ELSE S \cap InCategory(category) :
        /\ price = "free" => shelf(c).price = 0
        /\ price = "paid" => shelf(c).price > 0}

(* The pages of one list together: everything that passes the filters.     *)
course_list(category, price) == filter_courses(published, category, price)

training_calendar(category, price) == filter_courses(upcoming, category, price)

(* Without words the page of the search is empty.                          *)
search(words, category, price) ==
    IF words THEN filter_courses(published, category, price) ELSE {}

featured_courses == {c \in published : c \in Featured}

num_courses(k) == Cardinality({c \in published : CategoryOf[c] = k})

(* The categories the list's filter bar offers, and the subcategories that *)
(* the page of an active category offers besides.                          *)
categories == {k \in Category : active[k] /\ ParentOf[k] = None}

Subcategories(k) ==
    IF active[k] THEN {j \in Category : active[j] /\ ParentOf[j] = k} ELSE {}

(* The home page begins the calendar.                                      *)
calendar_courses ==
    {c \in upcoming :
        Cardinality({d \in upcoming : shelf(d).start_date < shelf(c).start_date})
            < CalendarCount}

FirstOf(S, count) ==
    {k \in S : Cardinality({j \in S : PlaceOf[j] < PlaceOf[k]}) < count}

(* Cards of categories on the home page, of whatever level.                *)
home_categories ==
    FirstOf({k \in Category : active[k] /\ k \in ShownAtHome}, CategoryCount)

(* The page of a published course shows others of its category.            *)
RelatedOfAnyStatus(c) ==        \* faulty: withdrawn courses too
    {d \in CourseIds \ {c} : CategoryOf[d] = CategoryOf[c]}
related_courses(c) == {d \in published \ {c} : CategoryOf[d] = CategoryOf[c]}

(* What the page of a course tells search engines of the offer.            *)
course_jsonld(c) ==
    [price |-> final_price(shelf(c)),
     availability |-> IF registration_open(shelf(c), now) THEN "InStock" ELSE "SoldOut",
     category |-> IF is_free(shelf(c)) THEN "free" ELSE "paid"]

(* Only an active instructor has a page.                                   *)
instructor_detail(i) ==
    IF active[i] THEN {c \in published : InstructorOf[c] = i} ELSE {}

instructor_list == {i \in Instructor : active[i]}

home_instructors == FirstOf({i \in instructor_list : i \in ShownAtHome}, InstructorCount)

(* The about page has room for a few of them all.                          *)
about == FirstOf(instructor_list, AboutCount)

num_courses_of(i) == Cardinality({c \in published : InstructorOf[c] = i})

-----------------------------------------------------------------------------
(* The tick in the lists of the admin.                                     *)
EditCatalogue ==
    /\ Edited
    /\ \E k \in DOMAIN active : active' = [active EXCEPT ![k] = ~@]
    /\ UNCHANGED <<now, course, vip, enrollment, grants, corrections>>
=============================================================================
