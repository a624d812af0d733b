SPECIFICATION Spec
CONSTANTS
    s1 = s1
    s2 = s2
    None = None
    safety = safety
    fire = fire
    teacher = teacher
    assistant = assistant
    ThisCourse = "c1"
    OtherRows <- MCOtherRows
    Category = {safety, fire}
    ParentOf <- MCParentOf
    CategoryOf <- MCCategoryOf
    Instructor = {teacher, assistant}
    InstructorOf <- MCInstructorOf
    Featured = {"c1", "c2"}
    CalendarCount = 1
    ShownAtHome <- MCShownAtHome
    PlaceOf <- MCPlaceOf
    CategoryCount = 1
    InstructorCount = 1
    AboutCount = 2
    Day = 2
    SoonDays = 1
    CourseVersions <- MCCourseVersions
    MaxTime = 3
    MaxGrants = 2
    MaxCorrections = 1
    MaxEdits = 1
    Lesson = {1, 2}
    SectionOf <- MCSectionOf
    Samples = {2}
    Orders = {1, 2}
    AdminStatuses = {"REFUNDED"}
    FirstYears <- MCFirstYears
    Row <- MCRow
    ClassOf <- MCClassOf
    RefersTo <- MCRefersTo
INVARIANTS
    TypeOK
    ListedIsOpen
    WayIn
    ProgressAddsUp
    ReportAgrees
    FullMeansFinished
    CalendarIsOpen
    WithdrawnIsNowhere
    EveryCourseIsOffered
    RecordsAreKept
    ResetIsAllOrNothing
    DatesFollow
PROPERTIES
    DaysAreKept
    CompletingLeadsOn
    AccessIsGiven
\* The clock stops and the edits are used up.
CHECK_DEADLOCK FALSE
