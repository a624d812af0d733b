# Verification of the HSE academy

The repository is a Django monolith that sells courses: a catalogue, accounts with one-time
codes, a cart with coupons, orders and payments through a gateway, enrolments, and lessons with
progress. It runs as several worker processes over one PostgreSQL database (SQLite in
development), without `ATOMIC_REQUESTS`: a request is a sequence of separate database steps unless
the code opens a transaction. This directory holds TLA+ modules translated from the Python code,
the TLC configurations that check small instances, and theorems checked by TLAPS.

## Inventory

| Component | State it keeps | Operations | Interacts with | Hard behaviour |
|---|---|---|---|---|
| Purchase: `orders/services/*`, `orders/views*.py`, `orders/models.py`, `orders/admin.py` | `Order`, `OrderItem`, `Payment`, `Coupon.used_count` | checkout, cancel, start a payment, gateway page, callback, settle, admin status edit | gateway (external), enrolment, coupon | overlapping requests on rows loaded earlier, crashes between two saves, late and repeated callbacks |
| Enrolment: `courses/enrollment.py`, `Enrollment`, its admin and command | one row per user and course: status, `starts_at`, `expires_at`; VIP fields of the user | enroll (grant or renew), suspend, activate, edit by hand, report | purchase, free enrolment, access | renewal against expiry, boundary times, unique constraint under concurrency |
| Cart: `orders/cart.py` | course ids and a coupon code in the session | add, remove, clear, apply and remove a coupon | checkout | the database changes under a cart |
| Lesson access and progress: `courses/access.py`, `courses/progress.py`, lesson views | `LessonProgress` | view, complete, save the position, statistics | enrolment, VIP, catalogue | lessons hidden and published later, rounding, lists that use queries of their own |
| Catalogue: `courses/views.py`, `core/views.py`, `courses/models.py`, `courses/admin.py` | `Course`, `Section`, `Lesson`, `CourseCategory`, `InstructorProfile` | queries of the pages, edits in the admin | cart, enrolment, lessons | the same question asked by different queries |
| One-time codes: `accounts/services/otp.py`, `OtpCode` | one row per code: attempts, used, expiry | send, verify | SMS (external), the flows | two sends, two guesses, a failed SMS |
| Flows: `accounts/views.py`, `accounts/forms.py`, `accounts/services/identity.py` | flow keys in the session, `User`, `IdentityVerification` | the steps of registration, password reset and verification, login, logout, change of the password | codes, identity provider (external), throttle | steps skipped or repeated, overlapping sessions, two saves for one account |
| Login throttle: `accounts/throttling.py` | a counter per number and address in the cache | fail, clear, locked? | login | read and written back without a lock, expiry |
| Deletion of records: `on_delete` of the models, `setup_groups`, admin hooks, `seed_demo --reset` | all rows | delete in the admin, reset | everything | what a cascade takes along, a reset without a transaction |
| Contact page: `core/views.py`, `core/forms.py` | `ContactMessage` | send, reload, mark as read | login | a browser that repeats a request |
| Algorithms: `core/jalali.py`, `accounts/validators.py`, `accounts/forms.py`, prices | none | conversions and checksums | all | boundaries |
| Site settings, sliders, other pages, demo data | rows edited in the admin | single-row edits | parameters of the others | none of its own |

What makes each component correct:

* **Purchase** - a course opens only when its money is there; an order is sold exactly once
  (grants and coupon use together); a paid order stays paid; a coupon is used as often as its
  settings allow; confirmed money ends in a paid order.
* **Enrolment** - what was bought is had: a renewal adds the whole duration to what is left; a
  suspended or ended access opens nothing; what a page, a lock and a report say agree.
* **Lessons** - 100 percent means finished; total, completed, next lesson and dashboard agree;
  what a page lists can be opened.
* **Catalogue** - a withdrawn course is nowhere, a published one is found, what is listed as open
  can be signed up for.
* **Codes** - a code works once, before its end, within its attempts; a new one takes the place
  of the old; cooldown and hourly limit hold.
* **Flows** - accounts and sessions stay with those who read the number's messages; passwords are
  set on fresh proof; an identity is a matched one and belongs to one account.
* **Throttle** - the number of guesses before the lock is bounded.
* **Records** - what a payment was for is never deleted, what a learner has done only by a superuser.

## Modules

| Module | Models |
|---|---|
| `Sales` | abstract: a backed order is sold exactly once, in one step |
| `Purchase` | orders, payments, coupons and grants, with the overlapping requests that change them |
| `PurchaseProofs`, `SalesProofs` | theorems about `Purchase`: with overlapping requests, and without |
| `CodeService` | abstract: codes that replace each other and are spent once |
| `Otp` | sending and verifying codes with time, overlapping requests and a failing SMS |
| `OtpProofs` | theorems about `Otp` |
| `AccessDays` | abstract: the time a learner has left in a course |
| `Courses` | price, publication and registration of a course row |
| `Enrollment` (extends `Courses`) | one learner's enrolment over time, VIP, the report, the admin |
| `Lessons` (extends `Enrollment`) | the access rule, the lists of lessons, progress and statistics |
| `Catalogue` (extends `Enrollment`) | the pages that offer courses, each by its query |
| `Jalali` | the Persian date of a Gregorian one |
| `Records` | foreign keys, permissions and what a deletion takes along |
| `Academy` (extends the six above) | cart, orders, enrolment, lessons and catalogue together |
| `AcademyProofs` | theorems about `Academy`: enrolment, lessons and catalogue |
| `RecordsProofs`, `CalendarProofs` (extend `AcademyProofs`) | theorems about deletions, and about Persian dates |
| `Throttle` | the counter of failed logins |
| `Forms` | what the forms make of what is typed, and the checks of numbers and codes |
| `Accounts` (extends `Throttle`, `Forms`) | the flows, login and the admin's edits of accounts |
| `Website` (extends `Accounts`) | the contact page beside them |
| `FormsProofs` | a theorem about `Forms` |
| `AccountsProofs` (extends `FormsProofs`) | theorems about `Website`, so about `Accounts`, `Throttle` and the contact page |
| `MCPurchase`, `MCOtp`, `MCAcademy`, `MCAccounts` | the instances TLC checks |

The detailed modules implement the abstract ones: `Purchase` implements `Sales` (`SoldOnce`), `Otp`
implements `CodeService` (`ServesCodes`), `Academy` implements `AccessDays` (`DaysAreKept`), each by
a refinement mapping. `Accounts` treats codes as `CodeService` does, and `Academy` takes a payment as
one step, as `Sales` does: what happens inside is the subject of `Otp` and `Purchase`.

No module declares a RECURSIVE operator, since each is one that theorems are about; recursion is
written with recursive functions (`GoesWith` and `reset` in `Records`, `DaysLater` in `Academy`).

## Purchase

The state and where it lives:

| Variable | Code |
|---|---|
| `order[o]` | the `Order` row with its items: buyer, courses, coupon, total and status. Prices are frozen when the order is created. |
| `payment[p]` | the `Payment` row: order, amount, status; `authority` is whether the gateway has given it one, `decision` is the `mock_decision` the gateway page stored |
| `used_count[k]` | `Coupon.used_count` |
| `granted[u][c]` | how often `enroll()` ran for the user and the course; 0 means no `Enrollment` row |
| `expired` | payments older than `PAYMENT_EXPIRY_MINUTES` |
| `captured` | payments whose success `gateway.verify` has reported, the money as the server knows it |
| `request[w]` | what worker `w` holds between two steps: where it is, and the order status and gateway decision **as it loaded them** |
| `crashes` | workers killed so far |

A step of the model is what the code makes atomic: one `save()`, one query, or one transaction.

| Request | Steps |
|---|---|
| `checkout_view` | `Checkout` (checks and `create_order`); for a total of zero the same worker goes on to `Begin`, `Commit` or `Rollback` |
| `order_cancel` | `CancelLoad`, `CancelSave` |
| `payment_start`, `start_payment` | `PaymentStart` (row created), `GatewayAccepts` or `GatewayRejects` |
| `mock_gateway` | `Decide` |
| `payment_callback`, `verify_payment` | `CallbackLoad`, then one of `FailPayment` (and `FailOrder` when the held order is pending), `OrderAlreadyPaid`, `GatewayConfirms`; after the last one `Begin`, `Commit` or `Rollback` |
| `OrderAdmin` form | `AdminEdit` |
| time, a killed worker | `Expire`, `Crash` |

Abstractions, and why they lose nothing the properties need:

* A coupon that is inactive or out of its dates makes `check_coupon` fail, and checkout goes on
  without a coupon: that is `Checkout` with `k = None`. Capacity, per-user limit, minimum amount,
  courses and discount are in the model.
* The checks of `checkout_view` and the order it creates are one step, and so are the checks of
  `start_payment` and the row it creates. Nobody can name the new row before the request returns.
  What an overlapping request could change between check and creation (another order becoming
  paid) could as well happen right after the creation.
* A callback for a payment that is not pending changes nothing and is no step.
* `Begin` .. `Commit` is the `transaction.atomic()` block under PostgreSQL's READ COMMITTED: it
  waits for another transaction that wrote the same order or coupon (`RowsFree`), it sees
  committed rows, and its insert violates the unique constraint on user and course when another
  transaction inserted the row first (`Rollback`, which leaves the payment pending). A deadlock
  the database resolves by aborting a transaction has the effect of `Crash`.
* `AmountDiffers` is in the model and never true: amounts are frozen. TLC shows it by never
  failing a payment at that point.
* The gateway is the mock one. The ZarinPal adapter raises `NotImplementedError`; its refusal to
  start a payment is `GatewayRejects`. Gateways are external.
* `Enroll` counts. The dates of the row belong to `Enrollment`.
* The cart before the checkout is in `Academy`, deletions are in `Records`. Edits of a coupon between
  two requests are not modelled. `Payment.CANCELED` is never written by the code.

### What the runs show

| Run | Instance | Shows | States |
|---|---|---|---|
| `serial_purchase` | 1 worker, 1 user, 2 courses, 1 coupon that makes a course free, 2 orders, 2 payments, 1 crash | requests that do not overlap implement `Sales` (`SoldOnce`); `PaidIsFinal`, `UsesAreExact`, `SuccessIsPaid`; confirmed money, or a free order, ends in a paid order unless a worker was killed (`BackedIsPaid`, under `FairSpec`) | 1.7 M |
| `concurrent_purchase` | 2 workers, 1 course, an administrator who refunds | `GrantsAreBacked`, `PaidIsDelivered`, `UsesAreCounted`, `TypeOK` whatever the interleaving | 4.2 M |
| `second_payment_succeeds` | 1 worker | finding: two payments of one order both succeed | - |
| `coupon_over_capacity` | 1 worker, a single-use coupon | finding: it is used twice | - |
| `two_callbacks` | 2 workers | finding: two callbacks of one payment settle the order twice | - |

Bounds: two orders and two payments are what the interesting cases need (a retried payment, two
payments of one order, two orders with one coupon or one course); two workers are what a race
needs; a crash leaves nothing behind that a second crash would make different, apart from a
second order in the same state. Every bound is a constant: `Orders`, `Payments`, `Workers`,
`MaxCrashes`. The runs set `CHECK_DEADLOCK FALSE` because the keys are used up in the end and
then nothing more may happen; the requests in progress are covered by `BackedIsPaid`.

Fairness (`FairSpec`): a worker that has a request takes its next step. The code has no wait of
its own, and a worker waits for a transaction that is itself in progress. Nothing is assumed of
customers, of the gateway, of the administrator or of time, and no lost request is retried.

Where the properties stop: `PaidIsFinal`, `UsesAreExact`, `SuccessIsPaid` and `SoldOnce` hold one
request at a time. With overlapping requests `order_cancel` can overwrite a paid order and two
callbacks can settle one twice; what holds even then is what `concurrent_purchase` checks.
`BackedIsPaid` excuses runs with a crash: nothing in the code looks for a payment the gateway
confirmed to a worker that was killed, or for a free order left pending.

### Findings in the purchase

1. `verify_payment` marks a second payment of a paid order as a success without asking the
   gateway; the model's documentation says only one payment of an order succeeds.
2. `verify_payment` decides on rows it loaded without a lock: overlapping callbacks of one
   payment both settle it, which the comment at the check rules out.
3. A coupon's capacity is checked at checkout and used at payment, so pending orders exceed it.

### What is proved about the purchase

`PurchaseProofs` proves, for any sets of users, courses, coupons, workers and payments, any
finite set of orders, any prices and coupon settings, and any number of crashes:

* `TypeCorrect`: `Spec => []TypeOK`.
* `GrantsBacked`: `Spec => []GrantsAreBacked`.
* `PaidDelivered` and `UsesCounted`: `Spec => []PaidIsDelivered` and `Spec => []UsesAreCounted`,
  if `"PAID"` is not among the statuses an administrator sets by hand (a status edit neither
  enrols nor counts).

The inductive invariant is `IInv`. `GrantsAreBacked` is not inductive alone: `Commit` opens the
courses of the order the worker holds, so the invariant must say that a worker between `settle`
and `commit` holds an order that is backed (`SettlersAreBacked`), and that what workers hold
exists and belongs together (`RowsExist`: a verified payment is one of the order the worker
holds). `OrdersKept` and `PaymentsKept` carry a fact about a row over a step: no step changes what
an order is for or what a payment belongs to. There is one lemma per action, and `WorkerStep`
and `OutsideStep` reduce each to the rows and the worker it touches. For the last two theorems
`FewerPaid` shows that no action but `Commit` makes an order paid, and `CommitPays` that it
delivers and counts what it makes paid.

The assumptions are those of the module: `None` is no key, text or row, keys are numbers, the
set of orders is finite, prices and coupon settings have their types, an administrator chooses
statuses of the list. TLC evaluates them in every run.

`SalesProofs` proves what holds as long as requests do not overlap and nobody edits a status by
hand (`OneWorker` and `AdminStatuses = {}`, the situation of `serial_purchase`; both are needed, as
the findings and `concurrent_purchase` show), for the same arbitrary constants and any crashes:

* `UsesExact`, `SuccessPaid`: `Spec => []UsesAreExact` and `Spec => []SuccessIsPaid`.
* `PaidStaysPaid`: `Spec => PaidIsFinal`.
* `SalesAreImplemented`: `Spec => SoldOnce`, the refinement of `Sales`.

The invariant is `SerialInv`: `IInv`, and that what a worker has loaded is still so (`Loaded`): the
status it holds is that of the row, and the order it cancels, fails or settles is not paid. With
more workers exactly this fails. Every step keeps a promise (`PromiseKept`): the invariant, a step
or stutter of `Sales`, and no paid order less. Most steps are `Quiet`: no order is placed, paid
or confirmed, so only `Loaded` has to be looked at. Left are `Checkout` (placing), `Decide` and
the gateway's answer (backing), and `Commit`, whose grants and coupon use must be those of the one
order it sells.

Left to TLC: `BackedIsPaid`, because liveness under fairness is out of the prover's reach.

## One-time codes

`send_otp` and `verify_otp` open no transaction and lock no row. `Otp` models them query by query
for one mobile number and one purpose: every query filters by both and the hash includes both, so
two numbers, or two purposes of one number, share nothing.

| Variable | Code |
|---|---|
| `codes[i]` | the `OtpCode` rows by age: `created_at`, `attempts`, and whether `used_at` is set |
| `request[w]` | the step of worker `w`, the row it works on, the `attempts` **it loaded**, and whether the user typed that row's code |
| `now` | `timezone.now()`, in ticks; a second has `Second` ticks |
| `tries[i]`, `accepted[i]`, `failed` | what happened: comparisons with code `i`, times it was accepted, the codes whose SMS failed |
| `crashes` | workers killed so far |

| Function | Steps |
|---|---|
| `send_otp` | `SendCheck` (cooldown and hourly limit), `Invalidate` (the bulk update), `CreateCode`, then `SendSms`: `SmsSent` or `SmsFailed` (`mark_used`), by what the panel's client answers |
| `verify_otp` | `VerifyLoad` (the query and its three checks), `SaveAttempt`, then `Reject` or `Accept` (`mark_used`) |
| time, a killed worker | `Tick`, `Crash` |

Abstractions: a code is right for the row it was made for and wrong for every other (two rows that
happen to hold the same digits are left out). A request that is refused at its checks changes
nothing and is no step. The cooldown and the hourly limit are read in one step; both only read.
The expiry is a constant after the creation. `seconds_until_resend` cuts the waiting time to whole
seconds, which is modelled: with two ticks to the second the cooldown ends a tick early. Rows that
were created in the same tick are ordered by creation.

| Run | Instance | Shows | States |
|---|---|---|---|
| `otp_serial` | 1 worker, 14 ticks of half a second, 3 codes, 1 crash | the hourly limit and the attempts hold (`SendsAreLimited`, `GuessesAreLimited`), and the queries together are a `CodeService` (`ServesCodes`): a replaced code is never accepted and none twice | 719 k |
| `otp_concurrent` | 2 workers, 4 seconds | what is left when requests overlap: at most two usable codes, two uses of a code, one send over the limit (`OneUsablePerWorker`, `SpentOncePerWorker`, `SendsAreLimited`), and `TypeOK` | 2.4 M |
| `failed_sms_blocks` | 1 worker | finding: a failed send costs the user a send and a cooldown | - |

Bounds: the settings keep their order, cooldown 2 < expiry 3 < hour 4 seconds (90, 120 and 3600 in
the code), with two sends an hour and two attempts, so that every limit is reached, and in
`otp_serial` the clock passes the hour. Three codes are one more than the limit allows; in
`otp_concurrent` the fourth is left free so that a limit broken by two would show. The properties
of `otp_concurrent` are stated with the number of workers, so with one worker each is the rule the
code states: one active code, one use, the hourly limit. With two workers the rules themselves do
not hold, which the model shows when the bound is lowered by one. `GuessesAreLimited` and
`ServesCodes` hold one request at a time. `CHECK_DEADLOCK FALSE` is set because the clock
and the codes are used up in the end. No liveness is stated: nothing has to happen.

### Finding in the codes

4. When the SMS fails, `send_otp` marks the code used, so that, its comment says, the send counter
   is not used up and the user can try again at once. Neither `seconds_until_resend` nor
   `_sends_in_last_hour` looks at `used_at`: the failed row counts in both.

### What is proved about the codes

`OtpProofs` proves, for any finite set of workers, any settings and any number of crashes:

* `TypeCorrect`: `Spec => []TypeOK`; a row never counts more attempts than allowed, because a
  worker saves one more than it loaded and loaded less than the maximum (`Holds`).
* `SpentOnce`: `Spec => []SpentOncePerWorker`. The invariant is `SpentInv`: only a used code has
  been accepted (`OnlyUsedAccepted`), and the times a code was accepted and the workers that still
  hold it are together no more than the workers (`HoldersMayAccept`). A worker can only take up a
  code that is unused, so never accepted; whoever accepts gives up its hold.
* `GuessesLimited`: with at most one worker, `Spec => []GuessesAreLimited`. The invariant is
  `GuessInv`: comparisons never run ahead of the attempts in the row (`Counted`), and while a
  comparison is due they lie strictly behind (`NextCounted`). It holds because the attempt is saved
  before the comparison: a worker killed between the two loses an attempt and gains no guess.
* `UsableLimited`: `Spec => []OneUsablePerWorker`. The invariant counts the unused codes and the
  workers about to create one together (`UnusedLimited`): a worker that voids the old codes pays
  for the one it creates.
* `SendsLimited`: `Spec => []SendsAreLimited`. The codes of the last hour and the requests that have
  passed the check share the room below the limit (`RoomForAll`), and rows are in the order of their
  creation (`InOrder`); an hour that has passed gets no more codes.
* `CodesAreServed`: with at most one worker, `Spec => ServesCodes`, the refinement of `CodeService`.
  The invariant is `ServedInv`: only the newest code is unused, none is while a new one is on
  its way, and a worker works on an unused one. Voiding the old codes and creating the new one
  are two queries and two steps of the service (`Void`, `Create`): a worker killed between them
  leaves no usable code.

The assumptions are that the settings are numbers, a second has a tick, and the workers are
finitely many. All properties of the two passing runs are proved.

## The academy: enrolment, lessons, catalogue, cart

One learner and one course under study (`ThisCourse`) among others that do not change
(`OtherRows`). A request is one step: the code between reading and writing here is a single
query or a transaction, and what overlapping requests do to an order is in `Purchase`.

| Variable | Code |
|---|---|
| `course` | the fields of the `Course` row that decide something: publication, both prices, start date, duration, `vip_access` |
| `vip`, `enrollment` | the learner's VIP fields; the `Enrollment` row or `None` |
| `lesson`, `section` | publication and preview flags of the lessons, publication of the sections |
| `viewed`, `completed` | the `LessonProgress` rows in the order of `last_viewed_at`; those with `is_completed` |
| `active` | `is_active` of the categories and instructors |
| `in_cart`, `order` | the session's cart; the statuses of the learner's orders of the course |
| `now` | the clock in ticks, `Day` of them to a day |
| `grants`, `corrections`, `edits` | counters that bound the runs and tell grants and an administrator's hand from time |

| Action | Code |
|---|---|
| `CartAdd`, `CartRemove`, `CheckoutDropsPurchased`, `Checkout` | `cart_add`, `cart_remove`, `checkout_view` (with the order paid at once if there is nothing to pay) |
| `Pay` | `mark_order_paid` with `enroll_from_order`, in one transaction |
| `OrderCancel`, `AdminEditsOrder` | `order_cancel`, the order form of the admin |
| `EnrollFree` | `enroll_free` |
| `Study` | `lesson_detail`, `lesson_complete`, `lesson_position` |
| `EditContent`, `AdministerAccess`, `AdministerCatalogue` | the admin's forms, lists and actions: lessons and sections, enrolment, VIP and the course, categories and instructors |
| `TimePasses` | the clock |

The queries of the pages are operators: `course_list`, `training_calendar`, `search`,
`related_courses`, `home_categories`, `about`, `course_jsonld` and so on in `Catalogue`, `IsListed`,
`curriculum`, `dashboard_view`, `learner_stats` in `Lessons`, `ReportedAs`, `soon` in `Enrollment`.
Each is translated on its own, since that they agree is what the properties say.

| Run | Shows | States |
|---|---|---|
| `academy` | the enrolment implements `AccessDays` (`DaysAreKept`) and opens by a grant, a hand or its start only (`AccessIsGiven`); what is listed opens, whoever is told to buy can buy (`ListedIsOpen`, `WayIn`); the numbers of a course agree and completing leads on (`ProgressAddsUp`, `CompletingLeadsOn`, `FullMeansFinished`); report and pages agree (`ReportAgrees`); calendar, lists, filters and counts agree (`CalendarIsOpen`, `WithdrawnIsNowhere`, `EveryCourseIsOffered`); deletions keep the records (`RecordsAreKept`, `ResetIsAllOrNothing`); Persian dates follow one another (`DatesFollow`); `TypeOK` | 843 k |
| `renewal_refused` | finding: a learner whose access has ended is told to renew it and cannot buy | - |

Bounds (`MCAcademy.cfg`): the course in four versions (timed, withdrawn, free and starting on the
first day, permanent without VIP), each of them at the start and after an edit; two ticks to the
day and three ticks of time, so that an access of one day starts, is renewed early and late, and
ends; two grants, one change of the enrolment by hand and one other edit, at any point; two lessons
in a section each, one of them a sample; two orders, which is how a course can be paid for twice;
two other courses, a category and its subcategory, two instructors. `FullMeansFinished` adds up to
197 finished lessons to the two. Deletions are a question about databases, not steps: `Records`
works out the answer for every part of a database with a row of each model, and the invariants ask
it for the rows that are there. The dates run from every day of fourteen years, those around the
turns of the centuries among them. `CHECK_DEADLOCK FALSE`, because clock and budgets are used up.
No fairness is assumed: nothing has to happen.

Where the properties stop:

* `AccessDays` allows what the code does: a grant in a course that has got a duration ends a
  permanent access, and free enrolment extends a timed access at every click.
* Report and model differ at the very moment of the end (`expires_at <= now` against
  `now > expires_at`) and before the start. `is_expiring_soon` says "less than a week" in its
  comment and holds for seven whole days and up to a day more, and for an access that has ended.
* `FullMeansFinished` is true up to 199 lessons: with 199 of 200 done, 99.5 is rounded to 100.
* The tree of categories has two levels; the code does not forbid a third, whose courses are on no
  main category's page.
* The filter `price=free` goes by the price before the discount: a course that a discount makes free
  is not among the free ones. `CalendarIsOpen` states the direction that holds.
* The checkout does not ask again whether the registration is open, and the number of courses in
  the page's header counts withdrawn ones.
* `access_duration_days` and `vip_access` are in no fieldset of `CourseAdmin`; the model lets an
  administrator change them, as the shell and the demo data do.
* `seed_demo --reset` stops at the orders with a `ProtectedError` as soon as there is a payment,
  before it has deleted anything.
* Dates after 1600 are converted with the epoch of 979; date-times are shown with their UTC date.

### Finding in the academy

5. `cart_add` refuses, for ever, a course of a paid order, so that nobody can buy the renewal that
   `enroll()` implements and README.md of the repository describes.

### What is proved about the academy

`AcademyProofs` proves every property of the run `academy` but those about deletions and dates, for
any finite set of lessons in any sections, any other courses, any finite tree of categories with two
levels, any versions of the course, any clock, length of a day and budgets:

* `TypesAreKept`: `Spec => []TypeOK`. That there is one row per viewed lesson and one for each
  completed is a part of it. Most properties about one state follow from it (`ReportsAgree`,
  `OfferedIsOpen`, `CalendarsAreOpen`, `WithdrawnIsGone`, `FullIsFinished`, `NumbersAgree`,
  `CoursesAreOffered`), since they say that different queries over any such rows agree.
* `BoughtDaysAreKept`: `Spec => DaysAreKept`, the refinement of `AccessDays`. A step of `Academy` is
  one of the enrolment (`EnrollmentStep`) or leaves what is left of the access alone; `enroll` is
  split by whether the row is there, has ended, and the course has a duration.
* `OpenedOnlyByGrant`: `Spec => AccessIsGiven`.
* `BuyersCanBuy`: `Spec => []WayIn`, if `"PAID"` is not among the statuses set by hand. `WayIn` is
  not inductive: the invariant adds that a paid order comes with an enrolment row (`PaidHasRow`),
  which a status edit would break.
* `ButtonLeadsOn`: `Spec => CompletingLeadsOn`.
* `NumbersAgree` needs that the numbers of the sections add up to that of the course. A sum is a
  fold, and a fold is any function of sets that grows as it does (`SumIs`); counting by
  groups is one (`CountByGroups`). `CoursesAreOffered` uses it for courses and categories.
* `FullIsFinished` is arithmetic about `Rounded` (`FullPercent`): below 200 lessons the last one is
  more than half a percent.

`RecordsProofs` proves `RecordsStay` (`RecordsAreKept`) and `ResetsAreWhole` (`ResetIsAllOrNothing`)
for a database of any size that obeys the foreign keys (`RowsReferToRows`): `DeletionsKeep` and
`ResetsAll` say so of every database, not only of those the academy reaches. The lemmas show that
`GoesWith`, worked out in rounds, is the relation "cascading keys lead from q to r" by at most as
many keys as there are rows (`PathsUpTo`, `SearchFindsPaths`). Along a path the first key decides:
wherever one leads from a row of a payment's trail, the row it leads to has a protecting key in its
way (`TrailIsProtected`). For the reset it is the order of its models: what the earlier ones take
along removes what would protect the later ones, so that only a payment can stop it, and then at
the first model (`NothingInTheWay`, `ModelIsDeleted`).

`CalendarProofs` proves `CalendarFollows` (`DatesFollow`) for every clock that starts in 1601 to 4000
and runs for up to a thousand years of 365 days (the run checks fourteen years). The code counts days
from the Nowruz of 979. On that scale the first day of Persian year `y` is `NewYear(y)`, a formula,
and so is the first of March of Gregorian year `y` (`March(y)`); the day of a date is a sum
over years and months (`DayNumber`). `TomorrowIsNext` shows that the next date has the next number,
`PersianDatesFollow` that numbers in a row are Persian dates in a row, and `InSpring` that the two formulas
keep the new year on March 20 to 22 (`SpringBegins`). They drift apart slowly: up to the year 5295
it holds, in 5296 the new year is outside. The bounds of the theorem are there for that reason.

## Accounts and the contact page

A few browser sessions whose requests overlap. The steps of a flow are separate requests which
anybody can send in any order, and keep what they found out in the session.

| Variable | Code |
|---|---|
| `users[n]` | the `User` row of number `n`; `password` is the session of the person who knows it |
| `sent` | the usable codes, by purpose and number; `Reads[s]` says whose messages session `s` reads |
| `session[s]` | per purpose the pending and the verified number (with the time), the verified identity, the user logged in |
| `saving[s]` | `register_complete` has made the account and saves the identity next |
| `matches`, `mistyped` | the `MATCHED` rows of `IdentityVerification`; mistyped codes the service was asked about |
| `attempts`, `login`, `wrong` | the counter in the cache, what a failing login holds between reading and writing it, the guesses since the counter began |
| `page`, `inbox`, `pressed` | the request a browser would repeat, the `ContactMessage` rows, the presses of the button |
| `accepted`, `registered`, `crashed`, `effort`, `edits` | what happened, and the budgets |

| Action | Code |
|---|---|
| `register`, `register_verify`, `register_identity`, `register_complete` with `SaveIdentity` | the four views of registration; the last is two queries, a `Crash` may come between |
| `password_reset`, `password_reset_verify`, `password_reset_new`, `Resend` | the password reset and the resend button of both flows |
| `SendMobileCode`, `verify_mobile`, `verify_identity_view`, `change_password` | the pages of a logged in user |
| `LogIn`, `FailToLogIn` with `CountFailure`, `logout` | the login, whose failure is counted by a read and a write |
| `SetActive`, `mark_mobile_verified`, `make_admin` | the admin and the command |
| `Press`, `Reload`, `mark_as_read` | the contact page and its inbox |
| `Tick` | `VERIFIED_STATE_SECONDS`, `LOCKOUT_SECONDS` and the life of a code pass |

Numbers, national codes and one-time codes are sequences of digits, because what the forms do to
them is a question: `Forms` translates `normalize_mobile`, the validators and the three `clean_`
methods that use it. What is typed is a good text or one slip away from one (`Mistyped`).

| Run | Shows | States |
|---|---|---|
| `accounts` | `OwnersOnly`, `FreshProof`, `IdentityWasMatched`, `IdentityOrTaken`, `WrongPasswordsAreLimited`, `TypoIsNoticed`, `OnePerPress`, `WebsiteTypeOK` | 2.2 M |
| `otp_code_misread` | finding: a code that begins with 0098 is rewritten and never accepted | - |

Bounds (`MCAccounts.cfg`): two people, one with two numbers who also reads the other's messages (as
in a family or an office), so that a wrong link between session, number and identity can show; one
number has an account from the start; one number can be typed in two ways; two wrong passwords lock;
time passes twice; a budget of 12 pays for codes (5), wrong passwords (2) and edits (2), so that two
codes, or one with three wrong passwords, come in any order; sending the contact form with a budget
of 10 is checked beside the other steps and not in long mixtures with them, with which it shares
the logged in user only. One code stands for all in `accounts`.
`CHECK_DEADLOCK FALSE`: the clock and the budget are used up. No fairness is assumed.

Where the properties stop:

* `IdentityWasMatched`: the identity in the session is not bound to the number it was matched
  with; the property asks for a number of the same person.
* `IdentityOrTaken` excuses a worker that was killed between the two saves and a national code that
  another account of the same person took: the number is then taken by an account without identity.
* `WrongPasswordsAreLimited`: with two requests at a time MAX_ATTEMPTS = M allows
  (M+1)(M+2)/2 - 1 guesses before the lock, 20 instead of 5, because the counter is read and
  written back; TLC shows that the bound is reached. The lock is asked with the number as typed while a success
  clears the number as stored, so that each spelling has a counter of its own.
* `TypoIsNoticed` excepts national codes with the control digit 1, which stands for two
  remainders, and those that end in 1 and 3, which can be exchanged unnoticed: the code ending in 3
  and 1 is valid too (`ControlDigitsAreClear`). The rule cannot tell these; the code has it right.
* The field of the number holds eleven characters in a browser, so that +98 and 0098 reach the form
  from other clients only. The contact form accepts Persian digits and stores them as they are.

### Finding in the accounts

6. `clean_code` uses `normalize_mobile`, which takes a leading 0098 for a country code; the comment
   says it converts digits. One code in ten thousand is rejected however it is typed. National
   codes that begin with 0098 meet the same (`clean_national_code`).

### What is proved about the accounts

`AccountsProofs` proves every property of the run `accounts`, for `WebsiteSpec` with any finite set of
sessions, any numbers, national codes, owners and readers, any codes, any clock and budgets:

* `AccountsAreTheirOwners`, `IdentitiesWereMatched`, `RegisteredHaveIdentities`, `NoTypoIsPaidFor`:
  `OwnersOnly`, `IdentityWasMatched`, `IdentityOrTaken`, `TypoIsNoticed`. The invariant is `AccountsInv`.
  `OwnersOnly` is about rows and logins, but what decides is what the sessions hold between two
  requests: a verified number is one the session reads and was accepted no later than its time, an
  identity in the session was matched for a number it reads (`SessionsHold`), and so was the one
  that a half-done registration is about to save (`SavesHold`). One lemma per view shows that it keeps
  this, and `OneSessionChanges` that the other sessions may stay as they are or be flushed.
* `ProofsAreFresh`: `WebsiteSpec => FreshProof`, from the same invariant.
* `GuessesAreLimited`: `WebsiteSpec => []WrongPasswordsAreLimited`, the quadratic bound for any
  `MAX_ATTEMPTS`. The argument is a potential: `Guesses(c)` is what two requests can still have
  checked from counter `c`, and `Limited` says that the wrong passwords so far and that number
  stay under the bound, also after a slow request has written its old value back (`RollBack`).
  That the bound is reached is what TLC shows, for `MAX_ATTEMPTS` 2.
* `MessagesAreNotRepeated`: `WebsiteSpec => []OnePerPress`. The invariant `ContactInv` says that a
  page a form has made is one of a form that was refused.
* `WebsiteTypes`: `WebsiteSpec => []WebsiteTypeOK`.

`FormsProofs` proves `SlipIsNoticed`, on which `NoTypoIsPaidFor` rests, for all national codes: of the
texts one slip away (`Mistyped`) the form lets through none but the code. With the weights 10 to 2
a wrong digit changes the sum by a product that 11 does not divide, an exchange by the difference of
two digits; the control digit tells all remainders apart but 1 and 10.

## What is proved and what is only checked

Every invariant and action property of the passing runs is a theorem for all values of the constants,
and so are the three refinements. Only checked by TLC, on the instances above:

* `BackedIsPaid`: liveness under fairness, out of the prover's reach like ENABLED.
* the properties of the six runs that expect a violation: there the counterexample is the result.

The theorems hold under the assumptions of the modules, which TLC evaluates in every run, and these
hypotheses of their own:

| Hypothesis | Theorems | Why |
|---|---|---|
| `"PAID" \notin AdminStatuses` | `PaidDelivered`, `UsesCounted`, `BuyersCanBuy` | an order marked as paid by hand is delivered to nobody |
| `OneWorker` | `GuessesLimited`, `CodesAreServed`, all of `SalesProofs` | no lock: with overlapping requests the claims are false |
| `AdminStatuses = {}` | all of `SalesProofs` | a paid order can be edited by hand into any other |
| `FirstYears` from 1601 to 4000, a clock of up to 365,000 days | `CalendarFollows` | the code's epoch; the drift of the cycle |

No library theorem that takes an operator as a parameter can be used, so an induction over numbers is
written with the least counterexample: `LeastNumber` gives it, and its predecessor holds. The same
way the recursive functions are shown to have the values their definitions say. It works for the
numbers and finite sets here; no theorem needs it for other data.

What attempts at the proofs have changed in the modules:

* `ControlDigitsAreClear` excepted only the control digit 1. The proof stopped at the exchange of the
  last two digits, and TLC confirms the codes that end in 1 and 3.
* Nothing kept an administrator's edit from flushing the session of a request that is running, so that
  `saving` has to hold the number and the code (`Saves`), as the view's variables do, and not to
  look them up in the session again.
* `IdentityOrTaken` was not inductive: an account is without an identity because one that shares an
  owner has it, which is what it says now.
* `FullMeansFinished` holds up to 199 lessons in all, a bound that is now part of the property.
* `RowsReferToRows` says which keys may be NULL and which model each key leads to: without it the
  rows of a database could have been any.
* The cases of `ReportedAs` overlapped, where TLA+ leaves the choice open.

## Not modelled

* The coupon code in the session and a cart of several courses: `coupon_apply` and `coupon_remove`
  set and drop a code that the checkout checks again. `Purchase` lets the checkout have any coupon
  or none, and any set of courses. The page of the checkout may show another total than the
  order gets if coupon or price change between the two requests.
* Two requests of one session at once (Django saves the session as a whole at the end of each).
* Deletions as steps: their permission and effect are in `Records`. Sales, students and progress
  go on as if nothing were deleted, which is why what may be deleted matters.
* The requests and headers of the SMS and identity clients (their outcomes are in `Otp` and
  `Accounts`), the choice of a client by the settings, and gateways other than the mock one.
* Names, pictures and other profile fields, `RegisterForm` (unused), search words, order and
  pagination of lists, the minutes of lessons, the position of a video in seconds.
* The settings singleton, sliders, features, questions, partners and fixed pages: rows that are shown
  as they are. Templates, JavaScript, icons, number formats, URLs, migrations, project settings, the
  rows `seed_demo` makes, how a file is sent once it may be sent.
