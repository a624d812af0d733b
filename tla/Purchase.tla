------------------------------ MODULE Purchase ------------------------------
(***************************************************************************)
(* Orders, payments, coupons and enrolments of the shop, and the requests  *)
(* that change them: checkout, cancel, the start of a payment and the      *)
(* gateway's callback (src/apps/orders, src/apps/courses/enrollment.py).   *)
(*                                                                         *)
(* The database is order, payment, used_count and granted.  A request is   *)
(* handled by a worker in several steps, and between two of them it holds  *)
(* the rows it loaded first: the code takes no row lock before it writes,  *)
(* so what a worker holds may be stale when it writes.  A step is as large *)
(* as the code makes it atomic: one save(), or one transaction.  With one  *)
(* worker the requests run one after the other; with several they overlap. *)
(***************************************************************************)
EXTENDS Integers, FiniteSets, FiniteSetsExt

CONSTANTS
    Users, Courses, Coupons,
    Orders,         \* primary keys; bounds the orders ever placed
    Payments,       \* primary keys; bounds the payments ever started
    Workers,        \* the server's request handlers
    None,           \* no row, no coupon, no payment
    Subtotal,       \* Subtotal[S]: the sum of the final prices of courses S
    CouponRow,      \* CouponRow[k]: the settings of coupon k
    AdminStatuses,  \* the statuses an administrator gives an order by hand
    MaxCrashes      \* bounds the workers killed in the middle of a request

OrderStatus == {"PENDING", "PAID", "FAILED", "CANCELED", "REFUNDED"}
PaymentStatus == {"PENDING", "SUCCESS", "FAILED"}
Decisions == {None, "success", "failed"}
Steps == {"idle", "request", "verify", "fail_order", "settle", "commit", "cancel"}

CouponRows ==
    [percent: BOOLEAN, value: Nat, max_discount_amount: Nat \cup {None},
     min_order_amount: Nat, max_uses: Nat \cup {None}, per_user_limit: Nat,
     courses: SUBSET Courses]

ASSUME NoneIsNoId == None \notin Users \cup Courses \cup Coupons \cup Nat
ASSUME KeysAreNat == Orders \subseteq Nat /\ Payments \subseteq Nat
ASSUME NoneIsNoText == None \notin OrderStatus \cup {"success", "failed"}
ASSUME FiniteOrders == IsFiniteSet(Orders)
ASSUME PricesAreNat == Subtotal \in [SUBSET Courses -> Nat]
ASSUME CouponsAreRows == CouponRow \in [Coupons -> CouponRows]
ASSUME AdminStatusesAreStatuses == AdminStatuses \subseteq OrderStatus
ASSUME CrashBound == MaxCrashes \in Nat

OrderRows ==
    [user: Users, courses: SUBSET Courses, coupon: Coupons \cup {None},
     total: Nat, status: OrderStatus]

PaymentRows ==
    [order: Orders, amount: Nat, status: PaymentStatus, authority: BOOLEAN,
     decision: Decisions]

(* What a worker holds: the step it is at, the order and the payment it    *)
(* works on, the order status and the gateway decision as it loaded them,  *)
(* and the courses its transaction found no enrolment row for.             *)
Requests ==
    [step: Steps, order: Orders \cup {None}, payment: Payments \cup {None},
     status: OrderStatus \cup {None}, decision: Decisions, missing: SUBSET Courses]

ASSUME NoneIsNoRow == None \notin OrderRows \cup PaymentRows

Idle == [step |-> "idle", order |-> None, payment |-> None, status |-> None,
         decision |-> None, missing |-> {}]

VARIABLES
    order,       \* order[o]: the row of order o with its items
    payment,     \* payment[p]: the row of payment p
    used_count,  \* used_count[k]: the counter of coupon k
    granted,     \* granted[u][c]: how often enroll() ran; 0 is no enrolment row
    expired,     \* the payments older than PAYMENT_EXPIRY_MINUTES
    captured,    \* the payments whose success the gateway has told the server
    request,     \* request[w]: the request worker w handles
    crashes      \* the workers killed so far

vars == <<order, payment, used_count, granted, expired, captured, request, crashes>>
shop == <<order, payment, used_count, granted>>

Init ==
    /\ order = [o \in Orders |-> None]
    /\ payment = [p \in Payments |-> None]
    /\ used_count = [k \in Coupons |-> 0]
    /\ granted = [u \in Users |-> [c \in Courses |-> 0]]
    /\ expired = {}
    /\ captured = {}
    /\ request = [w \in Workers |-> Idle]
    /\ crashes = 0

-----------------------------------------------------------------------------
(* Prices and coupons.                                                     *)

Lesser(a, b) == IF a <= b THEN a ELSE b

(* The discount never exceeds the amount; a percentage is rounded down and *)
(* capped.                                                                 *)
DiscountFor(k, amount) ==
    LET row == CouponRow[k]
        percentage == (amount * row.value) \div 100
        capped == IF row.max_discount_amount = None THEN percentage
                  ELSE Lesser(percentage, row.max_discount_amount)
    IN  Lesser(IF row.percent THEN capped ELSE row.value, amount)

Total(S, k) ==
    LET due == Subtotal[S] - (IF k = None THEN 0 ELSE DiscountFor(k, Subtotal[S]))
    IN  IF due > 0 THEN due ELSE 0

PaidOrders(u) == {o \in Orders : /\ order[o] # None
                                 /\ order[o].user = u
                                 /\ order[o].status = "PAID"}

purchased_course_ids(u) == UNION {order[o].courses : o \in PaidOrders(u)}

(* The checks of a coupon against a basket.  An inactive or lapsed coupon  *)
(* leaves the basket without one, which is the basket of a customer who    *)
(* entered none.                                                           *)
CouponApplies(k, u, S) ==
    LET row == CouponRow[k]
        mine == {o \in PaidOrders(u) : order[o].coupon = k}
    IN  /\ row.max_uses # None => used_count[k] < row.max_uses
        /\ Subtotal[S] >= row.min_order_amount
        /\ row.per_user_limit # 0 => Cardinality(mine) < row.per_user_limit
        /\ row.courses # {} => S \cap row.courses # {}
        /\ DiscountFor(k, Subtotal[S]) > 0

-----------------------------------------------------------------------------
(* Requests.                                                               *)

(* The primary key of a new row: keys are handed out in order.             *)
IsNextKey(i, table) ==
    /\ table[i] = None
    /\ \A j \in DOMAIN table : j < i => table[j] # None

At(w, step) == request[w].step = step
Take(w, req) == request' = [request EXCEPT ![w] = req]
Return(w) == Take(w, Idle)
Goto(w, step) == Take(w, [request[w] EXCEPT !.step = step])

SetStatus(o, status) == order' = [order EXCEPT ![o].status = status]
SetPayment(p, status) == payment' = [payment EXCEPT ![p].status = status]

IsPaid(status) == status = "PAID"
IsPayable(status) == status \in {"PENDING", "FAILED"}

(* An order with nothing to pay is settled by the request that placed it,  *)
(* in a second transaction.                                                *)
NeverSettle(w, o) == UNCHANGED request      \* faulty: leaves it to the gateway

SettleIfFree(w, o) ==
    IF order'[o].total = 0
    THEN Take(w, [Idle EXCEPT !.step = "settle", !.order = o, !.status = "PENDING"])
    ELSE UNCHANGED request

(* The prices of an order are frozen when it is created.                   *)
NewOrder(u, S, k) == [user |-> u, courses |-> S, coupon |-> k,
                      total |-> Total(S, k), status |-> "PENDING"]

(* Checkout of a basket.  What it checks and the order it creates are one  *)
(* step: nobody else can name the order before the request returns.        *)
Checkout(w, u, S, k, o) ==
    /\ At(w, "idle")
    /\ IsNextKey(o, order)
    /\ S # {}
    /\ S \cap purchased_course_ids(u) = {}
    /\ k # None => CouponApplies(k, u, S)
    /\ order' = [order EXCEPT ![o] = NewOrder(u, S, k)]
    /\ SettleIfFree(w, o)
    /\ UNCHANGED <<payment, used_count, granted, expired, captured, crashes>>

(* The customer cancels an order: loaded and checked here, saved below.    *)
CancelLoad(w, o) ==
    /\ At(w, "idle")
    /\ order[o] # None
    /\ ~IsPaid(order[o].status)
    /\ order[o].status # "CANCELED"
    /\ Take(w, [Idle EXCEPT !.step = "cancel", !.order = o])
    /\ UNCHANGED <<shop, expired, captured, crashes>>

CancelSave(w) ==
    /\ At(w, "cancel")
    /\ SetStatus(request[w].order, "CANCELED")
    /\ Return(w)
    /\ UNCHANGED <<payment, used_count, granted, expired, captured, crashes>>

(* The start of a payment: the row is created before the gateway is asked, *)
(* and has no authority until the gateway has answered.                    *)
PaymentStart(w, o, p) ==
    /\ At(w, "idle")
    /\ order[o] # None
    /\ IsNextKey(p, payment)
    /\ IsPayable(order[o].status)
    /\ order[o].total > 0
    /\ payment' = [payment EXCEPT ![p] = [order |-> o, amount |-> order[o].total,
                                          status |-> "PENDING", authority |-> FALSE,
                                          decision |-> None]]
    /\ Take(w, [Idle EXCEPT !.step = "request", !.payment = p])
    /\ UNCHANGED <<order, used_count, granted, expired, captured, crashes>>

GatewayAccepts(w) ==
    /\ At(w, "request")
    /\ payment' = [payment EXCEPT ![request[w].payment].authority = TRUE]
    /\ Return(w)
    /\ UNCHANGED <<order, used_count, granted, expired, captured, crashes>>

GatewayRejects(w) ==
    /\ At(w, "request")
    /\ SetPayment(request[w].payment, "FAILED")
    /\ Return(w)
    /\ UNCHANGED <<order, used_count, granted, expired, captured, crashes>>

(* The customer decides at the gateway, which keeps the last decision; the *)
(* page refuses a payment that is no longer pending.                       *)
Decide(p, decision) ==
    /\ payment[p] # None
    /\ payment[p].status = "PENDING"
    /\ payment[p].authority
    /\ payment' = [payment EXCEPT ![p].decision = decision]
    /\ UNCHANGED <<order, used_count, granted, expired, captured, request, crashes>>

(* A payment grows older than its deadline; only a callback, which needs a *)
(* pending payment with an authority, ever looks at its age.               *)
Expire(p) ==
    /\ payment[p] # None
    /\ payment[p].status = "PENDING"
    /\ payment[p].authority
    /\ p \notin expired
    /\ expired' = expired \cup {p}
    /\ UNCHANGED <<shop, captured, request, crashes>>

(* The callback finds the payment by its authority and loads it with its   *)
(* order.  A payment that is not pending is left alone: a request for one  *)
(* changes nothing and is no step.                                         *)
CallbackLoad(w, p) ==
    /\ At(w, "idle")
    /\ payment[p] # None
    /\ payment[p].authority
    /\ payment[p].status = "PENDING"
    /\ Take(w, [Idle EXCEPT !.step = "verify", !.payment = p,
                            !.order = payment[p].order,
                            !.status = order[payment[p].order].status,
                            !.decision = payment[p].decision])
    /\ UNCHANGED <<shop, expired, captured, crashes>>

(* What ends a verification in a failure, in the order of the code: the    *)
(* age of the payment, a cancelled order, the gateway's answer.            *)
Refused(w) ==
    \/ request[w].payment \in expired
    \/ request[w].status = "CANCELED"
    \/ ~IsPaid(request[w].status) /\ request[w].decision # "success"

(* The last barrier, after the gateway's approval.                         *)
AmountDiffers(w) ==
    /\ request[w].payment # None
    /\ payment[request[w].payment].amount # order[request[w].order].total

(* Faulty: fails the order whatever its status.                            *)
FailPaymentAndOrder(w) ==
    /\ At(w, "verify") /\ Refused(w)
    /\ SetPayment(request[w].payment, "FAILED")
    /\ Goto(w, "fail_order")
    /\ UNCHANGED <<order, used_count, granted, expired, captured, crashes>>

(* _fail writes the payment first, and then the order if the copy of the   *)
(* order it holds is still pending.                                        *)
FailPayment(w) ==
    /\ \/ At(w, "verify") /\ Refused(w)
       \/ At(w, "settle") /\ AmountDiffers(w)
    /\ SetPayment(request[w].payment, "FAILED")
    /\ IF request[w].status = "PENDING" THEN Goto(w, "fail_order") ELSE Return(w)
    /\ UNCHANGED <<order, used_count, granted, expired, captured, crashes>>

(* Faulty: writes the reason of the failure into the status.               *)
FailOrderWithReason(w) ==
    /\ At(w, "fail_order")
    /\ SetStatus(request[w].order, "EXPIRED")
    /\ Return(w)
    /\ UNCHANGED <<payment, used_count, granted, expired, captured, crashes>>

FailOrder(w) ==
    /\ At(w, "fail_order")
    /\ SetStatus(request[w].order, "FAILED")
    /\ Return(w)
    /\ UNCHANGED <<payment, used_count, granted, expired, captured, crashes>>

(* The order was paid before the callback loaded it: the gateway is not    *)
(* asked, and the payment is a success nevertheless.                       *)
OrderAlreadyPaid(w) ==
    /\ At(w, "verify")
    /\ request[w].payment \notin expired
    /\ IsPaid(request[w].status)
    /\ SetPayment(request[w].payment, "SUCCESS")
    /\ Return(w)
    /\ UNCHANGED <<order, used_count, granted, expired, captured, crashes>>

(* Faulty: believes the callback and does not ask the gateway.             *)
CallbackConfirms(w) ==
    /\ At(w, "verify")
    /\ request[w].payment \notin expired
    /\ request[w].status \notin {"CANCELED", "PAID"}
    /\ Goto(w, "settle")
    /\ UNCHANGED <<shop, expired, captured, crashes>>

GatewayConfirms(w) ==
    /\ At(w, "verify")
    /\ ~Refused(w)
    /\ ~IsPaid(request[w].status)
    /\ captured' = captured \cup {request[w].payment}
    /\ Goto(w, "settle")
    /\ UNCHANGED <<shop, expired, crashes>>

(* The transaction that settles an order writes the payment, the order and *)
(* the coupon, and so waits for the row locks of another one on the same   *)
(* order or coupon; then it looks for the enrolment rows.                  *)
RowsFree(w) ==
    LET coupon(v) == order[request[v].order].coupon
    IN  \A v \in Workers \ {w} : At(v, "commit") =>
            /\ request[v].order # request[w].order
            /\ coupon(w) # None => coupon(v) # coupon(w)

Begin(w) ==
    /\ At(w, "settle")
    /\ ~AmountDiffers(w)
    /\ RowsFree(w)
    /\ LET row == order[request[w].order]
       IN  Take(w, [request[w] EXCEPT
                      !.step = "commit",
                      !.missing = {c \in row.courses : granted[row.user][c] = 0}])
    /\ UNCHANGED <<shop, expired, captured, crashes>>

(* Another transaction created an enrolment row this one found missing.    *)
Conflict(w) ==
    \E c \in request[w].missing : granted[order[request[w].order].user][c] > 0

(* What the transaction has written when it commits.  The enrolment does   *)
(* not look at the order's status again: the transaction has just set it.  *)
MarkPaidIfPending(o) ==     \* faulty: a failed order that is retried stays failed
    order' = IF order[o].status = "PENDING" THEN [order EXCEPT ![o].status = "PAID"]
             ELSE order

MarkPaid(o) == SetStatus(o, "PAID")

CountUpToCapacity(o) ==     \* faulty: stops the counter at max_uses
    used_count' = [k \in Coupons |->
                     used_count[k] + (IF k = order[o].coupon
                                         /\ used_count[k] # CouponRow[k].max_uses
                                      THEN 1 ELSE 0)]

CountCoupon(o) ==
    used_count' = [k \in Coupons |->
                     used_count[k] + (IF k = order[o].coupon THEN 1 ELSE 0)]

EnrollNewcomers(o) ==       \* faulty: does not renew an enrolment that exists
    granted' = [u \in Users |-> [c \in Courses |->
                  granted[u][c] + (IF u = order[o].user /\ c \in order[o].courses
                                      /\ granted[u][c] = 0
                                   THEN 1 ELSE 0)]]

EnrollBeforeMarkPaid(o) ==  \* faulty: runs before the order is paid, and so refuses
    UNCHANGED granted

Enroll(o) ==
    granted' = [u \in Users |-> [c \in Courses |->
                  granted[u][c] + (IF u = order[o].user /\ c \in order[o].courses
                                   THEN 1 ELSE 0)]]

Commit(w) ==
    /\ At(w, "commit")
    /\ ~Conflict(w)
    /\ IF request[w].payment = None THEN UNCHANGED payment
       ELSE SetPayment(request[w].payment, "SUCCESS")
    /\ MarkPaid(request[w].order)
    /\ CountCoupon(request[w].order)
    /\ Enroll(request[w].order)
    /\ Return(w)
    /\ UNCHANGED <<expired, captured, crashes>>

(* The unique (user, course) constraint is violated: nothing is written.   *)
Rollback(w) ==
    /\ At(w, "commit")
    /\ Conflict(w)
    /\ Return(w)
    /\ UNCHANGED <<shop, expired, captured, crashes>>

(* The admin form writes the status and nothing else follows from it.      *)
AdminEdit(o, status) ==
    /\ order[o] # None
    /\ SetStatus(o, status)
    /\ UNCHANGED <<payment, used_count, granted, expired, captured, request, crashes>>

(* A worker is killed: its open transaction is rolled back, what it saved  *)
(* before stays.                                                           *)
Crash(w) ==
    /\ ~At(w, "idle")
    /\ crashes < MaxCrashes
    /\ crashes' = crashes + 1
    /\ Return(w)
    /\ UNCHANGED <<shop, expired, captured>>

(* The steps a worker takes by itself once it has a request.               *)
Serve(w) ==
    \/ CancelSave(w)
    \/ GatewayAccepts(w)
    \/ GatewayRejects(w)
    \/ FailPayment(w)
    \/ FailOrder(w)
    \/ OrderAlreadyPaid(w)
    \/ GatewayConfirms(w)
    \/ Begin(w)
    \/ Commit(w)
    \/ Rollback(w)

Customer(w) ==
    \/ \E u \in Users, S \in SUBSET Courses, k \in Coupons \cup {None}, o \in Orders :
            Checkout(w, u, S, k, o)
    \/ \E o \in Orders : CancelLoad(w, o)
    \/ \E o \in Orders, p \in Payments : PaymentStart(w, o, p)
    \/ \E p \in Payments : CallbackLoad(w, p)

Environment ==
    \/ \E p \in Payments, decision \in {"success", "failed"} : Decide(p, decision)
    \/ \E p \in Payments : Expire(p)
    \/ \E o \in Orders, status \in AdminStatuses : AdminEdit(o, status)
    \/ \E w \in Workers : Crash(w)

Next == (\E w \in Workers : Customer(w) \/ Serve(w)) \/ Environment

(* A worker that has a request goes on with it; customers and the gateway  *)
(* owe nothing.                                                            *)
Fairness == \A w \in Workers : WF_vars(Serve(w))

Spec == Init /\ [][Next]_vars
FairSpec == Spec /\ Fairness

-----------------------------------------------------------------------------
(* Properties.                                                             *)

Placed == {o \in Orders : order[o] # None}
Started == {p \in Payments : payment[p] # None}
Paid == {o \in Placed : IsPaid(order[o].status)}

(* Money for an order is there when the gateway has confirmed one of its   *)
(* payments; an order with nothing to pay needs none.                      *)
Backed(o) ==
    \/ order[o].total = 0
    \/ \E p \in captured : payment[p].order = o

(* Every variable has its type.                                            *)
TypeOK ==
    /\ order \in [Orders -> OrderRows \cup {None}]
    /\ payment \in [Payments -> PaymentRows \cup {None}]
    /\ used_count \in [Coupons -> Nat]
    /\ granted \in [Users -> [Courses -> Nat]]
    /\ expired \subseteq Payments
    /\ captured \subseteq Payments
    /\ request \in [Workers -> Requests]
    /\ crashes \in 0..MaxCrashes

(* Under any interleaving, and whatever an administrator does to the       *)
(* statuses, a course opens only for a customer with an order for it that  *)
(* is backed: the callback's parameters open nothing.                      *)
GrantsAreBacked ==
    \A u \in Users, c \in Courses :
        granted[u][c] > 0 =>
            \E o \in Placed : order[o].user = u /\ c \in order[o].courses /\ Backed(o)

(* Under any interleaving, with the grants committed in the transaction    *)
(* that marks the order paid, a paid order has all its courses open.       *)
PaidIsDelivered ==
    \A o \in Paid : \A c \in order[o].courses : granted[order[o].user][c] > 0

(* Under any interleaving the counter of a coupon never falls behind the   *)
(* paid orders that used it: concurrent payments do not erase each other's *)
(* count.                                                                  *)
UsesAreCounted ==
    \A k \in Coupons :
        used_count[k] >= Cardinality({o \in Paid : order[o].coupon = k})

(* One request at a time, a coupon counts its paid orders exactly.         *)
UsesAreExact ==
    \A k \in Coupons :
        used_count[k] = Cardinality({o \in Paid : order[o].coupon = k})

(* One request at a time, a payment succeeds only if its order is paid.    *)
SuccessIsPaid ==
    \A p \in Started : payment[p].status = "SUCCESS" => payment[p].order \in Paid

(* A paid order stays paid: it is neither cancelled nor failed afterwards. *)
PaidIsFinal == [][\A o \in Paid : IsPaid(order'[o].status)]_order

(* Verifying again neither opens the courses of an order again nor counts  *)
(* its coupon again: no more grants and no more uses than there are orders. *)
VerifiedOnce ==
    /\ \A k \in Coupons :
          used_count[k] <= Cardinality({o \in Placed : order[o].coupon = k})
    /\ \A u \in Users, c \in Courses :
          granted[u][c] <=
              Cardinality({o \in Placed : order[o].user = u /\ c \in order[o].courses})

(* Of the payments of an order, only one succeeds.                         *)
OneSuccess ==
    \A p, q \in Started :
        /\ payment[p].order = payment[q].order
        /\ payment[p].status = "SUCCESS"
        /\ payment[q].status = "SUCCESS"
        => p = q

(* A coupon is used at most as often as its settings allow.                *)
CouponCapacity ==
    \A k \in Coupons :
        CouponRow[k].max_uses # None => used_count[k] <= CouponRow[k].max_uses

(* One request at a time and no crash, an order whose money is there is    *)
(* paid in the end: no confirmed payment and no free order is forgotten.   *)
BackedIsPaid ==
    \A o \in Orders : (order[o] # None /\ Backed(o)) ~> (o \in Paid \/ crashes > 0)

(* One request at a time, the requests and the transaction implement the   *)
(* one-step sale that happens once.                                        *)
Basket(o) == IF order[o] = None THEN None
             ELSE [user |-> order[o].user, courses |-> order[o].courses,
                   coupon |-> order[o].coupon]

Sale == INSTANCE Sales WITH
    placed <- [o \in Orders |-> Basket(o)],
    backed <- {o \in Placed : Backed(o)},
    sold <- Paid,
    uses <- used_count

SoldOnce == Sale!Spec

ASSUME NoneIsNoBasket == None \notin Sale!Baskets
=============================================================================
