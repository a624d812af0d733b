--------------------------- MODULE PurchaseProofs ---------------------------
(***************************************************************************)
(* Theorems about Purchase, for any users, courses, coupons and prices,    *)
(* any number of orders, payments and overlapping requests.                *)
(***************************************************************************)
EXTENDS Purchase, FiniteSetTheorems, TLAPS

(* The rows a worker holds exist, and the payment it verifies is one of the *)
(* order it holds.                                                         *)
Holds(w) ==
    LET req == request[w]
    IN  /\ req.step \in {"request", "verify"} => req.payment # None
        /\ req.payment # None => req.payment \in Started
        /\ req.step \in {"verify", "fail_order", "settle", "commit", "cancel"} =>
              req.order \in Placed
        /\ req.step = "verify" => payment[req.payment].order = req.order

RowsExist ==
    /\ \A p \in Started : payment[p].order \in Placed
    /\ captured \subseteq Started
    /\ \A w \in Workers : Holds(w)

(* A worker that settles an order has its money.                           *)
Settles(w) == request[w].step \in {"settle", "commit"} => Backed(request[w].order)
SettlersAreBacked == \A w \in Workers : Settles(w)

InOrder(W) == \A w \in W : Holds(w) /\ Settles(w)

IInv == TypeOK /\ RowsExist /\ SettlersAreBacked /\ GrantsAreBacked

(* Every step keeps what an order is for and what a payment belongs to.    *)
OrdersKept ==
    \A o \in Placed :
        /\ order'[o] # None
        /\ order'[o].user = order[o].user
        /\ order'[o].courses = order[o].courses
        /\ order'[o].coupon = order[o].coupon
        /\ order'[o].total = order[o].total

PaymentsKept ==
    \A p \in Started : payment'[p] # None /\ payment'[p].order = payment[p].order

LEMMA TotalIsNat ==
    ASSUME NEW S \in SUBSET Courses, NEW k \in Coupons \cup {None}
    PROVE  Total(S, k) \in Nat
<1>1. Subtotal[S] \in Nat
    BY PricesAreNat
<1>2. ASSUME k # None PROVE DiscountFor(k, Subtotal[S]) \in Int
    <2>1. CouponRow[k] \in CouponRows
        BY <1>2, CouponsAreRows
    <2>2. /\ CouponRow[k].value \in Nat
          /\ CouponRow[k].percent \in BOOLEAN
          /\ CouponRow[k].max_discount_amount \in Nat \cup {None}
        BY <2>1 DEF CouponRows
    <2>3. (Subtotal[S] * CouponRow[k].value) \div 100 \in Int
        BY <1>1, <2>2
    <2>. QED
        BY <1>1, <2>2, <2>3 DEF DiscountFor, Lesser
<1>. QED
    BY <1>1, <1>2 DEF Total

-----------------------------------------------------------------------------
(* The row updates.                                                        *)

LEMMA StatusSet ==
    ASSUME TypeOK, NEW o \in Placed, NEW status \in OrderStatus, SetStatus(o, status)
    PROVE  /\ order' \in [Orders -> OrderRows \cup {None}]
           /\ Placed' = Placed
           /\ OrdersKept
<1>1. /\ order \in [Orders -> OrderRows \cup {None}]
      /\ o \in Orders
      /\ order[o] \in OrderRows
    BY DEF TypeOK, Placed
<1>2. order' = [order EXCEPT ![o] = [order[o] EXCEPT !.status = status]]
    BY DEF SetStatus
<1>3. [order[o] EXCEPT !.status = status] \in OrderRows
    BY <1>1 DEF OrderRows
<1>4. None \notin OrderRows
    BY NoneIsNoRow
<1>5. order' \in [Orders -> OrderRows \cup {None}]
    BY <1>1, <1>2, <1>3
<1>6. \A i \in Orders : i # o => order'[i] = order[i]
    BY <1>1, <1>2
<1>7. order'[o] = [order[o] EXCEPT !.status = status]
    BY <1>1, <1>2
<1>8. /\ order'[o] # None
      /\ order'[o].user = order[o].user
      /\ order'[o].courses = order[o].courses
      /\ order'[o].coupon = order[o].coupon
      /\ order'[o].total = order[o].total
    BY <1>1, <1>3, <1>4, <1>7 DEF OrderRows
<1>. QED
    BY <1>1, <1>5, <1>6, <1>8 DEF Placed, OrdersKept

LEMMA PaymentSet ==
    ASSUME TypeOK, NEW p \in Started, NEW row \in PaymentRows,
           row.order = payment[p].order,
           payment' = [payment EXCEPT ![p] = row]
    PROVE  /\ payment' \in [Payments -> PaymentRows \cup {None}]
           /\ Started' = Started
           /\ PaymentsKept
<1>1. /\ payment \in [Payments -> PaymentRows \cup {None}]
      /\ p \in Payments
    BY DEF TypeOK, Started
<1>2. None \notin PaymentRows
    BY NoneIsNoRow
<1>. QED
    BY <1>1, <1>2 DEF Started, PaymentsKept

LEMMA RequestSet ==
    ASSUME TypeOK, NEW w \in Workers, NEW req \in Requests, Take(w, req)
    PROVE  /\ request' \in [Workers -> Requests]
           /\ request'[w] = req
           /\ \A v \in Workers \ {w} : request'[v] = request[v]
BY DEF TypeOK, Take

LEMMA IdleIsRequest == Idle \in Requests
BY DEF Idle, Requests, Steps, Decisions

-----------------------------------------------------------------------------
(* What stays true of the rows and the workers a step does not touch.      *)

LEMMA BackedStays ==
    ASSUME TypeOK, OrdersKept, PaymentsKept, captured \subseteq Started,
           captured \subseteq captured', NEW o \in Placed, Backed(o)
    PROVE  Backed(o)'
<1>1. CASE order[o].total = 0
    BY <1>1 DEF OrdersKept, Backed
<1>2. CASE \E p \in captured : payment[p].order = o
    <2>1. PICK p \in captured : payment[p].order = o
        BY <1>2
    <2>2. p \in captured' /\ payment'[p].order = o
        BY <2>1 DEF PaymentsKept
    <2>. QED
        BY <2>2 DEF Backed
<1>. QED
    BY <1>1, <1>2 DEF Backed

LEMMA GrantsStay ==
    ASSUME TypeOK, OrdersKept, PaymentsKept, captured \subseteq Started,
           captured \subseteq captured', GrantsAreBacked, granted' = granted
    PROVE  GrantsAreBacked'
<1>1. SUFFICES ASSUME NEW u \in Users, NEW c \in Courses, granted[u][c] > 0
               PROVE  \E o \in Placed' : /\ order'[o].user = u
                                         /\ c \in order'[o].courses
                                         /\ Backed(o)'
    BY DEF GrantsAreBacked
<1>2. PICK o \in Placed : order[o].user = u /\ c \in order[o].courses /\ Backed(o)
    BY <1>1 DEF GrantsAreBacked
<1>3. o \in Placed' /\ order'[o].user = u /\ c \in order'[o].courses
    BY <1>2 DEF OrdersKept, Placed
<1>4. Backed(o)'
    BY <1>2, BackedStays
<1>. QED
    BY <1>3, <1>4

LEMMA HoldsStays ==
    ASSUME OrdersKept, PaymentsKept, NEW v \in Workers, Holds(v),
           request'[v] = request[v]
    PROVE  Holds(v)'
BY DEF Holds, OrdersKept, PaymentsKept, Placed, Started

(* It is enough to look at the workers that take the step and at the       *)
(* payments that are new.                                                  *)
LEMMA RowsStay ==
    ASSUME IInv, OrdersKept, PaymentsKept,
           captured \subseteq captured', captured' \subseteq Started',
           \A p \in Started' \ Started : payment'[p].order \in Placed',
           NEW W \in SUBSET Workers, InOrder(W)',
           \A v \in Workers \ W : request'[v] = request[v]
    PROVE  RowsExist' /\ SettlersAreBacked'
<1>1. captured \subseteq Started
    BY DEF IInv, RowsExist
<1>2. ASSUME NEW p \in Started' PROVE payment'[p].order \in Placed'
    <2>1. CASE p \in Started
        BY <2>1 DEF IInv, RowsExist, PaymentsKept, OrdersKept, Placed
    <2>. QED
        BY <1>2, <2>1
<1>3. ASSUME NEW v \in Workers \ W PROVE Holds(v)'
    BY <1>3, HoldsStays DEF IInv, RowsExist
<1>4. ASSUME NEW v \in Workers \ W PROVE Settles(v)'
    <2>1. CASE request[v].step \in {"settle", "commit"}
        <3>1. request[v].order \in Placed /\ Backed(request[v].order)
            BY <2>1 DEF IInv, RowsExist, Holds, SettlersAreBacked, Settles
        <3>2. ASSUME NEW o \in Placed, Backed(o) PROVE Backed(o)'
            BY <1>1, <3>2, BackedStays DEF IInv
        <3>3. Backed(request[v].order)'
            BY <3>1, <3>2 DEF Backed
        <3>. QED
            BY <3>3 DEF Settles
    <2>. QED
        BY <2>1 DEF Settles
<1>. QED
    BY <1>2, <1>3, <1>4 DEF RowsExist, SettlersAreBacked, InOrder

(* A step of worker w that creates no payment and opens no course.         *)
LEMMA WorkerStep ==
    ASSUME IInv, TypeOK', OrdersKept, PaymentsKept, Started' = Started,
           captured \subseteq captured', captured' \subseteq Started, granted' = granted,
           NEW w \in Workers, Holds(w)', Settles(w)',
           \A v \in Workers \ {w} : request'[v] = request[v]
    PROVE  IInv'
<1>1. InOrder({w})'
    BY DEF InOrder
<1>2. RowsExist' /\ SettlersAreBacked'
    BY <1>1, RowsStay
<1>3. TypeOK /\ captured \subseteq Started /\ GrantsAreBacked
    BY DEF IInv, RowsExist
<1>4. GrantsAreBacked'
    BY <1>3, GrantsStay
<1>. QED
    BY <1>2, <1>4 DEF IInv

LEMMA NoOrderChange == order' = order => OrdersKept /\ Placed' = Placed
BY DEF OrdersKept, Placed

LEMMA NoPaymentChange == payment' = payment => PaymentsKept /\ Started' = Started
BY DEF PaymentsKept, Started

LEMMA IdleIsInOrder ==
    ASSUME NEW w \in Workers, request'[w] = Idle
    PROVE  Holds(w)' /\ Settles(w)'
BY DEF Holds, Settles, Idle

(* A step that only changes what a worker holds, or what the gateway knows. *)
LEMMA QuietStep ==
    ASSUME IInv, NEW w \in Workers, NEW req \in Requests, Take(w, req),
           UNCHANGED <<order, payment, used_count, granted, expired>>,
           captured \subseteq captured', captured' \subseteq Started,
           crashes' \in 0..MaxCrashes, Holds(w)', Settles(w)'
    PROVE  IInv'
<1>1. TypeOK
    BY DEF IInv
<1>2. /\ request' \in [Workers -> Requests]
      /\ \A v \in Workers \ {w} : request'[v] = request[v]
    BY <1>1, RequestSet
<1>3. TypeOK'
    BY <1>1, <1>2 DEF TypeOK, Started
<1>4. OrdersKept /\ PaymentsKept /\ Started' = Started
    BY NoOrderChange, NoPaymentChange
<1>. QED
    BY <1>2, <1>3, <1>4, WorkerStep

(* A step that writes the row of one payment and returns.                  *)
LEMMA PaymentStep ==
    ASSUME IInv, NEW w \in Workers, NEW req \in Requests, Take(w, req),
           NEW p \in Started, NEW row \in PaymentRows, row.order = payment[p].order,
           payment' = [payment EXCEPT ![p] = row],
           UNCHANGED <<order, used_count, granted, expired, captured, crashes>>,
           Holds(w)', Settles(w)'
    PROVE  IInv'
<1>1. TypeOK /\ captured \subseteq Started
    BY DEF IInv, RowsExist
<1>2. /\ request' \in [Workers -> Requests]
      /\ \A v \in Workers \ {w} : request'[v] = request[v]
    BY <1>1, RequestSet
<1>3. /\ payment' \in [Payments -> PaymentRows \cup {None}]
      /\ PaymentsKept /\ Started' = Started
    BY <1>1, PaymentSet
<1>4. TypeOK'
    BY <1>1, <1>2, <1>3 DEF TypeOK
<1>5. OrdersKept
    BY NoOrderChange
<1>. QED
    BY <1>1, <1>2, <1>3, <1>4, <1>5, WorkerStep

(* A step that writes the status of one order.                             *)
LEMMA StatusStep ==
    ASSUME IInv, NEW w \in Workers, Return(w),
           NEW o \in Placed, NEW status \in OrderStatus, SetStatus(o, status),
           UNCHANGED <<payment, used_count, granted, expired, captured, crashes>>
    PROVE  IInv'
<1>1. TypeOK /\ captured \subseteq Started
    BY DEF IInv, RowsExist
<1>2. /\ request' \in [Workers -> Requests]
      /\ request'[w] = Idle
      /\ \A v \in Workers \ {w} : request'[v] = request[v]
    BY <1>1, IdleIsRequest, RequestSet DEF Return
<1>3. /\ order' \in [Orders -> OrderRows \cup {None}]
      /\ OrdersKept
    BY <1>1, StatusSet
<1>4. TypeOK'
    BY <1>1, <1>2, <1>3 DEF TypeOK
<1>5. PaymentsKept /\ Started' = Started
    BY NoPaymentChange
<1>6. Holds(w)' /\ Settles(w)'
    BY <1>2, IdleIsInOrder
<1>. QED
    BY <1>1, <1>2, <1>3, <1>4, <1>5, <1>6, WorkerStep

(* What a worker holds that works on a payment.                            *)
LEMMA HeldPayment ==
    ASSUME IInv, NEW w \in Workers, request[w].payment # None
    PROVE  /\ request[w].payment \in Started
           /\ payment[request[w].payment] \in PaymentRows
BY DEF IInv, RowsExist, Holds, TypeOK, Started

LEMMA PaymentStatusSet ==
    ASSUME TypeOK, NEW p \in Started, NEW status \in PaymentStatus,
           SetPayment(p, status)
    PROVE  \E row \in PaymentRows : /\ row.order = payment[p].order
                                    /\ payment' = [payment EXCEPT ![p] = row]
<1> DEFINE row == [payment[p] EXCEPT !.status = status]
<1>1. payment[p] \in PaymentRows
    BY DEF TypeOK, Started
<1>2. row \in PaymentRows /\ row.order = payment[p].order
    BY <1>1 DEF PaymentRows
<1>3. payment' = [payment EXCEPT ![p] = row]
    BY DEF SetPayment
<1>. QED
    BY <1>2, <1>3

-----------------------------------------------------------------------------
(* One lemma per action: it keeps the inductive invariant.                 *)

LEMMA CancelLoadKeeps ==
    ASSUME IInv, NEW w \in Workers, NEW o \in Orders, CancelLoad(w, o)
    PROVE  IInv'
<1> DEFINE req == [Idle EXCEPT !.step = "cancel", !.order = o]
<1>1. TypeOK /\ captured \subseteq Started /\ o \in Placed
    BY DEF IInv, RowsExist, CancelLoad, Placed
<1>2. UNCHANGED <<order, payment, used_count, granted, expired, captured, crashes>>
    BY DEF CancelLoad, shop
<1>3. req \in Requests /\ Take(w, req)
    BY DEF Idle, Requests, Steps, Decisions, CancelLoad
<1>4. request'[w] = req
    BY <1>1, <1>3, RequestSet
<1>5. Holds(w)' /\ Settles(w)'
    BY <1>1, <1>2, <1>4, NoOrderChange DEF Holds, Settles, Idle
<1>. QED
    BY <1>1, <1>2, <1>3, <1>5, QuietStep DEF TypeOK

LEMMA CancelSaveKeeps ==
    ASSUME IInv, NEW w \in Workers, CancelSave(w)
    PROVE  IInv'
<1>1. request[w].order \in Placed
    BY DEF IInv, RowsExist, Holds, CancelSave, At
<1>. QED
    BY <1>1, StatusStep DEF CancelSave, OrderStatus

LEMMA FailOrderKeeps ==
    ASSUME IInv, NEW w \in Workers, FailOrder(w)
    PROVE  IInv'
<1>1. request[w].order \in Placed
    BY DEF IInv, RowsExist, Holds, FailOrder, At
<1>. QED
    BY <1>1, StatusStep DEF FailOrder, OrderStatus

LEMMA CallbackLoadKeeps ==
    ASSUME IInv, NEW w \in Workers, NEW p \in Payments, CallbackLoad(w, p)
    PROVE  IInv'
<1> DEFINE req == [Idle EXCEPT !.step = "verify", !.payment = p,
                               !.order = payment[p].order,
                               !.status = order[payment[p].order].status,
                               !.decision = payment[p].decision]
<1>1. TypeOK /\ captured \subseteq Started /\ p \in Started
    BY DEF IInv, RowsExist, CallbackLoad, Started
<1>2. UNCHANGED <<order, payment, used_count, granted, expired, captured, crashes>>
    BY DEF CallbackLoad, shop
<1>3. payment[p] \in PaymentRows /\ payment[p].order \in Placed
    BY <1>1 DEF TypeOK, Started, IInv, RowsExist
<1>4. order[payment[p].order] \in OrderRows
    BY <1>1, <1>3 DEF TypeOK, Placed
<1>5. req \in Requests /\ Take(w, req)
    BY <1>3, <1>4 DEF Idle, Requests, Steps, Decisions, PaymentRows, OrderRows, CallbackLoad
<1>6. /\ req.step = "verify"
      /\ req.payment = p
      /\ req.order = payment[p].order
    BY DEF Idle
<1>7. request'[w] = req
    BY <1>1, <1>5, RequestSet
<1>8. /\ request'[w].step = "verify"
      /\ request'[w].payment = p
      /\ request'[w].order = payment[p].order
    BY <1>6, <1>7
<1>9. Started' = Started /\ Placed' = Placed /\ payment' = payment
    BY <1>2, NoOrderChange, NoPaymentChange
<1>10. p # None
    BY <1>1, NoneIsNoId, KeysAreNat DEF Started
<1>11. Holds(w)' /\ Settles(w)'
    BY <1>1, <1>3, <1>8, <1>9, <1>10 DEF Holds, Settles
<1>. QED
    BY <1>1, <1>2, <1>5, <1>11, QuietStep DEF TypeOK

LEMMA GatewayConfirmsKeeps ==
    ASSUME IInv, NEW w \in Workers, GatewayConfirms(w)
    PROVE  IInv'
<1> DEFINE p == request[w].payment
           req == [request[w] EXCEPT !.step = "settle"]
<1>1. TypeOK /\ captured \subseteq Started /\ request[w] \in Requests
    BY DEF IInv, RowsExist, TypeOK
<1>2. /\ p \in Started
      /\ request[w].order \in Placed
      /\ payment[p].order = request[w].order
    BY DEF IInv, RowsExist, Holds, GatewayConfirms, At
<1>3. /\ UNCHANGED <<order, payment, used_count, granted, expired, crashes>>
      /\ captured' = captured \cup {p}
    BY DEF GatewayConfirms, shop
<1>4. req \in Requests /\ Take(w, req)
    BY <1>1 DEF Requests, Steps, GatewayConfirms, Goto
<1>5. request'[w] = req
    BY <1>1, <1>4, RequestSet
<1>6. Holds(w)'
    BY <1>1, <1>2, <1>3, <1>5, NoOrderChange, NoPaymentChange DEF Holds, Requests
<1>7. Settles(w)'
    BY <1>1, <1>2, <1>3, <1>5 DEF Settles, Backed, Requests
<1>. QED
    BY <1>1, <1>2, <1>3, <1>4, <1>6, <1>7, QuietStep DEF TypeOK

LEMMA GatewayAcceptsKeeps ==
    ASSUME IInv, NEW w \in Workers, GatewayAccepts(w)
    PROVE  IInv'
<1> DEFINE p == request[w].payment
           row == [payment[p] EXCEPT !.authority = TRUE]
<1>1. TypeOK /\ p # None
    BY DEF IInv, RowsExist, Holds, GatewayAccepts, At
<1>2. p \in Started /\ payment[p] \in PaymentRows
    BY <1>1, HeldPayment
<1>3. row \in PaymentRows /\ row.order = payment[p].order
    BY <1>2 DEF PaymentRows
<1>4. payment' = [payment EXCEPT ![p] = row]
    BY DEF GatewayAccepts
<1>5. Take(w, Idle) /\ request'[w] = Idle
    BY <1>1, IdleIsRequest, RequestSet DEF GatewayAccepts, Return
<1>6. Holds(w)' /\ Settles(w)'
    BY <1>5, IdleIsInOrder
<1>. QED
    BY <1>2, <1>3, <1>4, <1>5, <1>6, IdleIsRequest, PaymentStep DEF GatewayAccepts

(* A worker gives a payment a status and returns.                          *)
LEMMA PaymentStatusStep ==
    ASSUME IInv, NEW w \in Workers, request[w].payment # None, Return(w),
           NEW status \in PaymentStatus, SetPayment(request[w].payment, status),
           UNCHANGED <<order, used_count, granted, expired, captured, crashes>>
    PROVE  IInv'
<1>1. TypeOK /\ request[w].payment \in Started
    BY HeldPayment DEF IInv
<1>2. PICK row \in PaymentRows :
            /\ row.order = payment[request[w].payment].order
            /\ payment' = [payment EXCEPT ![request[w].payment] = row]
    BY <1>1, PaymentStatusSet
<1>3. Take(w, Idle) /\ request'[w] = Idle
    BY <1>1, IdleIsRequest, RequestSet DEF Return
<1>4. Holds(w)' /\ Settles(w)'
    BY <1>3, IdleIsInOrder
<1>. QED
    BY <1>1, <1>2, <1>3, <1>4, IdleIsRequest, PaymentStep

LEMMA GatewayRejectsKeeps ==
    ASSUME IInv, NEW w \in Workers, GatewayRejects(w)
    PROVE  IInv'
<1>1. request[w].payment # None
    BY DEF IInv, RowsExist, Holds, GatewayRejects, At
<1>. QED
    BY <1>1, PaymentStatusStep DEF GatewayRejects, PaymentStatus

LEMMA OrderAlreadyPaidKeeps ==
    ASSUME IInv, NEW w \in Workers, OrderAlreadyPaid(w)
    PROVE  IInv'
<1>1. request[w].payment # None
    BY DEF IInv, RowsExist, Holds, OrderAlreadyPaid, At
<1>. QED
    BY <1>1, PaymentStatusStep DEF OrderAlreadyPaid, PaymentStatus

LEMMA FailPaymentKeeps ==
    ASSUME IInv, NEW w \in Workers, FailPayment(w)
    PROVE  IInv'
<1> DEFINE p == request[w].payment
           req == [request[w] EXCEPT !.step = "fail_order"]
<1>1. /\ TypeOK
      /\ request[w] \in Requests
      /\ p # None
      /\ request[w].order \in Placed
    BY DEF IInv, TypeOK, RowsExist, Holds, FailPayment, At, AmountDiffers
<1>2. /\ SetPayment(p, "FAILED")
      /\ UNCHANGED <<order, used_count, granted, expired, captured, crashes>>
    BY DEF FailPayment
<1>3. CASE Return(w)
    BY <1>1, <1>2, <1>3, PaymentStatusStep DEF PaymentStatus
<1>4. CASE Goto(w, "fail_order")
    <2>1. p \in Started
        BY <1>1, HeldPayment
    <2>2. PICK row \in PaymentRows : /\ row.order = payment[p].order
                                     /\ payment' = [payment EXCEPT ![p] = row]
        BY <1>1, <1>2, <2>1, PaymentStatusSet DEF PaymentStatus
    <2>3. req \in Requests /\ Take(w, req)
        BY <1>1, <1>4 DEF Requests, Steps, Goto
    <2>4. /\ request'[w].step = "fail_order"
          /\ request'[w].payment = p
          /\ request'[w].order = request[w].order
        BY <1>1, <2>3, RequestSet DEF Requests
    <2>5. Started' = Started /\ Placed' = Placed
        BY <1>1, <1>2, <2>1, <2>2, PaymentSet, NoOrderChange
    <2>6. Holds(w)' /\ Settles(w)'
        BY <1>1, <2>1, <2>4, <2>5 DEF Holds, Settles
    <2>. QED
        BY <1>2, <2>1, <2>2, <2>3, <2>6, PaymentStep
<1>. QED
    BY <1>3, <1>4 DEF FailPayment

LEMMA BeginKeeps ==
    ASSUME IInv, NEW w \in Workers, Begin(w)
    PROVE  IInv'
<1> DEFINE row == order[request[w].order]
           req == [request[w] EXCEPT
                     !.step = "commit",
                     !.missing = {c \in row.courses : granted[row.user][c] = 0}]
<1>1. /\ TypeOK
      /\ captured \subseteq Started
      /\ request[w] \in Requests
      /\ request[w].order \in Placed
      /\ request[w].payment # None => request[w].payment \in Started
      /\ Backed(request[w].order)
    BY DEF IInv, TypeOK, RowsExist, Holds, SettlersAreBacked, Settles, Begin, At
<1>2. UNCHANGED <<order, payment, used_count, granted, expired, captured, crashes>>
    BY DEF Begin, shop
<1>3. row.courses \subseteq Courses
    BY <1>1 DEF TypeOK, Placed, OrderRows
<1>4. req \in Requests
    BY <1>1, <1>3 DEF Requests, Steps
<1>5. Take(w, req)
    BY DEF Begin
<1>6. /\ request'[w].step = "commit"
      /\ request'[w].payment = request[w].payment
      /\ request'[w].order = request[w].order
    BY <1>1, <1>4, <1>5, RequestSet DEF Requests
<1>7. Started' = Started /\ Placed' = Placed
    BY <1>2, NoOrderChange, NoPaymentChange
<1>8. Holds(w)' /\ Settles(w)'
    BY <1>1, <1>2, <1>6, <1>7 DEF Holds, Settles, Backed
<1>. QED
    BY <1>1, <1>2, <1>4, <1>5, <1>8, QuietStep DEF TypeOK

(* A request that ends and leaves the rows as they are.                    *)
LEMMA IdleStep ==
    ASSUME IInv, NEW w \in Workers, Return(w), crashes' \in 0..MaxCrashes,
           UNCHANGED <<order, payment, used_count, granted, expired, captured>>
    PROVE  IInv'
<1>1. TypeOK /\ captured \subseteq Started
    BY DEF IInv, RowsExist
<1>2. Take(w, Idle) /\ request'[w] = Idle
    BY <1>1, IdleIsRequest, RequestSet DEF Return
<1>3. Holds(w)' /\ Settles(w)'
    BY <1>2, IdleIsInOrder
<1>. QED
    BY <1>1, <1>2, <1>3, IdleIsRequest, QuietStep

LEMMA RollbackKeeps ==
    ASSUME IInv, NEW w \in Workers, Rollback(w)
    PROVE  IInv'
BY IdleStep DEF Rollback, shop, IInv, TypeOK

LEMMA CrashKeeps ==
    ASSUME IInv, NEW w \in Workers, Crash(w)
    PROVE  IInv'
<1>1. crashes' \in 0..MaxCrashes
    BY CrashBound DEF Crash, IInv, TypeOK
<1>. QED
    BY <1>1, IdleStep DEF Crash, shop


LEMMA CheckoutKeeps ==
    ASSUME IInv, NEW w \in Workers, NEW u \in Users, NEW S \in SUBSET Courses,
           NEW k \in Coupons \cup {None}, NEW o \in Orders, Checkout(w, u, S, k, o)
    PROVE  IInv'
<1> DEFINE row == NewOrder(u, S, k)
           req == [Idle EXCEPT !.step = "settle", !.order = o, !.status = "PENDING"]
<1>1. /\ TypeOK /\ captured \subseteq Started
      /\ order[o] = None /\ request[w].step = "idle"
      /\ Holds(w)
    BY DEF IInv, RowsExist, Checkout, IsNextKey, At
<1>2. /\ order' = [order EXCEPT ![o] = row]
      /\ UNCHANGED <<payment, used_count, granted, expired, captured, crashes>>
    BY DEF Checkout
<1>3. row \in OrderRows /\ row # None
    BY TotalIsNat, NoneIsNoRow DEF NewOrder, OrderRows, OrderStatus
<1>4. order' \in [Orders -> OrderRows \cup {None}] /\ order'[o] = row
    BY <1>1, <1>2, <1>3 DEF TypeOK
<1>5. OrdersKept /\ o \in Placed'
    BY <1>1, <1>2, <1>3, <1>4 DEF TypeOK, OrdersKept, Placed
<1>6. PaymentsKept /\ Started' = Started
    BY <1>2, NoPaymentChange
<1>7. CASE row.total = 0
    <2>1. req \in Requests
        BY DEF Idle, Requests, Steps, Decisions, OrderStatus
    <2>2. Take(w, req)
        BY <1>4, <1>7 DEF Checkout, SettleIfFree
    <2>3. /\ request' \in [Workers -> Requests]
          /\ request'[w] = req
          /\ \A v \in Workers \ {w} : request'[v] = request[v]
        BY <1>1, <2>1, <2>2, RequestSet
    <2>4. TypeOK'
        BY <1>1, <1>2, <1>4, <2>3 DEF TypeOK
    <2>5. req.step = "settle" /\ req.order = o /\ req.payment = None
        BY DEF Idle
    <2>6. Holds(w)'
        BY <1>5, <2>3, <2>5 DEF Holds
    <2>7. Settles(w)'
        BY <1>4, <1>7, <2>3, <2>5 DEF Settles, Backed
    <2>. QED
        BY <1>1, <1>2, <1>5, <1>6, <2>3, <2>4, <2>6, <2>7, WorkerStep
<1>8. CASE row.total # 0
    <2>1. request' = request
        BY <1>4, <1>8 DEF Checkout, SettleIfFree
    <2>2. TypeOK'
        BY <1>1, <1>2, <1>4, <2>1 DEF TypeOK
    <2>3. Holds(w)'
        BY <1>1, <1>5, <1>6, <2>1, HoldsStays
    <2>4. Settles(w)'
        BY <1>1, <2>1 DEF Settles
    <2>. QED
        BY <1>1, <1>2, <1>5, <1>6, <2>1, <2>2, <2>3, <2>4, WorkerStep
<1>. QED
    BY <1>7, <1>8

LEMMA PaymentStartKeeps ==
    ASSUME IInv, NEW w \in Workers, NEW o \in Orders, NEW p \in Payments,
           PaymentStart(w, o, p)
    PROVE  IInv'
<1> DEFINE row == [order |-> o, amount |-> order[o].total, status |-> "PENDING",
                   authority |-> FALSE, decision |-> None]
           req == [Idle EXCEPT !.step = "request", !.payment = p]
<1>1. /\ TypeOK /\ captured \subseteq Started
      /\ o \in Placed /\ payment[p] = None
    BY DEF IInv, RowsExist, PaymentStart, IsNextKey, Placed
<1>2. /\ payment' = [payment EXCEPT ![p] = row]
      /\ UNCHANGED <<order, used_count, granted, expired, captured, crashes>>
      /\ Take(w, req)
    BY DEF PaymentStart
<1>3. order[o].total \in Nat
    BY <1>1 DEF TypeOK, Placed, OrderRows
<1>4. row \in PaymentRows /\ row # None
    <2>1. row \in PaymentRows
        BY <1>3 DEF PaymentRows, PaymentStatus, Decisions
    <2>. QED
        BY <2>1, NoneIsNoRow
<1>5. payment' \in [Payments -> PaymentRows \cup {None}] /\ payment'[p] = row
    BY <1>1, <1>2, <1>4 DEF TypeOK
<1>6. PaymentsKept /\ Started' = Started \cup {p}
    BY <1>1, <1>2, <1>4, <1>5 DEF TypeOK, PaymentsKept, Started
<1>7. OrdersKept /\ Placed' = Placed
    BY <1>2, NoOrderChange
<1>8. req \in Requests
    BY DEF Idle, Requests, Steps, Decisions
<1>9. /\ request' \in [Workers -> Requests]
      /\ request'[w] = req
      /\ \A v \in Workers \ {w} : request'[v] = request[v]
    BY <1>1, <1>2, <1>8, RequestSet
<1>10. TypeOK'
    BY <1>1, <1>2, <1>5, <1>9 DEF TypeOK
<1>11. req.step = "request" /\ req.payment = p /\ p # None
    BY NoneIsNoId, KeysAreNat DEF Idle
<1>12. InOrder({w})'
    BY <1>6, <1>9, <1>11 DEF InOrder, Holds, Settles
<1>13. \A q \in Started' \ Started : payment'[q].order \in Placed'
    BY <1>1, <1>5, <1>6, <1>7
<1>14. RowsExist' /\ SettlersAreBacked'
    BY <1>1, <1>2, <1>6, <1>7, <1>9, <1>12, <1>13, RowsStay
<1>15. GrantsAreBacked'
    BY <1>1, <1>2, <1>6, <1>7, GrantsStay DEF IInv
<1>. QED
    BY <1>10, <1>14, <1>15 DEF IInv

(* A step that is no worker's: the rows stay, and so does what every       *)
(* worker holds.                                                           *)
LEMMA OutsideStep ==
    ASSUME IInv, TypeOK', OrdersKept, PaymentsKept, Started' = Started,
           UNCHANGED <<granted, captured, request>>
    PROVE  IInv'
<1>1. TypeOK /\ captured \subseteq Started /\ GrantsAreBacked
    BY DEF IInv, RowsExist
<1>2. InOrder({})'
    BY DEF InOrder
<1>3. RowsExist' /\ SettlersAreBacked'
    BY <1>1, <1>2, RowsStay
<1>4. GrantsAreBacked'
    BY <1>1, GrantsStay
<1>. QED
    BY <1>3, <1>4 DEF IInv

LEMMA DecideKeeps ==
    ASSUME IInv, NEW p \in Payments, NEW decision \in {"success", "failed"},
           Decide(p, decision)
    PROVE  IInv'
<1> DEFINE row == [payment[p] EXCEPT !.decision = decision]
<1>1. TypeOK /\ p \in Started
    BY DEF IInv, Decide, Started
<1>2. payment[p] \in PaymentRows
    BY <1>1 DEF TypeOK, Started
<1>3. row \in PaymentRows /\ row.order = payment[p].order
    BY <1>2 DEF PaymentRows, Decisions
<1>4. payment' = [payment EXCEPT ![p] = row]
    BY DEF Decide
<1>5. /\ payment' \in [Payments -> PaymentRows \cup {None}]
      /\ PaymentsKept /\ Started' = Started
    BY <1>1, <1>3, <1>4, PaymentSet
<1>6. OrdersKept
    BY NoOrderChange DEF Decide
<1>7. TypeOK'
    BY <1>1, <1>5 DEF TypeOK, Decide
<1>. QED
    BY <1>5, <1>6, <1>7, OutsideStep DEF Decide

LEMMA ExpireKeeps ==
    ASSUME IInv, NEW p \in Payments, Expire(p)
    PROVE  IInv'
<1>1. OrdersKept /\ PaymentsKept /\ Started' = Started
    BY NoOrderChange, NoPaymentChange DEF Expire, shop
<1>2. TypeOK'
    BY DEF IInv, TypeOK, Expire, shop
<1>. QED
    BY <1>1, <1>2, OutsideStep DEF Expire, shop

LEMMA AdminEditKeeps ==
    ASSUME IInv, NEW o \in Orders, NEW status \in AdminStatuses, AdminEdit(o, status)
    PROVE  IInv'
<1>1. TypeOK /\ o \in Placed /\ status \in OrderStatus
    BY AdminStatusesAreStatuses DEF IInv, AdminEdit, Placed
<1>2. order' \in [Orders -> OrderRows \cup {None}] /\ OrdersKept
    BY <1>1, StatusSet DEF AdminEdit
<1>3. PaymentsKept /\ Started' = Started
    BY NoPaymentChange DEF AdminEdit
<1>4. TypeOK'
    BY <1>1, <1>2 DEF TypeOK, AdminEdit
<1>. QED
    BY <1>2, <1>3, <1>4, OutsideStep DEF AdminEdit

LEMMA CommitKeeps ==
    ASSUME IInv, NEW w \in Workers, Commit(w)
    PROVE  IInv'
<1> DEFINE o == request[w].order
           p == request[w].payment
<1>1. /\ TypeOK /\ captured \subseteq Started
      /\ o \in Placed /\ Backed(o)
      /\ p # None => p \in Started
    BY DEF IInv, RowsExist, Holds, SettlersAreBacked, Settles, Commit, At
<1>2. order' \in [Orders -> OrderRows \cup {None}] /\ OrdersKept /\ Placed' = Placed
    BY <1>1, StatusSet DEF Commit, MarkPaid, OrderStatus
<1>3. /\ payment' \in [Payments -> PaymentRows \cup {None}]
      /\ PaymentsKept /\ Started' = Started
    <2>1. CASE p = None
        BY <1>1, <2>1, NoPaymentChange DEF Commit, TypeOK
    <2>2. CASE p # None
        <3>1. PICK row \in PaymentRows : /\ row.order = payment[p].order
                                         /\ payment' = [payment EXCEPT ![p] = row]
            BY <1>1, <2>2, PaymentStatusSet DEF Commit, PaymentStatus
        <3>. QED
            BY <1>1, <2>2, <3>1, PaymentSet
    <2>. QED
        BY <2>1, <2>2
<1>4. /\ request' \in [Workers -> Requests]
      /\ request'[w] = Idle
      /\ \A v \in Workers \ {w} : request'[v] = request[v]
    BY <1>1, IdleIsRequest, RequestSet DEF Commit, Return
<1>5. used_count' \in [Coupons -> Nat]
    BY <1>1 DEF Commit, CountCoupon, TypeOK
<1>6. granted' \in [Users -> [Courses -> Nat]]
    BY <1>1 DEF Commit, Enroll, TypeOK
<1>7. TypeOK'
    BY <1>1, <1>2, <1>3, <1>4, <1>5, <1>6 DEF TypeOK, Commit
<1>8. InOrder({w})'
    BY <1>4, IdleIsInOrder DEF InOrder
<1>9. captured' = captured
    BY DEF Commit
<1>10. RowsExist' /\ SettlersAreBacked'
    BY <1>1, <1>2, <1>3, <1>4, <1>8, <1>9, RowsStay
<1>11. ASSUME NEW i \in Placed, Backed(i) PROVE Backed(i)'
    BY <1>1, <1>2, <1>3, <1>9, <1>11, BackedStays
<1>12. ASSUME NEW u \in Users, NEW c \in Courses, granted'[u][c] > 0
       PROVE  \E i \in Placed' : /\ order'[i].user = u
                                 /\ c \in order'[i].courses
                                 /\ Backed(i)'
    <2>1. CASE u = order[o].user /\ c \in order[o].courses
        <3>1. PICK i \in Placed : i = o /\ Backed(i)
            BY <1>1
        <3>2. order'[i].user = u /\ c \in order'[i].courses /\ i \in Placed'
            BY <1>2, <2>1, <3>1 DEF OrdersKept
        <3>3. Backed(i)'
            BY <1>11, <3>1
        <3>. QED
            BY <3>2, <3>3
    <2>2. CASE ~(u = order[o].user /\ c \in order[o].courses)
        <3>1. granted[u][c] > 0
            BY <1>1, <1>12, <2>2 DEF Commit, Enroll, TypeOK
        <3>2. PICK i \in Placed : order[i].user = u /\ c \in order[i].courses /\ Backed(i)
            BY <3>1 DEF IInv, GrantsAreBacked
        <3>3. i \in Placed' /\ order'[i].user = u /\ c \in order'[i].courses
            BY <1>2, <3>2 DEF OrdersKept
        <3>4. Backed(i)'
            BY <1>11, <3>2
        <3>. QED
            BY <3>3, <3>4
    <2>. QED
        BY <2>1, <2>2
<1>13. GrantsAreBacked'
    BY <1>12 DEF GrantsAreBacked
<1>. QED
    BY <1>7, <1>10, <1>13 DEF IInv

-----------------------------------------------------------------------------
(* The invariant holds at first, and every step keeps it.                  *)

LEMMA InitIInv == Init => IInv
<1>1. SUFFICES ASSUME Init PROVE IInv
    OBVIOUS
<1>2. Placed = {} /\ Started = {}
    BY <1>1 DEF Init, Placed, Started
<1>3. TypeOK
    BY <1>1, IdleIsRequest, CrashBound DEF Init, TypeOK
<1>4. \A w \in Workers : request[w] = Idle
    BY <1>1 DEF Init
<1>5. \A w \in Workers : Holds(w) /\ Settles(w)
    BY <1>4 DEF Holds, Settles, Idle
<1>6. RowsExist /\ SettlersAreBacked
    BY <1>1, <1>2, <1>5 DEF Init, RowsExist, SettlersAreBacked
<1>7. GrantsAreBacked
    BY <1>1 DEF Init, GrantsAreBacked
<1>. QED
    BY <1>3, <1>6, <1>7 DEF IInv

LEMMA StutterKeeps ==
    ASSUME IInv, UNCHANGED vars
    PROVE  IInv'
<1>1. OrdersKept /\ PaymentsKept /\ Started' = Started
    BY NoOrderChange, NoPaymentChange DEF vars
<1>2. TypeOK'
    BY DEF IInv, TypeOK, vars
<1>. QED
    BY <1>1, <1>2, OutsideStep DEF vars

LEMMA StepIInv == IInv /\ [Next]_vars => IInv'
<1> SUFFICES ASSUME IInv, [Next]_vars PROVE IInv'
    OBVIOUS
<1>1. ASSUME NEW w \in Workers, Customer(w) PROVE IInv'
    BY <1>1, CheckoutKeeps, CancelLoadKeeps, PaymentStartKeeps, CallbackLoadKeeps
       DEF Customer
<1>2. ASSUME NEW w \in Workers, Serve(w) PROVE IInv'
    BY <1>2, CancelSaveKeeps, GatewayAcceptsKeeps, GatewayRejectsKeeps,
       FailPaymentKeeps, FailOrderKeeps, OrderAlreadyPaidKeeps, GatewayConfirmsKeeps,
       BeginKeeps, CommitKeeps, RollbackKeeps
       DEF Serve
<1>3. ASSUME Environment PROVE IInv'
    BY <1>3, DecideKeeps, ExpireKeeps, AdminEditKeeps, CrashKeeps DEF Environment
<1>. QED
    BY <1>1, <1>2, <1>3, StutterKeeps DEF Next

LEMMA IInvHolds == Spec => []IInv
BY InitIInv, StepIInv, PTL DEF Spec

(* The tables and the requests of the shop keep their types: every row a   *)
(* handler writes is one of the table's rows.                              *)
THEOREM TypeCorrect == Spec => []TypeOK
<1>1. IInv => TypeOK
    BY DEF IInv
<1>. QED
    BY <1>1, IInvHolds, PTL

(* Whatever the interleaving of the requests, the crashes, and the edits   *)
(* an administrator makes to the statuses, enroll() has opened a course    *)
(* only for a customer with an order for it that cost nothing or that the  *)
(* gateway has confirmed a payment of.                                     *)
THEOREM GrantsBacked == Spec => []GrantsAreBacked
<1>1. IInv => GrantsAreBacked
    BY DEF IInv
<1>. QED
    BY <1>1, IInvHolds, PTL

-----------------------------------------------------------------------------
(* The paid orders, if administrators do not mark orders paid by hand.     *)

Uses(k) == {o \in Paid : order[o].coupon = k}

PaidInv == IInv /\ PaidIsDelivered /\ UsesAreCounted

LEMMA UsesAreFinite ==
    ASSUME NEW k
    PROVE  IsFiniteSet(Uses(k)) /\ Cardinality(Uses(k)) \in Nat
<1>1. Uses(k) \subseteq Orders
    BY DEF Uses, Paid, Placed
<1>. QED
    BY <1>1, FiniteOrders, FS_Subset, FS_CardinalityType

LEMMA StatusLosesPaid ==
    ASSUME TypeOK, NEW o \in Placed, NEW status \in OrderStatus, status # "PAID",
           SetStatus(o, status)
    PROVE  OrdersKept /\ Paid' \subseteq Paid
<1>1. OrdersKept /\ Placed' = Placed
    BY StatusSet
<1>2. \A i \in Placed : i # o => order'[i] = order[i]
    BY DEF TypeOK, Placed, SetStatus
<1>3. order'[o].status = status
    BY DEF TypeOK, Placed, SetStatus, OrderRows
<1>. QED
    BY <1>1, <1>2, <1>3 DEF Paid, IsPaid

(* Only the transaction that settles an order makes one paid.              *)
LEMMA FewerPaid ==
    ASSUME IInv, "PAID" \notin AdminStatuses, [Next]_vars, \A w \in Workers : ~Commit(w)
    PROVE  /\ OrdersKept /\ Paid' \subseteq Paid
           /\ used_count' = used_count /\ granted' = granted
<1>1. TypeOK
    BY DEF IInv
<1>2. ASSUME order' = order PROVE OrdersKept /\ Paid' \subseteq Paid
    BY <1>2 DEF OrdersKept, Paid, Placed, IsPaid
<1>3. ASSUME NEW w \in Workers, Customer(w)
      PROVE  /\ OrdersKept /\ Paid' \subseteq Paid
             /\ used_count' = used_count /\ granted' = granted
    <2>1. ASSUME NEW u \in Users, NEW S \in SUBSET Courses,
                 NEW k \in Coupons \cup {None}, NEW o \in Orders, Checkout(w, u, S, k, o)
          PROVE  /\ OrdersKept /\ Paid' \subseteq Paid
                 /\ used_count' = used_count /\ granted' = granted
        <3>1. order[o] = None /\ \A i \in Orders : i # o => order'[i] = order[i]
            BY <1>1, <2>1 DEF Checkout, IsNextKey, TypeOK
        <3>2. order'[o].status # "PAID"
            BY <1>1, <2>1 DEF Checkout, NewOrder, TypeOK
        <3>3. OrdersKept
            BY <3>1 DEF OrdersKept, Placed
        <3>4. Paid' \subseteq Paid
            BY <3>1, <3>2 DEF Paid, Placed, IsPaid
        <3>. QED
            BY <2>1, <3>3, <3>4 DEF Checkout
    <2>2. ASSUME NEW o \in Orders, CancelLoad(w, o)
          PROVE  UNCHANGED <<order, used_count, granted>>
        BY <2>2 DEF CancelLoad, shop
    <2>3. ASSUME NEW o \in Orders, NEW p \in Payments, PaymentStart(w, o, p)
          PROVE  UNCHANGED <<order, used_count, granted>>
        BY <2>3 DEF PaymentStart
    <2>4. ASSUME NEW p \in Payments, CallbackLoad(w, p)
          PROVE  UNCHANGED <<order, used_count, granted>>
        BY <2>4 DEF CallbackLoad, shop
    <2>. QED
        BY <1>2, <1>3, <2>1, <2>2, <2>3, <2>4 DEF Customer
<1>4. ASSUME NEW w \in Workers, Serve(w)
      PROVE  /\ OrdersKept /\ Paid' \subseteq Paid
             /\ used_count' = used_count /\ granted' = granted
    <2>1. CASE CancelSave(w)
        <3>1. request[w].order \in Placed
            BY <2>1 DEF IInv, RowsExist, Holds, CancelSave, At
        <3>. QED
            BY <1>1, <2>1, <3>1, StatusLosesPaid DEF CancelSave, OrderStatus
    <2>2. CASE FailOrder(w)
        <3>1. request[w].order \in Placed
            BY <2>2 DEF IInv, RowsExist, Holds, FailOrder, At
        <3>. QED
            BY <1>1, <2>2, <3>1, StatusLosesPaid DEF FailOrder, OrderStatus
    <2>3. CASE \/ GatewayAccepts(w) \/ GatewayRejects(w) \/ FailPayment(w)
               \/ OrderAlreadyPaid(w) \/ GatewayConfirms(w) \/ Begin(w) \/ Rollback(w)
        <3>1. UNCHANGED <<order, used_count, granted>>
            BY <2>3 DEF GatewayAccepts, GatewayRejects, FailPayment, OrderAlreadyPaid,
                        GatewayConfirms, Begin, Rollback, shop
        <3>. QED
            BY <1>2, <3>1
    <2>. QED
        BY <1>4, <2>1, <2>2, <2>3 DEF Serve
<1>5. ASSUME Environment
      PROVE  /\ OrdersKept /\ Paid' \subseteq Paid
             /\ used_count' = used_count /\ granted' = granted
    <2>1. ASSUME NEW o \in Orders, NEW status \in AdminStatuses, AdminEdit(o, status)
          PROVE  /\ OrdersKept /\ Paid' \subseteq Paid
                 /\ used_count' = used_count /\ granted' = granted
        <3>1. o \in Placed /\ status \in OrderStatus /\ status # "PAID"
            BY <2>1, AdminStatusesAreStatuses DEF AdminEdit, Placed
        <3>. QED
            BY <1>1, <2>1, <3>1, StatusLosesPaid DEF AdminEdit
    <2>2. ASSUME NEW p \in Payments, NEW decision, Decide(p, decision)
          PROVE  UNCHANGED <<order, used_count, granted>>
        BY <2>2 DEF Decide
    <2>3. ASSUME NEW p \in Payments, Expire(p)
          PROVE  UNCHANGED <<order, used_count, granted>>
        BY <2>3 DEF Expire, shop
    <2>4. ASSUME NEW w \in Workers, Crash(w)
          PROVE  UNCHANGED <<order, used_count, granted>>
        BY <2>4 DEF Crash, shop
    <2>. QED
        BY <1>2, <1>5, <2>1, <2>2, <2>3, <2>4 DEF Environment
<1>6. ASSUME UNCHANGED vars
      PROVE  UNCHANGED <<order, used_count, granted>>
    BY <1>6 DEF vars
<1>. QED
    BY <1>2, <1>3, <1>4, <1>5, <1>6 DEF Next

LEMMA FewerPaidKeeps ==
    ASSUME TypeOK, PaidIsDelivered, UsesAreCounted, OrdersKept, Paid' \subseteq Paid,
           used_count' = used_count, granted' = granted
    PROVE  PaidIsDelivered' /\ UsesAreCounted'
<1>1. Paid \subseteq Placed
    BY DEF Paid
<1>2. PaidIsDelivered'
    BY <1>1 DEF PaidIsDelivered, OrdersKept
<1>3. ASSUME NEW k \in Coupons PROVE used_count'[k] >= Cardinality(Uses(k)')
    <2>1. Uses(k)' \subseteq Uses(k)
        BY <1>1 DEF Uses, OrdersKept
    <2>2. IsFiniteSet(Uses(k)) /\ Cardinality(Uses(k)) \in Nat
        BY UsesAreFinite
    <2>3. /\ Cardinality(Uses(k)') \in Nat
          /\ Cardinality(Uses(k)') <= Cardinality(Uses(k))
        BY <2>1, <2>2, FS_Subset, FS_CardinalityType
    <2>4. used_count[k] \in Nat /\ used_count[k] >= Cardinality(Uses(k))
        BY DEF UsesAreCounted, Uses, TypeOK
    <2>. QED
        BY <2>2, <2>3, <2>4
<1>. QED
    BY <1>2, <1>3 DEF UsesAreCounted, Uses

LEMMA CommitPays ==
    ASSUME IInv, PaidIsDelivered, UsesAreCounted, NEW w \in Workers, Commit(w)
    PROVE  PaidIsDelivered' /\ UsesAreCounted'
<1>1. PICK o \in Placed : o = request[w].order
    BY DEF IInv, RowsExist, Holds, Commit, At
<1>2. TypeOK
    BY DEF IInv
<1>3. OrdersKept /\ Placed' = Placed
    BY <1>1, <1>2, StatusSet DEF Commit, MarkPaid, OrderStatus
<1>4. \A i \in Placed : i # o => order'[i] = order[i]
    BY <1>1, <1>2 DEF Commit, MarkPaid, SetStatus, TypeOK, Placed
<1>5. Paid' \subseteq Paid \cup {o}
    BY <1>3, <1>4 DEF Paid, IsPaid
<1>6. \A u \in Users, c \in Courses :
        /\ granted'[u][c] >= granted[u][c]
        /\ u = order[o].user /\ c \in order[o].courses => granted'[u][c] > 0
    BY <1>1, <1>2 DEF Commit, Enroll, TypeOK
<1>7. \A u \in Users, c \in Courses : granted[u][c] \in Nat /\ granted'[u][c] \in Int
    BY <1>1, <1>2 DEF Commit, Enroll, TypeOK
<1>8. \A i \in Placed : order[i].user \in Users /\ order[i].courses \subseteq Courses
    BY <1>2 DEF TypeOK, Placed, OrderRows
<1>9. ASSUME NEW i \in Paid', NEW c \in order'[i].courses
      PROVE  granted'[order'[i].user][c] > 0
    <2>1. /\ i \in Placed
          /\ order'[i].user = order[i].user
          /\ c \in order[i].courses
        BY <1>3, <1>9 DEF OrdersKept, Paid
    <2>2. CASE i = o
        BY <1>6, <1>8, <2>1, <2>2
    <2>3. CASE i # o
        <3>1. granted[order[i].user][c] > 0
            BY <1>5, <1>9, <2>1, <2>3 DEF PaidIsDelivered
        <3>. QED
            BY <1>6, <1>7, <1>8, <2>1, <3>1
    <2>. QED
        BY <2>2, <2>3
<1>10. ASSUME NEW k \in Coupons PROVE used_count'[k] >= Cardinality(Uses(k)')
    <2>1. IsFiniteSet(Uses(k)) /\ Cardinality(Uses(k)) \in Nat
        BY UsesAreFinite
    <2>2. used_count[k] \in Nat /\ used_count[k] >= Cardinality(Uses(k))
        BY <1>2 DEF UsesAreCounted, Uses, TypeOK
    <2>3. CASE k = order[o].coupon
        <3>1. Uses(k)' \subseteq Uses(k) \cup {o}
            BY <1>3, <1>5 DEF Uses, OrdersKept, Paid
        <3>2. /\ IsFiniteSet(Uses(k) \cup {o})
              /\ Cardinality(Uses(k) \cup {o}) \in Nat
              /\ Cardinality(Uses(k) \cup {o}) <= Cardinality(Uses(k)) + 1
            <4>1. /\ IsFiniteSet(Uses(k) \cup {o})
                  /\ Cardinality(Uses(k) \cup {o}) =
                        IF o \in Uses(k) THEN Cardinality(Uses(k))
                        ELSE Cardinality(Uses(k)) + 1
                BY <2>1, FS_AddElement
            <4>. QED
                BY <2>1, <4>1
        <3>3. /\ Cardinality(Uses(k)') \in Nat
              /\ Cardinality(Uses(k)') <= Cardinality(Uses(k) \cup {o})
            BY <3>1, <3>2, FS_Subset, FS_CardinalityType
        <3>4. used_count'[k] = used_count[k] + 1
            BY <1>1, <2>3 DEF Commit, CountCoupon
        <3>. QED
            BY <2>1, <2>2, <3>2, <3>3, <3>4
    <2>4. CASE k # order[o].coupon
        <3>1. Uses(k)' \subseteq Uses(k)
            BY <1>3, <1>5, <2>4 DEF Uses, OrdersKept, Paid
        <3>2. /\ Cardinality(Uses(k)') \in Nat
              /\ Cardinality(Uses(k)') <= Cardinality(Uses(k))
            BY <2>1, <3>1, FS_Subset, FS_CardinalityType
        <3>3. used_count'[k] = used_count[k] + 0
            BY <1>1, <2>4 DEF Commit, CountCoupon
        <3>. QED
            BY <2>1, <2>2, <3>2, <3>3
    <2>. QED
        BY <2>3, <2>4
<1>. QED
    BY <1>9, <1>10 DEF PaidIsDelivered, UsesAreCounted, Uses

LEMMA InitPaidInv == Init => PaidInv
<1>1. SUFFICES ASSUME Init PROVE PaidIsDelivered /\ UsesAreCounted
    BY InitIInv DEF PaidInv
<1>2. Paid = {}
    BY <1>1 DEF Init, Paid, Placed
<1>3. \A k \in Coupons : Uses(k) = {}
    BY <1>2 DEF Uses
<1>4. Cardinality({}) = 0
    BY FS_EmptySet
<1>5. \A k \in Coupons : used_count[k] >= Cardinality(Uses(k))
    BY <1>1, <1>3, <1>4 DEF Init
<1>6. UsesAreCounted
    BY <1>5 DEF UsesAreCounted, Uses
<1>. QED
    BY <1>2, <1>6 DEF PaidIsDelivered

LEMMA StepPaidInv ==
    ASSUME "PAID" \notin AdminStatuses
    PROVE  PaidInv /\ [Next]_vars => PaidInv'
<1> SUFFICES ASSUME PaidInv, [Next]_vars PROVE PaidInv'
    OBVIOUS
<1>1. IInv'
    BY StepIInv DEF PaidInv
<1>2. CASE \E w \in Workers : Commit(w)
    BY <1>1, <1>2, CommitPays DEF PaidInv
<1>3. CASE \A w \in Workers : ~Commit(w)
    <2>1. /\ OrdersKept /\ Paid' \subseteq Paid
          /\ used_count' = used_count /\ granted' = granted
        BY <1>3, FewerPaid DEF PaidInv
    <2>2. TypeOK /\ PaidIsDelivered /\ UsesAreCounted
        BY DEF PaidInv, IInv
    <2>3. PaidIsDelivered' /\ UsesAreCounted'
        BY <2>1, <2>2, FewerPaidKeeps
    <2>. QED
        BY <1>1, <2>3 DEF PaidInv
<1>. QED
    BY <1>2, <1>3

(* Whatever the interleaving and the crashes, and as long as only the code *)
(* marks orders paid, every course of a paid order is open to its customer. *)
THEOREM PaidDelivered ==
    ASSUME "PAID" \notin AdminStatuses
    PROVE  Spec => []PaidIsDelivered
<1>1. PaidInv => PaidIsDelivered
    BY DEF PaidInv
<1>. QED
    BY <1>1, InitPaidInv, StepPaidInv, PTL DEF Spec

(* Whatever the interleaving and the crashes, and as long as only the code *)
(* marks orders paid, no use of a coupon by a paid order goes uncounted.   *)
THEOREM UsesCounted ==
    ASSUME "PAID" \notin AdminStatuses
    PROVE  Spec => []UsesAreCounted
<1>1. PaidInv => UsesAreCounted
    BY DEF PaidInv
<1>. QED
    BY <1>1, InitPaidInv, StepPaidInv, PTL DEF Spec
=============================================================================
