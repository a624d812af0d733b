----------------------------- MODULE SalesProofs -----------------------------
(***************************************************************************)
(* What the shop promises as long as requests do not overlap and nobody    *)
(* edits a status by hand: Purchase implements the one-step sale of Sales, *)
(* for any users, courses, coupons and prices, and whatever is killed.     *)
(***************************************************************************)
EXTENDS PurchaseProofs

OneWorker == \A v, w \in Workers : v = w

(* What a worker has loaded is still so, as nobody writes in between: the  *)
(* order's status, and that the order it works on is not paid.             *)
Loaded(w) ==
    LET req == request[w]
    IN  /\ req.step = "verify" => req.status = order[req.order].status
        /\ req.step \in {"cancel", "fail_order", "settle", "commit"} =>
              ~IsPaid(order[req.order].status)
        /\ req.step \in {"settle", "commit"} /\ req.payment # None =>
              payment[req.payment].order = req.order

SerialInv ==
    /\ IInv
    /\ \A w \in Workers : Loaded(w)
    /\ UsesAreExact
    /\ SuccessIsPaid

(* What a step must show.                                                  *)
PromiseKept == SerialInv' /\ [Sale!Next]_(Sale!vars) /\ Paid \subseteq Paid'

-----------------------------------------------------------------------------
(* Steps that sell nothing.                                                *)

Quiet ==
    /\ OrdersKept /\ PaymentsKept
    /\ Placed' = Placed /\ Paid' = Paid
    /\ UNCHANGED <<used_count, granted, captured>>

NoNewSuccess ==
    \A p \in Started' : payment'[p].status = "SUCCESS" =>
                            p \in Started /\ payment[p].status = "SUCCESS"

LEMMA SuccessStays ==
    ASSUME SuccessIsPaid, NoNewSuccess, PaymentsKept, Paid \subseteq Paid'
    PROVE  SuccessIsPaid'
BY DEF SuccessIsPaid, NoNewSuccess, PaymentsKept

LEMMA QuietSells ==
    ASSUME IInv, Quiet
    PROVE  UNCHANGED Sale!vars
<1>1. TypeOK /\ captured \subseteq Started
    BY DEF IInv, RowsExist
<1>2. \A o \in Orders : Basket(o)' = Basket(o)
    <2> SUFFICES ASSUME NEW o \in Orders PROVE Basket(o)' = Basket(o)
        OBVIOUS
    <2>1. CASE o \in Placed
        BY <2>1 DEF Quiet, OrdersKept, Basket, Placed
    <2>2. CASE o \notin Placed
        BY <2>2 DEF Quiet, Basket, Placed
    <2>. QED
        BY <2>1, <2>2
<1>3. \A o \in Placed : Backed(o)' <=> Backed(o)
    <2> SUFFICES ASSUME NEW o \in Placed PROVE Backed(o)' <=> Backed(o)
        OBVIOUS
    <2>1. order'[o].total = order[o].total
        BY DEF Quiet, OrdersKept
    <2>2. \A p \in captured : payment'[p].order = payment[p].order
        BY <1>1 DEF Quiet, PaymentsKept
    <2>. QED
        BY <2>1, <2>2 DEF Backed, Quiet
<1>4. {o \in Placed : Backed(o)}' = {o \in Placed : Backed(o)}
    BY <1>3 DEF Quiet
<1>5. [o \in Orders |-> Basket(o)]' = [o \in Orders |-> Basket(o)]
    BY <1>2
<1>. QED
    BY <1>4, <1>5 DEF Sale!vars, Quiet

LEMMA QuietCounts ==
    ASSUME UsesAreExact, Quiet
    PROVE  UsesAreExact'
<1>1. \A k \in Coupons : {o \in Paid : order[o].coupon = k}' = {o \in Paid : order[o].coupon = k}
    BY DEF Quiet, OrdersKept, Paid
<1>. QED
    BY <1>1 DEF UsesAreExact, Quiet

LEMMA QuietKeepsPromise ==
    ASSUME SerialInv, IInv', \A w \in Workers : Loaded(w)', Quiet, NoNewSuccess
    PROVE  PromiseKept
<1>1. Paid \subseteq Paid'
    BY DEF Quiet
<1>2. SuccessIsPaid'
    BY <1>1, SuccessStays DEF SerialInv, Quiet
<1>. QED
    BY <1>1, <1>2, QuietSells, QuietCounts DEF SerialInv, PromiseKept

LEMMA RowsUntouched ==
    ASSUME UNCHANGED <<order, used_count, granted, captured>>
    PROVE  /\ OrdersKept /\ Placed' = Placed /\ Paid' = Paid
           /\ payment' = payment => Quiet /\ NoNewSuccess
BY NoOrderChange, NoPaymentChange DEF Quiet, NoNewSuccess, Paid, IsPaid, Placed, Started

LEMMA StatusIsQuiet ==
    ASSUME TypeOK, NEW o \in Placed, ~IsPaid(order[o].status),
           NEW status \in OrderStatus, status # "PAID", SetStatus(o, status),
           UNCHANGED <<payment, used_count, granted, captured>>
    PROVE  Quiet /\ NoNewSuccess
<1>1. OrdersKept /\ Placed' = Placed
    BY StatusSet
<1>2. order'[o].status = status /\ \A i \in Placed : i # o => order'[i] = order[i]
    BY DEF TypeOK, Placed, SetStatus, OrderRows
<1>3. Paid' = Paid
    BY <1>1, <1>2 DEF Paid, IsPaid
<1>. QED
    BY <1>1, <1>3, NoPaymentChange DEF Quiet, NoNewSuccess, Started

LEMMA PaymentIsQuiet ==
    ASSUME TypeOK, NEW p \in Started, NEW row \in PaymentRows,
           row.order = payment[p].order, row.status \in {payment[p].status, "FAILED"},
           payment' = [payment EXCEPT ![p] = row],
           UNCHANGED <<order, used_count, granted, captured>>
    PROVE  Quiet /\ NoNewSuccess
<1>1. Started' = Started /\ PaymentsKept
    BY PaymentSet
<1>2. payment'[p] = row /\ \A q \in Started : q # p => payment'[q] = payment[q]
    BY DEF TypeOK, Started
<1>3. NoNewSuccess
    BY <1>1, <1>2 DEF NoNewSuccess
<1>. QED
    BY <1>1, <1>3, RowsUntouched DEF Quiet

-----------------------------------------------------------------------------
(* One lemma per action.                                                   *)

LEMMA IdleIsLoaded ==
    ASSUME TypeOK, OneWorker, NEW w \in Workers, Return(w)
    PROVE  \A v \in Workers : Loaded(v)'
<1>1. request'[w] = Idle
    BY IdleIsRequest, RequestSet DEF Return
<1>2. request'[w].step = "idle"
    BY <1>1 DEF Idle
<1>. QED
    BY <1>2 DEF OneWorker, Loaded

LEMMA StatusWritten ==
    ASSUME OneWorker, SerialInv, IInv', NEW w \in Workers, CancelSave(w) \/ FailOrder(w)
    PROVE  PromiseKept
<1>1. TypeOK /\ Holds(w) /\ Loaded(w)
    BY DEF SerialInv, IInv, RowsExist
<1>2. PICK o \in Placed : o = request[w].order
    BY <1>1 DEF CancelSave, FailOrder, At, Holds
<1>3. ~IsPaid(order[o].status)
    BY <1>1, <1>2 DEF CancelSave, FailOrder, At, Loaded
<1>4. PICK status \in {"CANCELED", "FAILED"} : SetStatus(o, status)
    BY <1>2 DEF CancelSave, FailOrder
<1>5. status \in OrderStatus /\ status # "PAID"
    BY <1>4 DEF OrderStatus
<1>6. Quiet /\ NoNewSuccess
    BY <1>1, <1>3, <1>4, <1>5, StatusIsQuiet DEF CancelSave, FailOrder
<1>. QED
    BY <1>1, <1>6, IdleIsLoaded, QuietKeepsPromise DEF CancelSave, FailOrder

(* The steps that only load something, or end.                             *)
LEMMA NothingWritten ==
    ASSUME SerialInv, IInv', \A w \in Workers : Loaded(w)',
           UNCHANGED <<order, payment, used_count, granted, captured>>
    PROVE  PromiseKept
BY RowsUntouched, QuietKeepsPromise

LEMMA CancelLoadKeepsPromise ==
    ASSUME OneWorker, SerialInv, IInv', NEW w \in Workers, NEW o \in Orders, CancelLoad(w, o)
    PROVE  PromiseKept
<1>1. TypeOK
    BY DEF SerialInv, IInv
<1>2. UNCHANGED <<order, payment, used_count, granted, captured>>
    BY DEF CancelLoad, shop
<1>3. PICK req : req = [Idle EXCEPT !.step = "cancel", !.order = o]
    OBVIOUS
<1>4. req \in Requests /\ req.step = "cancel" /\ req.order = o
    BY <1>3 DEF Idle, Requests, Steps, Decisions
<1>5. request'[w] = req
    BY <1>1, <1>3, <1>4, RequestSet DEF CancelLoad
<1>6. Loaded(w)'
    BY <1>2, <1>4, <1>5 DEF CancelLoad, Loaded
<1>. QED
    BY <1>2, <1>6, NothingWritten DEF OneWorker

LEMMA CallbackLoadKeepsPromise ==
    ASSUME OneWorker, SerialInv, IInv', NEW w \in Workers, NEW p \in Payments, CallbackLoad(w, p)
    PROVE  PromiseKept
<1>1. TypeOK /\ p \in Started
    BY DEF SerialInv, IInv, CallbackLoad, Started
<1>2. UNCHANGED <<order, payment, used_count, granted, captured>>
    BY DEF CallbackLoad, shop
<1>3. PICK req : req = [Idle EXCEPT !.step = "verify", !.payment = p,
                                    !.order = payment[p].order,
                                    !.status = order[payment[p].order].status,
                                    !.decision = payment[p].decision]
    OBVIOUS
<1>4. payment[p] \in PaymentRows /\ payment[p].order \in Placed
    BY <1>1 DEF TypeOK, Started, SerialInv, IInv, RowsExist
<1>5. order[payment[p].order] \in OrderRows
    BY <1>1, <1>4 DEF TypeOK, Placed
<1>6. /\ req \in Requests /\ req.step = "verify" /\ req.order = payment[p].order
      /\ req.status = order[payment[p].order].status
    BY <1>3, <1>4, <1>5 DEF Idle, Requests, Steps, Decisions, PaymentRows, OrderRows
<1>7. request'[w] = req
    BY <1>1, <1>3, <1>6, RequestSet DEF CallbackLoad
<1>8. Loaded(w)'
    BY <1>2, <1>6, <1>7 DEF Loaded
<1>. QED
    BY <1>2, <1>8, NothingWritten DEF OneWorker

LEMMA PaymentStartKeepsPromise ==
    ASSUME OneWorker, SerialInv, IInv', NEW w \in Workers, NEW o \in Orders,
           NEW p \in Payments, PaymentStart(w, o, p)
    PROVE  PromiseKept
<1>1. TypeOK /\ payment[p] = None
    BY DEF SerialInv, IInv, PaymentStart, IsNextKey
<1>2. UNCHANGED <<order, used_count, granted, captured>>
    BY DEF PaymentStart
<1>3. PICK req : req = [Idle EXCEPT !.step = "request", !.payment = p]
    OBVIOUS
<1>4. req \in Requests /\ req.step = "request"
    BY <1>3 DEF Idle, Requests, Steps, Decisions
<1>5. request'[w] = req
    BY <1>1, <1>3, <1>4, RequestSet DEF PaymentStart
<1>6. Loaded(w)'
    BY <1>4, <1>5 DEF Loaded
<1>7. /\ payment'[p].status = "PENDING"
      /\ \A q \in Payments : q # p => payment'[q] = payment[q]
    BY <1>1 DEF PaymentStart, TypeOK
<1>8. PaymentsKept /\ NoNewSuccess
    BY <1>1, <1>7 DEF PaymentsKept, NoNewSuccess, Started
<1>9. Quiet
    BY <1>2, <1>8, RowsUntouched DEF Quiet
<1>. QED
    BY <1>6, <1>8, <1>9, QuietKeepsPromise DEF OneWorker

LEMMA BeginKeepsPromise ==
    ASSUME OneWorker, SerialInv, IInv', NEW w \in Workers, Begin(w)
    PROVE  PromiseKept
<1>1. TypeOK /\ Holds(w) /\ Loaded(w) /\ request[w] \in Requests
    BY DEF SerialInv, IInv, RowsExist, TypeOK
<1>2. UNCHANGED <<order, payment, used_count, granted, captured>>
    BY DEF Begin, shop
<1>3. PICK row : row = order[request[w].order]
    OBVIOUS
<1>4. PICK req : req = [request[w] EXCEPT
                          !.step = "commit",
                          !.missing = {c \in row.courses : granted[row.user][c] = 0}]
    OBVIOUS
<1>5. row.courses \subseteq Courses
    BY <1>1, <1>3 DEF Begin, At, Holds, TypeOK, Placed, OrderRows
<1>6. /\ req \in Requests /\ req.step = "commit"
      /\ req.order = request[w].order /\ req.payment = request[w].payment
    BY <1>1, <1>4, <1>5 DEF Requests, Steps
<1>7. request'[w] = req
    BY <1>1, <1>3, <1>4, <1>6, RequestSet DEF Begin
<1>8. Loaded(w)'
    BY <1>1, <1>2, <1>6, <1>7 DEF Loaded, Begin, At
<1>. QED
    BY <1>2, <1>8, NothingWritten DEF OneWorker

LEMMA OutsideKeepsPromise ==
    ASSUME SerialInv, IInv', NEW p \in Payments,
           Expire(p) \/ \E decision \in {"success", "failed"} : Decide(p, decision)
    PROVE  PromiseKept
<1>1. TypeOK /\ \A w \in Workers : Holds(w) /\ Loaded(w)
    BY DEF SerialInv, IInv, RowsExist
<1>2. UNCHANGED <<order, used_count, granted, captured, request>>
    BY DEF Expire, Decide, shop
<1>3. PaymentsKept /\ Quiet /\ NoNewSuccess
    <2>1. CASE Expire(p)
        BY <2>1, RowsUntouched DEF Expire, shop, Quiet
    <2>2. ASSUME NEW decision \in {"success", "failed"}, Decide(p, decision)
          PROVE  Quiet /\ NoNewSuccess
        <3>1. p \in Started /\ payment[p] \in PaymentRows
            BY <1>1, <2>2 DEF Decide, Started, TypeOK
        <3>2. PICK row : row = [payment[p] EXCEPT !.decision = decision]
            OBVIOUS
        <3>3. row \in PaymentRows /\ row.order = payment[p].order /\ row.status = payment[p].status
            BY <3>1, <3>2 DEF PaymentRows, Decisions
        <3>4. payment' = [payment EXCEPT ![p] = row]
            BY <2>2, <3>2 DEF Decide
        <3>. QED
            BY <1>1, <1>2, <3>1, <3>3, <3>4, PaymentIsQuiet
    <2>. QED
        BY <2>1, <2>2 DEF Quiet
<1>4. ASSUME NEW w \in Workers PROVE Loaded(w)'
    BY <1>1, <1>2, <1>3 DEF Loaded, Holds, PaymentsKept
<1>. QED
    BY <1>3, <1>4, QuietKeepsPromise

LEMMA GatewayAnswers ==
    ASSUME OneWorker, SerialInv, IInv', NEW w \in Workers, GatewayAccepts(w) \/ GatewayRejects(w)
    PROVE  PromiseKept
<1>1. TypeOK /\ request[w].payment # None
    BY DEF SerialInv, IInv, RowsExist, Holds, GatewayAccepts, GatewayRejects, At
<1>2. PICK p : p = request[w].payment
    OBVIOUS
<1>3. p \in Started /\ payment[p] \in PaymentRows
    BY <1>1, <1>2, HeldPayment DEF SerialInv
<1>4. PICK row : \/ row = [payment[p] EXCEPT !.authority = TRUE] /\ GatewayAccepts(w)
                 \/ row = [payment[p] EXCEPT !.status = "FAILED"] /\ GatewayRejects(w)
    OBVIOUS
<1>5. /\ row \in PaymentRows /\ row.order = payment[p].order
      /\ row.status \in {payment[p].status, "FAILED"}
    BY <1>3, <1>4 DEF PaymentRows, PaymentStatus
<1>6. payment' = [payment EXCEPT ![p] = row]
    BY <1>2, <1>4 DEF GatewayAccepts, GatewayRejects, SetPayment
<1>7. Quiet /\ NoNewSuccess
    BY <1>1, <1>3, <1>5, <1>6, PaymentIsQuiet DEF GatewayAccepts, GatewayRejects
<1>. QED
    BY <1>1, <1>7, IdleIsLoaded, QuietKeepsPromise DEF GatewayAccepts, GatewayRejects

LEMMA FailPaymentKeepsPromise ==
    ASSUME OneWorker, SerialInv, IInv', NEW w \in Workers, FailPayment(w)
    PROVE  PromiseKept
<1>1. /\ TypeOK /\ Holds(w) /\ Loaded(w) /\ request[w] \in Requests
      /\ request[w].payment # None /\ request[w].order \in Placed
    BY DEF SerialInv, IInv, RowsExist, TypeOK, Holds, FailPayment, At, AmountDiffers
<1>2. PICK p : p = request[w].payment
    OBVIOUS
<1>3. p \in Started /\ payment[p] \in PaymentRows
    BY <1>1, <1>2, HeldPayment DEF SerialInv
<1>4. PICK row : row = [payment[p] EXCEPT !.status = "FAILED"]
    OBVIOUS
<1>5. /\ row \in PaymentRows /\ row.order = payment[p].order
      /\ row.status \in {payment[p].status, "FAILED"}
    BY <1>3, <1>4 DEF PaymentRows, PaymentStatus
<1>6. payment' = [payment EXCEPT ![p] = row]
    BY <1>2, <1>4 DEF FailPayment, SetPayment
<1>7. Quiet /\ NoNewSuccess
    BY <1>1, <1>3, <1>5, <1>6, PaymentIsQuiet DEF FailPayment
<1>8. CASE Return(w)
    BY <1>1, <1>7, <1>8, IdleIsLoaded, QuietKeepsPromise
<1>9. CASE request[w].status = "PENDING" /\ Goto(w, "fail_order")
    <2>1. PICK req : req = [request[w] EXCEPT !.step = "fail_order"]
        OBVIOUS
    <2>2. req \in Requests /\ req.step = "fail_order" /\ req.order = request[w].order
        BY <1>1, <2>1 DEF Requests, Steps
    <2>3. request'[w] = req
        BY <1>1, <1>9, <2>1, <2>2, RequestSet DEF Goto
    <2>4. ~IsPaid(order[request[w].order].status)
        BY <1>1, <1>9 DEF FailPayment, At, Loaded, IsPaid
    <2>5. order' = order
        BY DEF FailPayment
    <2>6. Loaded(w)'
        BY <2>2, <2>3, <2>4, <2>5 DEF Loaded
    <2>. QED
        BY <1>7, <2>6, QuietKeepsPromise DEF OneWorker
<1>. QED
    BY <1>8, <1>9 DEF FailPayment

LEMMA RequestEnds ==
    ASSUME OneWorker, SerialInv, IInv', NEW w \in Workers, Rollback(w) \/ Crash(w)
    PROVE  PromiseKept
<1>1. TypeOK
    BY DEF SerialInv, IInv
<1>2. UNCHANGED <<order, payment, used_count, granted, captured>> /\ Return(w)
    BY DEF Rollback, Crash, shop
<1>. QED
    BY <1>1, <1>2, IdleIsLoaded, NothingWritten

(* The callback that finds its order paid succeeds, and the order it has   *)
(* loaded is still paid.                                                   *)
LEMMA OrderAlreadyPaidKeepsPromise ==
    ASSUME OneWorker, SerialInv, IInv', NEW w \in Workers, OrderAlreadyPaid(w)
    PROVE  PromiseKept
<1>1. TypeOK /\ Holds(w) /\ Loaded(w)
    BY DEF SerialInv, IInv, RowsExist
<1>2. PICK p \in Started : p = request[w].payment
    BY <1>1 DEF Holds, OrderAlreadyPaid, At
<1>3. payment[p].order = request[w].order /\ request[w].order \in Placed
    BY <1>1, <1>2 DEF Holds, OrderAlreadyPaid, At
<1>4. payment[p].order \in Paid
    BY <1>1, <1>3 DEF OrderAlreadyPaid, At, Loaded, Paid
<1>5. SetPayment(p, "SUCCESS")
    BY <1>2 DEF OrderAlreadyPaid
<1>6. PICK row \in PaymentRows : /\ row.order = payment[p].order
                                 /\ payment' = [payment EXCEPT ![p] = row]
    BY <1>1, <1>5, PaymentStatusSet DEF PaymentStatus
<1>7. Started' = Started /\ PaymentsKept /\ \A q \in Started : q # p => payment'[q] = payment[q]
    BY <1>1, <1>6, PaymentSet DEF TypeOK, Started
<1>8. Quiet
    BY <1>7, RowsUntouched DEF Quiet, OrderAlreadyPaid
<1>9. SuccessIsPaid'
    BY <1>4, <1>7, <1>8 DEF SuccessIsPaid, SerialInv, Quiet, PaymentsKept
<1>. QED
    BY <1>1, <1>8, <1>9, IdleIsLoaded, QuietSells, QuietCounts
       DEF OrderAlreadyPaid, SerialInv, PromiseKept, Quiet

LEMMA BasketIsBasket ==
    ASSUME TypeOK, NEW o \in Placed
    PROVE  Basket(o) \in Sale!Baskets /\ Basket(o) # None
<1>1. order[o] \in OrderRows
    BY DEF TypeOK, Placed
<1>2. Basket(o) \in Sale!Baskets
    BY <1>1 DEF Basket, Placed, OrderRows, Sale!Baskets
<1>. QED
    BY <1>2, NoneIsNoBasket

(* The gateway's answer backs the order.                                   *)
LEMMA GatewayConfirmsKeepsPromise ==
    ASSUME OneWorker, SerialInv, IInv', NEW w \in Workers, GatewayConfirms(w)
    PROVE  PromiseKept
<1>1. TypeOK /\ captured \subseteq Started /\ Holds(w) /\ Loaded(w) /\ request[w] \in Requests
    BY DEF SerialInv, IInv, RowsExist, TypeOK
<1>2. UNCHANGED <<order, payment, used_count, granted>>
    BY DEF GatewayConfirms, shop
<1>3. PICK p : p = request[w].payment
    OBVIOUS
<1>4. PICK o \in Placed : o = request[w].order /\ o = payment[p].order
    BY <1>1, <1>3 DEF GatewayConfirms, At, Holds
<1>5. captured' = captured \cup {p}
    BY <1>3 DEF GatewayConfirms
<1>6. Sale!Capture(o)
    <2>1. Basket(o) # None /\ o \in Orders
        BY <1>1, <1>4, BasketIsBasket DEF Placed
    <2>2. \A i \in Orders : Basket(i)' = Basket(i)
        BY <1>2 DEF Basket
    <2>3. {i \in Placed : Backed(i)}' = {i \in Placed : Backed(i)} \cup {o}
        BY <1>2, <1>4, <1>5 DEF Backed, Placed
    <2>4. Paid' = Paid
        BY <1>2 DEF Paid, Placed
    <2>5. [i \in Orders |-> Basket(i)]' = [i \in Orders |-> Basket(i)]
        BY <2>2
    <2>. QED
        BY <1>2, <2>1, <2>3, <2>4, <2>5 DEF Sale!Capture
<1>7. PICK req : req = [request[w] EXCEPT !.step = "settle"]
    OBVIOUS
<1>8. /\ req \in Requests /\ req.step = "settle"
      /\ req.order = request[w].order /\ req.payment = request[w].payment
    BY <1>1, <1>7 DEF Requests, Steps
<1>9. request'[w] = req
    BY <1>1, <1>7, <1>8, RequestSet DEF GatewayConfirms, Goto
<1>10. Loaded(w)'
    BY <1>1, <1>2, <1>3, <1>4, <1>8, <1>9 DEF Loaded, GatewayConfirms, At
<1>11. SuccessIsPaid' /\ UsesAreExact' /\ Paid \subseteq Paid'
    BY <1>2 DEF SerialInv, SuccessIsPaid, UsesAreExact, Paid, Placed, Started, IsPaid
<1>12. Sale!Next
    BY <1>4, <1>6 DEF Sale!Next, Placed
<1>. QED
    BY <1>10, <1>11, <1>12 DEF SerialInv, PromiseKept, OneWorker

(* A new order is placed, and backed if it costs nothing.                  *)
LEMMA CheckoutKeepsPromise ==
    ASSUME OneWorker, SerialInv, IInv', NEW w \in Workers, NEW u \in Users,
           NEW S \in SUBSET Courses, NEW k \in Coupons \cup {None}, NEW o \in Orders,
           Checkout(w, u, S, k, o)
    PROVE  PromiseKept
<1>1. TypeOK /\ TypeOK' /\ captured \subseteq Started /\ o \notin Placed
    BY DEF SerialInv, IInv, RowsExist, Checkout, IsNextKey, Placed
<1>2. UNCHANGED <<payment, used_count, granted, captured>>
    BY DEF Checkout
<1>3. PICK row : row = NewOrder(u, S, k)
    OBVIOUS
<1>4. /\ row \in OrderRows /\ row # None /\ row.status = "PENDING"
      /\ row.user = u /\ row.courses = S /\ row.coupon = k /\ row.total = Total(S, k)
    BY <1>3, TotalIsNat, NoneIsNoRow DEF NewOrder, OrderRows, OrderStatus
<1>5. order'[o] = row /\ \A i \in Orders : i # o => order'[i] = order[i]
    BY <1>1, <1>3 DEF Checkout, TypeOK
<1>6. Placed' = Placed \cup {o} /\ Paid' = Paid
    <2>1. Placed' = Placed \cup {o}
        BY <1>4, <1>5 DEF Placed
    <2>2. Paid' = Paid
        BY <1>1, <1>4, <1>5, <2>1 DEF Paid, IsPaid, Placed
    <2>. QED
        BY <2>1, <2>2
<1>7. Sale!Place(o, Basket(o)', row.total = 0)
    <2>1. Basket(o) = None
        BY <1>1 DEF Basket, Placed
    <2>2. \A i \in Orders : i # o => Basket(i)' = Basket(i)
        BY <1>5 DEF Basket
    <2>3. [i \in Orders |-> Basket(i)]' = [[i \in Orders |-> Basket(i)] EXCEPT ![o] = Basket(o)']
        BY <2>2
    <2>4. \A i \in Placed : Backed(i)' <=> Backed(i)
        BY <1>1, <1>2, <1>5 DEF Backed, Placed
    <2>5. Backed(o)' <=> row.total = 0
        BY <1>1, <1>2, <1>5 DEF Backed, SerialInv, IInv, RowsExist
    <2>6. {i \in Placed : Backed(i)}' = IF row.total = 0 THEN {i \in Placed : Backed(i)} \cup {o}
                                        ELSE {i \in Placed : Backed(i)}
        BY <1>6, <2>4, <2>5
    <2>. QED
        BY <1>2, <1>6, <2>1, <2>3, <2>6 DEF Sale!Place
<1>8. Basket(o)' \in Sale!Baskets
    BY <1>4, <1>5 DEF Basket, Sale!Baskets
<1>9. Sale!Next
    BY <1>7, <1>8 DEF Sale!Next
<1>10. UsesAreExact'
    <2>1. \A c \in Coupons : {i \in Paid : order[i].coupon = c}' = {i \in Paid : order[i].coupon = c}
        BY <1>1, <1>5, <1>6 DEF Paid, Placed
    <2>. QED
        BY <1>2, <2>1 DEF SerialInv, UsesAreExact
<1>11. SuccessIsPaid'
    BY <1>2, <1>6 DEF SerialInv, SuccessIsPaid, Started
<1>12. Loaded(w)'
    <2>1. CASE row.total = 0
        <3>1. PICK req : req = [Idle EXCEPT !.step = "settle", !.order = o, !.status = "PENDING"]
            OBVIOUS
        <3>2. /\ req \in Requests /\ req.step = "settle"
              /\ req.order = o /\ req.payment = None
            BY <3>1 DEF Idle, Requests, Steps, Decisions, OrderStatus
        <3>3. request'[w] = req
            BY <1>1, <1>5, <2>1, <3>1, <3>2, RequestSet DEF Checkout, SettleIfFree
        <3>. QED
            BY <1>4, <1>5, <3>2, <3>3 DEF Loaded, IsPaid
    <2>2. CASE row.total # 0
        BY <1>5, <2>2 DEF Checkout, SettleIfFree, At, Loaded
    <2>. QED
        BY <2>1, <2>2
<1>. QED
    BY <1>6, <1>9, <1>10, <1>11, <1>12 DEF SerialInv, PromiseKept, OneWorker

(* The transaction sells an order that is backed and has not been sold.    *)
LEMMA CommitKeepsPromise ==
    ASSUME OneWorker, SerialInv, IInv', NEW w \in Workers, Commit(w)
    PROVE  PromiseKept
<1>1. TypeOK /\ captured \subseteq Started /\ Holds(w) /\ Loaded(w) /\ Settles(w)
    BY DEF SerialInv, IInv, RowsExist, SettlersAreBacked
<1>2. PICK o \in Placed : o = request[w].order
    BY <1>1 DEF Commit, At, Holds
<1>3. PICK p : p = request[w].payment
    OBVIOUS
<1>4. o \notin Paid /\ Backed(o)
    BY <1>1, <1>2 DEF Commit, At, Loaded, Settles, Paid
<1>5. SetStatus(o, "PAID")
    BY <1>2 DEF Commit, MarkPaid
<1>6. OrdersKept /\ Placed' = Placed
    BY <1>1, <1>5, StatusSet DEF OrderStatus
<1>7. order'[o].status = "PAID" /\ \A i \in Placed : i # o => order'[i] = order[i]
    BY <1>1, <1>5 DEF TypeOK, Placed, SetStatus, OrderRows
<1>8. Paid' = Paid \cup {o}
    BY <1>6, <1>7 DEF Paid, IsPaid
<1>9. /\ Started' = Started /\ PaymentsKept
      /\ \A q \in Started : q # p => payment'[q] = payment[q]
      /\ p # None => p \in Started /\ payment[p].order = o
    <2>1. CASE p = None
        BY <1>3, <2>1, NoPaymentChange DEF Commit
    <2>2. CASE p # None
        <3>1. p \in Started /\ payment[p].order = o
            BY <1>1, <1>2, <1>3, <2>2 DEF Holds, Loaded, Commit, At
        <3>2. SetPayment(p, "SUCCESS")
            BY <1>3, <2>2 DEF Commit
        <3>3. PICK row \in PaymentRows : /\ row.order = payment[p].order
                                         /\ payment' = [payment EXCEPT ![p] = row]
            BY <1>1, <3>1, <3>2, PaymentStatusSet DEF PaymentStatus
        <3>. QED
            BY <1>1, <3>1, <3>3, PaymentSet DEF TypeOK, Started
    <2>. QED
        BY <2>1, <2>2
<1>10. SuccessIsPaid'
    <2> SUFFICES ASSUME NEW q \in Started, payment'[q].status = "SUCCESS"
                 PROVE  payment'[q].order \in Paid'
        BY <1>9 DEF SuccessIsPaid
    <2>1. payment'[q].order = payment[q].order
        BY <1>9 DEF PaymentsKept
    <2>2. CASE q = p
        <3>1. p # None
            BY <2>2, NoneIsNoId, KeysAreNat DEF Started
        <3>. QED
            BY <1>8, <1>9, <2>1, <2>2, <3>1
    <2>3. CASE q # p
        BY <1>8, <1>9, <2>1, <2>3 DEF SuccessIsPaid, SerialInv
    <2>. QED
        BY <2>2, <2>3
<1>11. UsesAreExact'
    <2> SUFFICES ASSUME NEW k \in Coupons PROVE used_count'[k] = Cardinality(Uses(k)')
        BY DEF UsesAreExact, Uses
    <2>1. IsFiniteSet(Uses(k)) /\ Cardinality(Uses(k)) \in Nat
        BY UsesAreFinite
    <2>2. used_count[k] = Cardinality(Uses(k))
        BY DEF SerialInv, UsesAreExact, Uses
    <2>3. CASE k = order[o].coupon
        <3>1. Uses(k)' = Uses(k) \cup {o} /\ o \notin Uses(k)
            BY <1>4, <1>6, <1>8, <2>3 DEF Uses, OrdersKept, Paid
        <3>2. Cardinality(Uses(k) \cup {o}) = Cardinality(Uses(k)) + 1
            BY <2>1, <3>1, FS_AddElement
        <3>3. used_count'[k] = used_count[k] + 1
            BY <1>2, <2>3 DEF Commit, CountCoupon
        <3>. QED
            BY <2>2, <3>1, <3>2, <3>3
    <2>4. CASE k # order[o].coupon
        <3>1. Uses(k)' = Uses(k)
            BY <1>6, <1>8, <2>4 DEF Uses, OrdersKept, Paid
        <3>2. used_count'[k] = used_count[k] + 0
            BY <1>2, <2>4 DEF Commit, CountCoupon
        <3>. QED
            BY <2>1, <2>2, <3>1, <3>2
    <2>. QED
        BY <2>3, <2>4
<1>12. Sale!Sell(o)
    <2>1. \A i \in Orders : Basket(i)' = Basket(i)
        <3> SUFFICES ASSUME NEW i \in Orders PROVE Basket(i)' = Basket(i)
            OBVIOUS
        <3>1. CASE i \in Placed
            BY <1>6, <3>1 DEF OrdersKept, Basket, Placed
        <3>2. CASE i \notin Placed
            BY <1>6, <3>2 DEF Basket, Placed
        <3>. QED
            BY <3>1, <3>2
    <2>2. [i \in Orders |-> Basket(i)]' = [i \in Orders |-> Basket(i)]
        BY <2>1
    <2>3. captured' = captured /\ \A q \in captured : payment'[q].order = payment[q].order
        BY <1>1, <1>9 DEF Commit, PaymentsKept
    <2>4. \A i \in Placed : Backed(i)' <=> Backed(i)
        BY <1>6, <2>3 DEF Backed, OrdersKept
    <2>5. {i \in Placed : Backed(i)}' = {i \in Placed : Backed(i)}
        BY <1>6, <2>4
    <2>6. /\ Basket(o).coupon = order[o].coupon /\ Basket(o).user = order[o].user
          /\ Basket(o).courses = order[o].courses /\ o \in Orders
        BY DEF Basket, Placed
    <2>7. used_count' = [k \in Coupons |->
                            used_count[k] + (IF k = order[o].coupon THEN 1 ELSE 0)]
        BY <1>2 DEF Commit, CountCoupon
    <2>8. granted' = [u \in Users |-> [c \in Courses |->
                         granted[u][c] + (IF u = order[o].user /\ c \in order[o].courses
                                          THEN 1 ELSE 0)]]
        BY <1>2 DEF Commit, Enroll
    <2>. QED
        BY <1>4, <1>8, <2>2, <2>5, <2>6, <2>7, <2>8 DEF Sale!Sell
<1>13. Sale!Next
    BY <1>12 DEF Sale!Next, Placed
<1>. QED
    BY <1>1, <1>8, <1>10, <1>11, <1>13, IdleIsLoaded DEF Commit, SerialInv, PromiseKept

-----------------------------------------------------------------------------
LEMMA InitSerialInv == Init => SerialInv /\ Sale!Init
<1> SUFFICES ASSUME Init PROVE SerialInv /\ Sale!Init
    OBVIOUS
<1>1. Placed = {} /\ Paid = {} /\ Started = {}
    BY DEF Init, Placed, Paid, Started
<1>2. \A w \in Workers : Loaded(w)
    BY DEF Init, Idle, Loaded
<1>3. UsesAreExact
    <2>1. \A k \in Coupons : {o \in Paid : order[o].coupon = k} = {}
        BY <1>1
    <2>. QED
        BY <2>1, FS_EmptySet DEF Init, UsesAreExact
<1>4. SuccessIsPaid
    BY <1>1 DEF SuccessIsPaid
<1>5. Sale!Init
    BY <1>1 DEF Init, Sale!Init, Basket
<1>. QED
    BY <1>2, <1>3, <1>4, <1>5, InitIInv DEF SerialInv

LEMMA StepSerialInv ==
    ASSUME OneWorker, AdminStatuses = {}
    PROVE  SerialInv /\ [Next]_vars => PromiseKept
<1> SUFFICES ASSUME SerialInv, [Next]_vars PROVE PromiseKept
    OBVIOUS
<1>1. IInv'
    BY StepIInv DEF SerialInv
<1>2. ASSUME NEW w \in Workers, Customer(w) PROVE PromiseKept
    BY <1>1, <1>2, CheckoutKeepsPromise, CancelLoadKeepsPromise, PaymentStartKeepsPromise,
       CallbackLoadKeepsPromise DEF Customer
<1>3. ASSUME NEW w \in Workers, Serve(w) PROVE PromiseKept
    BY <1>1, <1>3, StatusWritten, GatewayAnswers, FailPaymentKeepsPromise,
       OrderAlreadyPaidKeepsPromise, GatewayConfirmsKeepsPromise, BeginKeepsPromise,
       CommitKeepsPromise, RequestEnds DEF Serve
<1>4. ASSUME Environment PROVE PromiseKept
    BY <1>1, <1>4, OutsideKeepsPromise, RequestEnds DEF Environment
<1>5. ASSUME UNCHANGED vars PROVE PromiseKept
    <2>1. \A w \in Workers : Loaded(w)'
        BY <1>5 DEF SerialInv, vars, Loaded
    <2>. QED
        BY <1>1, <1>5, <2>1, NothingWritten DEF vars
<1>. QED
    BY <1>2, <1>3, <1>4, <1>5 DEF Next

(* If requests do not overlap and no status is edited by hand, the         *)
(* counter of a coupon is the number of the paid orders that used it,      *)
(* wherever a request is killed.                                           *)
THEOREM UsesExact ==
    ASSUME OneWorker, AdminStatuses = {}
    PROVE  Spec => []UsesAreExact
<1>1. SerialInv /\ [Next]_vars => SerialInv'
    BY StepSerialInv DEF PromiseKept
<1>2. SerialInv => UsesAreExact
    BY DEF SerialInv
<1>. QED
    BY <1>1, <1>2, InitSerialInv, PTL DEF Spec

(* Under the same conditions a payment has succeeded only if its order is  *)
(* paid, and so, by PaidDelivered, its courses are open.                   *)
THEOREM SuccessPaid ==
    ASSUME OneWorker, AdminStatuses = {}
    PROVE  Spec => []SuccessIsPaid
<1>1. SerialInv /\ [Next]_vars => SerialInv'
    BY StepSerialInv DEF PromiseKept
<1>2. SerialInv => SuccessIsPaid
    BY DEF SerialInv
<1>. QED
    BY <1>1, <1>2, InitSerialInv, PTL DEF Spec

(* Under the same conditions a paid order is never cancelled nor failed,   *)
(* whatever callbacks and cancellations follow.                            *)
THEOREM PaidStaysPaid ==
    ASSUME OneWorker, AdminStatuses = {}
    PROVE  Spec => PaidIsFinal
<1>1. SerialInv /\ [Next]_vars => SerialInv' /\ [\A o \in Paid : IsPaid(order'[o].status)]_order
    <2> SUFFICES ASSUME SerialInv, [Next]_vars
                 PROVE  SerialInv' /\ \A o \in Paid : IsPaid(order'[o].status)
        OBVIOUS
    <2>1. PromiseKept
        BY StepSerialInv
    <2>. QED
        BY <2>1 DEF PromiseKept, Paid
<1>. QED
    BY <1>1, InitSerialInv, PTL DEF Spec, PaidIsFinal

(* Under the same conditions checkout, payment, callback and transaction   *)
(* implement a shop where a placed order is backed and then sold in one    *)
(* step and never again, though each of them is several steps and a        *)
(* request may be killed at any of them.                                   *)
THEOREM SalesAreImplemented ==
    ASSUME OneWorker, AdminStatuses = {}
    PROVE  Spec => SoldOnce
<1>1. SerialInv /\ [Next]_vars => SerialInv' /\ [Sale!Next]_(Sale!vars)
    BY StepSerialInv DEF PromiseKept
<1>. QED
    BY <1>1, InitSerialInv, PTL DEF Spec, SoldOnce, Sale!Spec
=============================================================================
