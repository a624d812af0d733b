SPECIFICATION FairSpec
CONSTANTS
    u1 = u1
    c1 = c1
    c2 = c2
    k1 = k1
    w1 = w1
    w2 = w2
    None = None
    Users = {u1}
    Courses = {c1, c2}
    Coupons = {k1}
    Orders = {1, 2}
    Payments = {1, 2}
    Workers = {w1}
    Subtotal <- MCSubtotal
    CouponRow <- MCFixedCoupon
    AdminStatuses = {}
    MaxCrashes = 1
INVARIANTS
    UsesAreExact
    SuccessIsPaid
PROPERTIES
    PaidIsFinal
    SoldOnce
    BackedIsPaid
\* Every key may be used up, with nothing left to change.
CHECK_DEADLOCK FALSE
