SPECIFICATION Spec
CONSTANTS
    u1 = u1
    c1 = c1
    c2 = c2
    k1 = k1
    w1 = w1
    w2 = w2
    None = None
    Users = {u1}
    Courses = {c1}
    Coupons = {k1}
    Orders = {1, 2}
    Payments = {1, 2}
    Workers = {w1, w2}
    Subtotal <- MCSubtotal
    CouponRow <- MCPercentCoupon
    AdminStatuses = {}
    MaxCrashes = 0
INVARIANTS
    VerifiedOnce
CHECK_DEADLOCK FALSE
