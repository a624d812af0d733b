----------------------------- MODULE MCPurchase -----------------------------
(* Small instances of Purchase.                                            *)
EXTENDS Purchase, TLC

CONSTANTS u1, c1, c2, k1, w1, w2

MCPrice == c1 :> 100 @@ c2 :> 250
MCSubtotal == [S \in SUBSET Courses |-> MapThenSumSet(LAMBDA c : MCPrice[c], S)]

AnyCoupon == [percent |-> FALSE, value |-> 100, max_discount_amount |-> None,
              min_order_amount |-> 0, max_uses |-> 1, per_user_limit |-> 1,
              courses |-> {}]

(* A coupon that makes the cheaper course free.                            *)
MCFixedCoupon == [k \in Coupons |-> AnyCoupon]

(* A coupon that leaves something to pay, once per customer.               *)
MCPercentCoupon ==
    [k \in Coupons |-> [AnyCoupon EXCEPT !.percent = TRUE, !.value = 55,
                                         !.max_discount_amount = 40,
                                         !.max_uses = None]]

(* A coupon for a single use that leaves something to pay.                 *)
MCSingleUseCoupon ==
    [k \in Coupons |-> [AnyCoupon EXCEPT !.value = 30, !.per_user_limit = 0]]

MCWorkerSymmetry == Permutations(Workers)
=============================================================================
