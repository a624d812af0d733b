-------------------------------- MODULE Sales --------------------------------
(***************************************************************************)
(* What the shop promises, with requests, payments and failures left out:  *)
(* an order is placed, it becomes backed (its money is captured, or there  *)
(* is nothing to pay), and a backed order is sold exactly once.  The sale  *)
(* is one indivisible step: the order is sold, its coupon counts one more  *)
(* use and every course of the order is granted one more time.             *)
(***************************************************************************)
EXTENDS Naturals

CONSTANTS
    Orders,     \* order numbers
    Users,
    Courses,
    Coupons,
    None        \* an order number not in use, an order with no coupon

VARIABLES
    placed,     \* placed[o]: what order o is for, None before it is placed
    backed,     \* the orders whose money is there, or that cost nothing
    sold,       \* the orders that have been sold
    uses,       \* uses[k]: the uses of coupon k
    granted     \* granted[u][c]: how often user u was granted course c

vars == <<placed, backed, sold, uses, granted>>

Baskets == [user: Users, courses: SUBSET Courses, coupon: Coupons \cup {None}]

Init ==
    /\ placed = [o \in Orders |-> None]
    /\ backed = {}
    /\ sold = {}
    /\ uses = [k \in Coupons |-> 0]
    /\ granted = [u \in Users |-> [c \in Courses |-> 0]]

(* An order with nothing to pay is backed as soon as it is placed.         *)
Place(o, basket, free) ==
    /\ placed[o] = None
    /\ placed' = [placed EXCEPT ![o] = basket]
    /\ backed' = IF free THEN backed \cup {o} ELSE backed
    /\ UNCHANGED <<sold, uses, granted>>

Capture(o) ==
    /\ placed[o] # None
    /\ backed' = backed \cup {o}
    /\ UNCHANGED <<placed, sold, uses, granted>>

Sell(o) ==
    /\ o \in backed \ sold
    /\ sold' = sold \cup {o}
    /\ uses' = [k \in Coupons |->
                  uses[k] + (IF k = placed[o].coupon THEN 1 ELSE 0)]
    /\ granted' = [u \in Users |-> [c \in Courses |->
                     granted[u][c] + (IF u = placed[o].user /\ c \in placed[o].courses
                                      THEN 1 ELSE 0)]]
    /\ UNCHANGED <<placed, backed>>

Next ==
    \E o \in Orders :
        \/ \E basket \in Baskets, free \in BOOLEAN : Place(o, basket, free)
        \/ Capture(o)
        \/ Sell(o)

Spec == Init /\ [][Next]_vars
=============================================================================
