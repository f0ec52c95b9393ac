----------------------------- MODULE MCCheckout -----------------------------
(* Instances of Checkout for TLC.                                          *)
EXTENDS Checkout, TLC

CONSTANTS o1, r1, r2, v1, v2, s1, s2, h1, h2, w1, m1

OneOrder == {o1}
OneRef == {r1}
TwoRefs == {r1, r2}
TwoVouchers == {v1, v2}
OneSession == {s1}
TwoSessions == {s1, s2}
TwoRequests == {h1, h2}
OneFulfilWorker == {w1}
OneProvisionWorker == {m1}

(* Requests, vouchers and sessions are interchangeable: no action and no   *)
(* property names one of them.  (Not for the runs that check liveness.)    *)
Symmetry ==
    Permutations(Requests) \cup Permutations(Vouchers) \cup Permutations(Sessions)

(* The endpoints of an instance: the card checkout as a guest uses it; the *)
(* help desk, where a payment is repaired by hand; the voucher's life after*)
(* the sale; and the least in which a customer can pay.                    *)
CardEndpoints == {"init_payment", "initialize", "status", "landing"}
DeskEndpoints == {"create_order", "initialize", "transfer", "approve", "retrieve", "verify",
                  "reconcile"}
RefundEndpoints == {"init_payment", "redeem"}
LiveEndpoints == {"init_payment", "status"}
RepairEndpoints == LiveEndpoints \cup {"reconcile"}

Reversals == {"refund.processed", "refund.failed"}
=============================================================================
