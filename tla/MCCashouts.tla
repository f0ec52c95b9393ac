----------------------------- MODULE MCCashouts -----------------------------
(* Instances of Cashouts for TLC.                                          *)
EXTENDS Cashouts, TLC

CONSTANTS y1, y2, c1, c2, t1, t2, h1, h2

OnePayment == {y1}
TwoPayments == {y1, y2}
OneCashout == {c1}
TwoCashouts == {c1, c2}
TwoTransfers == {t1, t2}
TwoRequests == {h1, h2}

(* Two cashouts that want the same money: the second is affordable only    *)
(* after the first has been handed back.                                   *)
UnitAmounts == c1 :> 1 @@ c2 :> 1
LargeAmount == c1 :> 2

(* The cashouts are of one amount, so they are interchangeable, too.       *)
Symmetry ==
    Permutations(Payments) \cup Permutations(Cashouts)
        \cup Permutations(Transfers) \cup Permutations(Requests)
=============================================================================
