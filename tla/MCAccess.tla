------------------------------ MODULE MCAccess ------------------------------
(* Instances of Access for TLC.                                            *)
EXTENDS Access

CONSTANTS k1, k2, d1, d2, a1, a2, h1, h2, w1

TwoCodes == {k1, k2}
OneShort == {k1}
TwoDevices == {d1, d2}
TwoVenues == {a1, a2}
TwoRequests == {h1, h2}
OneWorker == {w1}

(* Two venues print codes at once, one of them synchronised meanwhile.     *)
Stock == ({"batch", "concurrent"} \X {k1, k2}) \cup ({"sync"} \X {k2})

(* A code sold over the counter: requests race for it while it lapses.     *)
Counter == {"sync", "redeem", "retrieve", "revoke", "lapse", "concurrent"} \X {k2}

(* A code sold online: the same, with the order's and the voucher's job.   *)
Online == {"sale", "redeem", "retrieve", "revoke", "concurrent"} \X {k1}

(* The worker pushes what was sold online, for the order and for a claim.  *)
Pushed == {"sale", "redeem", "push"} \X {k1}

(* The router pulls what was sold over the counter, spends it and is       *)
(* cleaned.                                                                *)
Pulled == {"sync", "redeem", "retrieve", "pull", "spend", "cleanup", "lapse"} \X {k2}

(* More codes are claimed than one script holds.                           *)
Crowded == ({"sale", "pull"} \X {k1}) \cup ({"sync", "redeem", "pull"} \X {k2})

(* Push and pull reach the router for the same code, handed to another     *)
(* device in between.                                                      *)
Both == {"sale", "retrieve", "push", "pull", "read alerts"} \X {k1}

(* A session lapses while an administrator ends it and the timer cleans.   *)
Ended == {"sale", "push", "cleanup", "overdue", "disconnect"} \X {k1}

All == {Stock, Counter, Online, Pushed, Pulled, Crowded, Both, Ended}
=============================================================================
