-------------------------- MODULE MCActivationCodes --------------------------
(* An instance of ActivationCodes for TLC.                                 *)
EXTENDS ActivationCodes, TLC

CONSTANTS c1, e1, e2, e3, e4, e5, a1, h1, h2

OneCode == {c1}
FiveEmails == {e1, e2, e3, e4, e5}
OneApplication == {a1}
TwoRequests == {h1, h2}

(* No action and no property names an account or a slot.                   *)
Symmetry == Permutations(Emails) \cup Permutations(Requests)
=============================================================================
