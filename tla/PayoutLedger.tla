---------------------------- MODULE PayoutLedger ----------------------------
(***************************************************************************)
(* What a venue's payouts promise: an amount is reserved out of the funds  *)
(* that are left, sent once, and then either paid or returned.  Reserved   *)
(* funds are never given away twice, and the payouts never exceed the      *)
(* venue's earnings.                                                       *)
(***************************************************************************)
EXTENDS Naturals, FiniteSets

CONSTANTS Cashouts, Amount

VARIABLES
    funds,  \* what the venue has ever earned
    payout  \* how far every payout has come

State == {"none", "reserved", "sent", "paid", "returned"}
Committed == {c \in Cashouts : payout[c] \in {"reserved", "sent", "paid"}}

(* Money is counted: a payout is worth as many units as its amount.        *)
Units(cs) == UNION {{c} \X (1 .. Amount[c]) : c \in cs}
Total(cs) == Cardinality(Units(cs))

Init ==
    /\ funds = 0
    /\ payout = [c \in Cashouts |-> "none"]

Earn == funds' > funds /\ UNCHANGED payout

(* The steps of one payout; a reservation needs funds that nothing else    *)
(* holds.                                                                  *)
Step == {<<"none", "reserved">>, <<"reserved", "sent">>, <<"sent", "paid">>,
         <<"sent", "returned">>, <<"paid", "returned">>}

Move(c) ==
    /\ payout'[c] # payout[c]
    /\ <<payout[c], payout'[c]>> \in Step
    /\ payout' = [payout EXCEPT ![c] = payout'[c]]
    /\ payout'[c] = "reserved" => Total(Committed \cup {c}) <= funds
    /\ UNCHANGED funds

Next == Earn \/ \E c \in Cashouts : Move(c)

Spec == Init /\ [][Next]_<<funds, payout>>

=============================================================================
