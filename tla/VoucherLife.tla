----------------------------- MODULE VoucherLife -----------------------------
(***************************************************************************)
(* What a voucher promises, whoever handles it: a code is issued once,     *)
(* claimed at most once, closed for good, and passes from device to device *)
(* by its one claim or by a handover to a named device, never otherwise.   *)
(***************************************************************************)
CONSTANTS Codes, Devices

VARIABLES
    claim,  \* how far every code has come
    holder  \* the device it is bound to

Progress == {<<"none", "open">>, <<"none", "closed">>, <<"open", "held">>,
             <<"open", "closed">>, <<"held", "closed">>}

Advance(c) == <<claim[c], claim'[c]>> \in Progress

(* A code is bound where it is issued and where it is claimed.             *)
Binds(c) == claim'[c] \in {"open", "held"} /\ Advance(c)

Handover(c) ==
    /\ claim[c] # "none"
    /\ claim'[c] = claim[c]
    /\ holder'[c] \in Devices

(* Codes advance in groups, as a batch or a sweep has it.                  *)
Next ==
    \A c \in Codes :
        /\ claim'[c] = claim[c] \/ Advance(c)
        /\ holder'[c] = holder[c] \/ Binds(c) \/ Handover(c)

Spec ==
    /\ \A c \in Codes : claim[c] = "none"
    /\ [][Next]_<<claim, holder>>

=============================================================================
