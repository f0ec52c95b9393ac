--------------------------- MODULE PortalHandlers ---------------------------
(***************************************************************************)
(* The handlers a guest, an owner or an administrator can set off beside   *)
(* the webhook: opening a checkout, the landing page's re-verification,    *)
(* retrieving a voucher, the administrator's verification of a reference,  *)
(* the owner's approval of a bank transfer, and the first use of a code.   *)
(* All of them write the tables fulfill() writes.                          *)
(***************************************************************************)
EXTENDS CheckoutStore

(* portal.initPayment: the order row, then its payment row, then the       *)
(* gateway, whose URL is returned to the customer.                         *)
InitPayment(p, o) ==
    /\ "init_payment" \in Enabled
    /\ Free(p)
    /\ order[o] = "NONE"
    /\ order' = [order EXCEPT ![o] = "AWAITING_PAYMENT"]
    /\ \E r \in FreshRefs : Start(p, "init_payment", o, r)
    /\ UNCHANGED <<payment, voucher, session, recorded, gateway, fq, pq, faults>>

(* orderId is unique: if another handler gave the order a payment row      *)
(* first, the insert throws.                                               *)
InitPaymentRow(p) ==
    LET o == proc[p].o IN
    /\ At(p, "init_payment")
    /\ IF payment[o].st = "NONE"
       THEN /\ payment' = [payment EXCEPT ![o] =
                 [st |-> "PENDING", ref |-> proc[p].r, tx |-> None, manual |-> FALSE]]
            /\ Goto(p, "init_gateway")
       ELSE /\ UNCHANGED payment
            /\ proc' = [proc EXCEPT ![p] = Idle]
    /\ UNCHANGED <<order, voucher, session, recorded, gateway, fq, pq, faults>>

InitPaymentGateway(p) ==
    /\ At(p, "init_gateway")
    /\ charge' = [charge EXCEPT ![proc[p].r] = [st |-> "open", order |-> proc[p].o]]
    /\ Return(p)
    /\ UNCHANGED <<order, payment, voucher, session, recorded, sent, acked, pq, faults>>

------------------------------------------------------------------------------
(* Three handlers verify a reference and fulfil it themselves.  They read  *)
(* the payment BEFORE the call to the gateway and write after it, with no  *)
(* condition on what the row has become.                                   *)

(* getLandingStatus: a PENDING payment is re-verified.                     *)
Landing(p, o) ==
    /\ "landing" \in Enabled
    /\ Free(p)
    /\ payment[o].st = "PENDING"
    /\ Start(p, "land_verify", o, payment[o].ref)
    /\ UNCHANGED <<order, payment, voucher, session, recorded, gateway, fq, pq, faults>>

(* Mutant: the amount is not compared.                                     *)
LandingVerifyAnyAmount(p) ==
    /\ At(p, "land_verify")
    /\ IF Succeeded(proc[p].r)
       THEN Goto(p, "land_commit") /\ UNCHANGED fq
       ELSE Return(p)
    /\ UNCHANGED <<order, payment, voucher, session, recorded, gateway, pq, faults>>

(* It accepts the full amount only.                                        *)
LandingVerify(p) ==
    /\ At(p, "land_verify")
    /\ IF charge[proc[p].r].st = "paid"
       THEN Goto(p, "land_commit") /\ UNCHANGED fq
       ELSE Return(p)
    /\ UNCHANGED <<order, payment, voucher, session, recorded, gateway, pq, faults>>

(* admin.verifyReference: any payment not FULFILLED is verified.           *)
AdminVerify(p, o) ==
    /\ "verify" \in Enabled
    /\ Free(p)
    /\ payment[o].st \notin {"NONE", "FULFILLED"}
    /\ payment[o].ref # None
    /\ Start(p, "adm_verify", o, payment[o].ref)
    /\ UNCHANGED <<order, payment, voucher, session, recorded, gateway, fq, pq, faults>>

(* It accepts any amount.                                                  *)
AdminVerifyAnswer(p) ==
    /\ At(p, "adm_verify")
    /\ IF Succeeded(proc[p].r)
       THEN Goto(p, "adm_commit") /\ UNCHANGED fq
       ELSE Return(p)
    /\ UNCHANGED <<order, payment, voucher, session, recorded, gateway, pq, faults>>

(* Both then run one array transaction.                                    *)
VerifiedCommit(p) ==
    LET o == proc[p].o IN
    /\ proc[p].pc \in {"land_commit", "adm_commit"}
    /\ payment' = [payment EXCEPT ![o].st = "FULFILLED", ![o].tx = proc[p].r]
    /\ \E v \in FreshVouchers : NewVoucher(v, o)
    /\ order' = [order EXCEPT ![o] = "PROVISIONING"]
    /\ Goto(p, "enqueue")
    /\ UNCHANGED <<session, recorded, gateway, fq, pq, faults>>

(* retrieveVoucher by payment reference.  A voucher of the payment is      *)
(* handed out, revoked or not; when it was bound to another device it is   *)
(* re-bound and its order provisioned again.  Without one, or with one     *)
(* whose time is over (time is not modelled, so with any), an unsettled    *)
(* card payment is verified.                                               *)
Retrieve(p, o) ==
    /\ "retrieve" \in Enabled
    /\ Free(p)
    /\ payment[o].st # "NONE"
    /\ \/ /\ VouchersOf(o) # {}
          /\ Start(p, "enqueue", o, None)
       \/ /\ payment[o].st = "PENDING" \/ order[o] = "AWAITING_PAYMENT"
          /\ ~payment[o].manual
          /\ Start(p, "ret_verify", o, payment[o].ref)
    /\ UNCHANGED <<order, payment, voucher, session, recorded, gateway, fq, pq, faults>>

(* Mutant: an answer is enough, whatever it says.                          *)
RetrieveVerifyAnyAnswer(p) ==
    /\ At(p, "ret_verify")
    /\ Goto(p, "ret_commit")
    /\ UNCHANGED <<order, payment, voucher, session, recorded, gateway, fq, pq, faults>>

(* It accepts any amount, too.                                             *)
RetrieveVerify(p) ==
    /\ At(p, "ret_verify")
    /\ IF Succeeded(proc[p].r)
       THEN Goto(p, "ret_commit") /\ UNCHANGED fq
       ELSE Return(p)
    /\ UNCHANGED <<order, payment, voucher, session, recorded, gateway, pq, faults>>

(* Mutant: the voucher is created after the transaction, and may not be.   *)
RetrieveCommitNotAtomic(p) ==
    LET o == proc[p].o IN
    /\ At(p, "ret_commit")
    /\ payment' = [payment EXCEPT ![o].st = "FULFILLED"]
    /\ (\E v \in FreshVouchers : NewVoucher(v, o)) \/ UNCHANGED voucher
    /\ order' = [order EXCEPT ![o] = "PAID"]
    /\ Goto(p, "enqueue")
    /\ UNCHANGED <<session, recorded, gateway, fq, pq, faults>>

(* Its transaction leaves providerTransactionId alone and the order PAID.  *)
RetrieveCommit(p) ==
    LET o == proc[p].o IN
    /\ At(p, "ret_commit")
    /\ payment' = [payment EXCEPT ![o].st = "FULFILLED"]
    /\ \E v \in FreshVouchers : NewVoucher(v, o)
    /\ order' = [order EXCEPT ![o] = "PAID"]
    /\ Goto(p, "enqueue")
    /\ UNCHANGED <<session, recorded, gateway, fq, pq, faults>>

------------------------------------------------------------------------------
(* A bank transfer: the guest says it was made, and the owner vouches.     *)

(* submitTransferRequest: an order without a payment, and a notification   *)
(* whose reference names it for approveAccess.                             *)
SubmitTransfer(o) ==
    /\ "transfer" \in Enabled
    /\ order[o] = "NONE"
    /\ order' = [order EXCEPT ![o] = "AWAITING_PAYMENT"]
    /\ UNCHANGED <<payment, voucher, session, recorded, gateway, fq, pq, proc, faults>>

(* approveAccess: the order is found, or created, and marked PAID whatever *)
(* its status; without a guest's MAC the handler then answers 400.         *)
Approve(p, o) ==
    /\ "approve" \in Enabled
    /\ Free(p)
    /\ order' = [order EXCEPT ![o] = "PAID"]
    /\ Start(p, "apr_prior", o, None) \/ UNCHANGED proc
    /\ UNCHANGED <<payment, voucher, session, recorded, gateway, fq, pq, faults>>

(* A prior approval is returned instead of a second voucher.               *)
ApprovePrior(p) ==
    LET o == proc[p].o IN
    /\ At(p, "apr_prior")
    /\ IF payment[o].st = "FULFILLED" /\ VouchersOf(o) # {}
       THEN Return(p)
       ELSE Goto(p, "apr_payment") /\ UNCHANGED fq
    /\ UNCHANGED <<order, payment, voucher, session, recorded, gateway, pq, faults>>

(* The payment row: orderId is unique, so an order that has one, settled   *)
(* or not, cannot be approved (P2002, 500).                                *)
ApprovePayment(p) ==
    LET o == proc[p].o IN
    /\ At(p, "apr_payment")
    /\ IF payment[o].st = "NONE"
       THEN /\ payment' = [payment EXCEPT ![o] =
                 [st |-> "FULFILLED", ref |-> None, tx |-> None, manual |-> TRUE]]
            /\ Goto(p, "apr_voucher")
            /\ UNCHANGED fq
       ELSE UNCHANGED payment /\ Return(p)
    /\ UNCHANGED <<order, voucher, session, recorded, gateway, pq, faults>>

(* The voucher, in no transaction with the payment.                        *)
ApproveVoucher(p) ==
    /\ At(p, "apr_voucher")
    /\ \E v \in FreshVouchers : NewVoucher(v, proc[p].o)
    /\ Goto(p, "enqueue")
    /\ UNCHANGED <<order, payment, session, recorded, gateway, fq, pq, faults>>

------------------------------------------------------------------------------
(* Mutant: the claim is not conditional on the voucher's status.           *)
RedeemUnconditional(p, v) ==
    /\ "redeem" \in Enabled
    /\ Free(p)
    /\ voucher[v].st # "NONE"
    /\ voucher' = [voucher EXCEPT ![v].st = "REDEEMED"]
    /\ proc' = [proc EXCEPT ![p] = [Idle EXCEPT !.pc = "redeem_enqueue", !.v = v]]
    /\ UNCHANGED <<order, payment, session, recorded, gateway, fq, pq, faults>>

(* vouchers.redeem on a checkout voucher: ACTIVE flips to REDEEMED by a    *)
(* conditional update; the device that owns it may claim it again; after   *)
(* the commit the voucher's own provisioning job is added.                 *)
Redeem(p, v) ==
    /\ "redeem" \in Enabled
    /\ Free(p)
    /\ voucher[v].st \in {"ACTIVE", "REDEEMED"}
    /\ \/ voucher' = [voucher EXCEPT ![v].st = "REDEEMED"]
       \/ UNCHANGED voucher
    /\ proc' = [proc EXCEPT ![p] = [Idle EXCEPT !.pc = "redeem_enqueue", !.v = v]]
    /\ UNCHANGED <<order, payment, session, recorded, gateway, fq, pq, faults>>

(* Here a refused add is not caught: see HandlerThrows.                    *)
RedeemEnqueue(p) ==
    /\ At(p, "redeem_enqueue")
    /\ pq' = ProvisionAdd(proc[p].v)
    /\ Return(p)
    /\ UNCHANGED <<order, payment, voucher, session, recorded, gateway, faults>>

PortalStep(p) ==
    \/ InitPaymentRow(p)
    \/ InitPaymentGateway(p)
    \/ LandingVerify(p)
    \/ AdminVerifyAnswer(p)
    \/ VerifiedCommit(p)
    \/ RetrieveVerify(p)
    \/ RetrieveCommit(p)
    \/ ApprovePrior(p)
    \/ ApprovePayment(p)
    \/ ApproveVoucher(p)
    \/ RedeemEnqueue(p)

=============================================================================
