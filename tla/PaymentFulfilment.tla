------------------------- MODULE PaymentFulfilment -------------------------
(***************************************************************************)
(* fulfill(): the handler that turns a successful gateway transaction into *)
(* a voucher.  The payment-fulfilment worker runs it for a job and         *)
(* orders.status runs it in line, as a fallback, on the customer's poll,   *)
(* so several of them can work on one reference at once.                   *)
(***************************************************************************)
EXTENDS CheckoutStore

(* A worker takes a waiting job.                                           *)
TakeFulfilJob(w, r) ==
    /\ Free(w)
    /\ fq[r].st = "waiting"
    /\ fq' = [fq EXCEPT ![r].st = "active"]
    /\ Start(w, "ful_verify", None, r)
    /\ UNCHANGED <<order, payment, voucher, session, recorded, gateway, pq, faults>>

(* orders.status: the fallback trigger runs fulfill() while the order is   *)
(* unpaid or the payment is PENDING.                                       *)
PollStatus(p, o) ==
    /\ "status" \in Enabled
    /\ Free(p)
    /\ payment[o].ref # None
    /\ order[o] = "AWAITING_PAYMENT" \/ payment[o].st = "PENDING"
    /\ Start(p, "ful_verify", None, payment[o].ref)
    /\ UNCHANGED <<order, payment, voucher, session, recorded, gateway, fq, pq, faults>>

(* Mutant: the amount is compared the wrong way round (<= for <), so that  *)
(* an exact payment counts as short.                                       *)
FulfilVerifyExactIsShort(p) ==
    /\ At(p, "ful_verify")
    /\ IF Succeeded(proc[p].r)
       THEN /\ proc' = [proc EXCEPT ![p].pc = "ful_load", ![p].flag = TRUE]
            /\ UNCHANGED fq
       ELSE Return(p)
    /\ UNCHANGED <<order, payment, voucher, session, recorded, gateway, pq, faults>>

(* The gateway answers: only a successful transaction goes on, and the     *)
(* amount it reports travels with the handler.  (A reference the gateway   *)
(* does not know makes the call throw; only orders.status can ask for one, *)
(* and it swallows the error.)                                             *)
FulfilVerify(p) ==
    /\ At(p, "ful_verify")
    /\ IF Succeeded(proc[p].r)
       THEN /\ proc' = [proc EXCEPT ![p].pc = "ful_load",
                                    ![p].flag = charge[proc[p].r].st = "short"]
            /\ UNCHANGED fq
       ELSE Return(p)
    /\ UNCHANGED <<order, payment, voucher, session, recorded, gateway, pq, faults>>

(* The payment row of the reference, and the underpayment guard.           *)
FulfilLoad(p) ==
    /\ At(p, "ful_load")
    /\ \/ /\ PaymentOrders(proc[p].r) = {}
          /\ Return(p)
       \/ \E o \in PaymentOrders(proc[p].r) :
             /\ proc' = [proc EXCEPT
                    ![p].o = o,
                    ![p].pc = IF proc[p].flag THEN "ful_underpaid" ELSE "ful_read"]
             /\ UNCHANGED fq
    /\ UNCHANGED <<order, payment, voucher, session, recorded, gateway, pq, faults>>

FulfilUnderpaid(p) ==
    /\ At(p, "ful_underpaid")
    /\ order' = [order EXCEPT ![proc[p].o] = "REFUND_REQUIRED"]
    /\ Return(p)
    /\ UNCHANGED <<payment, voucher, session, recorded, gateway, pq, faults>>

(* The transaction's first statement: a plain SELECT, which locks nothing. *)
FulfilRead(p) ==
    /\ At(p, "ful_read")
    /\ IF payment[proc[p].o].st = "FULFILLED"
       THEN Return(p)
       ELSE Goto(p, "ful_commit") /\ UNCHANGED fq
    /\ UNCHANGED <<order, payment, voucher, session, recorded, gateway, pq, faults>>

(* Mutant: the order gets a payment status.                                *)
FulfilCommitWrongStatus(p) ==
    LET o == proc[p].o IN
    /\ At(p, "ful_commit")
    /\ payment' = [payment EXCEPT ![o].st = "FULFILLED", ![o].tx = proc[p].r]
    /\ \E v \in FreshVouchers : NewVoucher(v, o)
    /\ order' = [order EXCEPT ![o] = "FULFILLED"]
    /\ Goto(p, "enqueue")
    /\ UNCHANGED <<session, recorded, gateway, fq, pq, faults>>

(* Mutant: the voucher is not in the payment's transaction and may fail.   *)
FulfilCommitNotAtomic(p) ==
    LET o == proc[p].o IN
    /\ At(p, "ful_commit")
    /\ payment' = [payment EXCEPT ![o].st = "FULFILLED", ![o].tx = proc[p].r]
    /\ (\E v \in FreshVouchers : NewVoucher(v, o)) \/ UNCHANGED voucher
    /\ order' = [order EXCEPT ![o] = "PROVISIONING"]
    /\ Goto(p, "enqueue")
    /\ UNCHANGED <<session, recorded, gateway, fq, pq, faults>>

(* The transaction's writes, visible at once when it commits.              *)
FulfilCommit(p) ==
    LET o == proc[p].o IN
    /\ At(p, "ful_commit")
    /\ payment' = [payment EXCEPT ![o].st = "FULFILLED", ![o].tx = proc[p].r]
    /\ \E v \in FreshVouchers : NewVoucher(v, o)
    /\ order' = [order EXCEPT ![o] = "PROVISIONING"]
    /\ Goto(p, "enqueue")
    /\ UNCHANGED <<session, recorded, gateway, fq, pq, faults>>

(* The hand-off to provisioning that ends fulfill() and the portal's and   *)
(* the administrator's handlers; a refused add is swallowed.               *)
EnqueueProvisioning(p) ==
    /\ At(p, "enqueue")
    /\ \/ pq' = ProvisionAdd(proc[p].o) /\ UNCHANGED faults
       \/ Fault /\ UNCHANGED pq
    /\ Return(p)
    /\ UNCHANGED <<order, payment, voucher, session, recorded, gateway>>

FulfilStep(p) ==
    \/ FulfilVerify(p)
    \/ FulfilLoad(p)
    \/ FulfilUnderpaid(p)
    \/ FulfilRead(p)
    \/ FulfilCommit(p)
    \/ EnqueueProvisioning(p)

=============================================================================
