------------------------------ MODULE Checkout ------------------------------
(***************************************************************************)
(* The checkout: the payment-fulfilment worker, the webhook, the portal's, *)
(* owner's and administrator's handlers and the provisioning worker over   *)
(* one database, with the faults they meet, and what they promise together.*)
(***************************************************************************)
EXTENDS PaymentFulfilment, PaystackHooks, PortalHandlers, Provisioning

(* An await throws (the database, the gateway or Redis refuses).  A job's  *)
(* attempt fails; an HTTP handler answers 500 or swallows the error, and   *)
(* its locals are gone.  The hand-off to provisioning never throws: see    *)
(* EnqueueProvisioning.                                                    *)
HandlerThrows(p) ==
    /\ ~Free(p)
    /\ ~At(p, "enqueue")
    /\ Fault
    /\ proc' = [proc EXCEPT ![p] = Idle]
    /\ fq' = IF p \in FulfilWorkers
             THEN [fq EXCEPT ![proc[p].r] = Retried(@)] ELSE fq
    /\ pq' = IF p \in ProvisionWorkers
             THEN [pq EXCEPT ![JobOf(p)] = Retried(@)] ELSE pq
    /\ UNCHANGED <<order, payment, voucher, session, recorded, gateway>>

(* The process dies and restarts: every handler is gone, the database and  *)
(* Redis are not, and BullMQ takes the active jobs for stalled.            *)
Crash ==
    /\ \E p \in Procs : ~Free(p)
    /\ Fault
    /\ proc' = [p \in Procs |-> Idle]
    /\ fq' = [r \in Refs |-> Stalled(fq[r])]
    /\ pq' = [j \in Orders \cup Vouchers |-> Stalled(pq[j])]
    /\ UNCHANGED <<order, payment, voucher, session, recorded, gateway>>

StartRequest(p) ==
    \/ \E o \in Orders :
          \/ InitPayment(p, o)
          \/ InitializeRead(p, o)
          \/ PollStatus(p, o)
          \/ Landing(p, o)
          \/ AdminVerify(p, o)
          \/ Retrieve(p, o)
          \/ Approve(p, o)
          \/ Reconcile(p, o)
    \/ \E v \in Vouchers : Redeem(p, v)
    \/ \E e \in sent : Deliver(p, e)

RequestStep(p) == FulfilStep(p) \/ InitializeStep(p) \/ HookStep(p) \/ PortalStep(p)

FulfilWorker(w) == (\E r \in Refs : TakeFulfilJob(w, r)) \/ FulfilStep(w)

ProvisionWorker(w) ==
    \/ \E o \in Orders : TakeOrderJob(w, o)
    \/ \E v \in Vouchers : TakeVoucherJob(w, v)
    \/ ProvisionStep(w)

Gateway == \E r \in Refs : GatewaySuccess(r) \/ GatewayReversal(r)

Next ==
    \/ \E p \in Requests : StartRequest(p) \/ RequestStep(p)
    \/ \E w \in FulfilWorkers : FulfilWorker(w)
    \/ \E w \in ProvisionWorkers : ProvisionWorker(w)
    \/ \E o \in Orders : CreateOrder(o) \/ SubmitTransfer(o)
    \/ Gateway
    \/ \E p \in Procs : HandlerThrows(p)
    \/ Crash

Spec == Init /\ [][Next]_vars

------------------------------------------------------------------------------
(* Fairness.  Node resumes every handler whose await is over, and BullMQ's *)
(* workers take waiting jobs.                                              *)

ServerFairness ==
    /\ \A p \in Requests : WF_vars(RequestStep(p))
    /\ \A w \in FulfilWorkers : WF_vars(FulfilWorker(w))
    /\ \A w \in ProvisionWorkers : WF_vars(ProvisionWorker(w))

LiveSpec == Spec /\ ServerFairness

(* Parties outside start requests again and again, so their fairness is    *)
(* strong: the gateway redelivers a charge until it is acknowledged, a     *)
(* customer's page may keep asking for the order's status, and an          *)
(* administrator may keep reconciling.                                     *)
Redelivery(r) ==
    \E p \in Requests : <<"charge.success", r>> \notin acked /\ Deliver(p, <<"charge.success", r>>)
Polling(o) == \E p \in Requests : PollStatus(p, o)

Reconciling(o) == \E p \in Requests : Reconcile(p, o)

GatewayRedelivers == \A r \in Refs : SF_vars(Redelivery(r))
CustomerPolls == \A o \in Orders : SF_vars(Polling(o))
AdministratorReconciles == \A o \in Orders : SF_vars(Reconciling(o))

------------------------------------------------------------------------------
(* Safety.                                                                 *)

(* Money settled means access granted: whichever of the five handlers      *)
(* marks a card payment FULFILLED also leaves it a voucher, whatever fails *)
(* or interleaves.  (An owner's approval may die in between.)              *)
FulfilledHasVoucher ==
    \A o \in Orders : payment[o].st = "FULFILLED" /\ ~payment[o].manual
                         => VouchersOf(o) # {}

(* No access without money: a voucher belongs to an order for which the    *)
(* gateway reported a success or which the owner approved.  The handlers   *)
(* that mint vouchers carry the gateway's answer across several awaits,    *)
(* and provisioning mints one on the strength of a queued job alone.       *)
PaidAtGateway(o, ok) == \E r \in Refs : charge[r].order = o /\ charge[r].st \in ok

AccessIsPaidFor ==
    \A v \in Vouchers : voucher[v].st # "NONE" =>
        /\ voucher[v].pay # None
        /\ \/ payment[voucher[v].pay].manual
           \/ PaidAtGateway(voucher[v].pay, {"paid", "short", "reversed"})

(* The underpayment guard: fulfill() and the landing page give access only *)
(* for the full amount.                                                    *)
UnderpaymentGuard ==
    \A v \in Vouchers : voucher[v].st # "NONE" =>
        PaidAtGateway(voucher[v].pay, {"paid"})

(* An acknowledged charge is never forgotten.  Once the webhook answers    *)
(* 200 the gateway stops redelivering: from then on either the payment is  *)
(* settled, or a job still stands for it, or it was short and its order is *)
(* marked for a refund (or served by another transaction), through         *)
(* crashes, retries and concurrent handlers.                               *)
Settled(o) == payment[o].st \in {"FULFILLED", "REFUNDED", "REVERSED"}

AcknowledgedChargeStands ==
    \A r \in Refs, o \in Orders :
        /\ <<"charge.success", r>> \in acked
        /\ payment[o].ref = r
        => \/ Settled(o)
           \/ fq[r].st # "none"
           \/ /\ charge[r].st = "short"
              /\ order[o] = "REFUND_REQUIRED" \/ VouchersOf(o) # {}

(* One session per order, though a job is retried after any failed step    *)
(* and re-added by every other handler.                                    *)
OneSessionPerOrder ==
    \A o \in Orders :
        Cardinality({s \in Sessions : session[s].st # "NONE" /\ session[s].order = o}) <= 1

(* An order shown ACTIVE to the customer has a voucher to log in with.     *)
ActiveOrderHasVoucher ==
    \A o \in Orders : order[o] = "ACTIVE" => VouchersOf(o) # {}

(* A voucher revoked after a refund stays revoked, whoever is claiming it, *)
(* committing or provisioning while the reversal runs.                     *)
RevokedStaysRevoked ==
    [][\A v \in Vouchers : voucher[v].st = "REVOKED" => voucher'[v].st = "REVOKED"]_vars

------------------------------------------------------------------------------
(* What the repository claims of the code and the code does not keep.      *)

(* "Atomic, exactly-once fulfilment": a payment has one voucher.           *)
OneVoucherPerPayment == \A o \in Orders : Cardinality(VouchersOf(o)) <= 1

(* No transaction is left "stranded with no local row": what a customer    *)
(* paid is the payment of some order.                                      *)
NoStrandedCharge ==
    \A r \in Refs : Succeeded(r) =>
        \E o \in Orders : payment[o].ref = r \/ payment[o].tx = r

(* "Revoke future access when unused": once a refund is acknowledged and   *)
(* no handler is left working on the reference, no voucher of the payment  *)
(* can still be used for the first time.                                   *)
RefundRevokesUnused ==
    \A r \in Refs, v \in Vouchers :
        /\ <<"refund.processed", r>> \in acked
        /\ \A p \in Procs : proc[p].r # r
        /\ voucher[v].st = "ACTIVE"
        => charge[r].order # voucher[v].pay

------------------------------------------------------------------------------
(* Liveness.                                                               *)

(* A customer who paid in full gets a voucher, whatever crashes, throws or *)
(* is refused on the way, once the faults stop; unless a second initialise *)
(* replaces the reference that was paid (see NoStrandedCharge).  Either    *)
(* trigger is enough: the webhook alone, or the poll alone, so that a      *)
(* dropped webhook does not leave the order PENDING.                       *)
PaidGetsVoucher ==
    GatewayRedelivers \/ CustomerPolls =>
        \A r \in Refs, o \in Orders :
            charge[r].st = "paid" /\ payment[o].ref = r
                ~> VouchersOf(o) # {} \/ payment[o].ref # r

(* A queued provisioning job ends with the order ACTIVE, or in the failed  *)
(* set after its last attempt; it is never lost.                           *)
QueuedOrderActivated ==
    \A o \in Orders :
        pq[o].st = "waiting" ~> order[o] = "ACTIVE" \/ pq[o].st = "failed"

(* A hand-off to provisioning that was refused, or lost with its handler,  *)
(* leaves a paid order PROVISIONING without a job, and fulfill() makes     *)
(* none for a payment it finds FULFILLED.  Reconciling repairs it: the     *)
(* order becomes ACTIVE, unless its job is among the failed, whose id the  *)
(* new one would have, or the payment is reversed.                         *)
StuckOrderRepaired ==
    AdministratorReconciles =>
        \A o \in Orders :
            order[o] = "PROVISIONING"
                ~> \/ order[o] = "ACTIVE"
                   \/ pq[o].st = "failed"
                   \/ payment[o].st # "FULFILLED"

=============================================================================
