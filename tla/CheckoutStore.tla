---------------------------- MODULE CheckoutStore ----------------------------
(***************************************************************************)
(* The state the checkout handlers share: the Prisma tables for orders,    *)
(* payments, vouchers, sessions and webhook events, the two BullMQ queues, *)
(* the payment gateway as the handlers observe it, and the handlers        *)
(* themselves.  A handler is a process: one record holding where it is     *)
(* between two awaits and the local variables it carries across them.      *)
(*                                                                         *)
(* The database runs at READ COMMITTED: a handler that reads a row and     *)
(* writes it later may find that another handler committed in between, so  *)
(* every read and every write below is a step of its own, except where one *)
(* SQL statement does both.                                                *)
(***************************************************************************)
EXTENDS Naturals, FiniteSets

CONSTANTS
    Orders,           \* order ids
    Refs,             \* payment references
    Vouchers,         \* voucher ids: the bound on vouchers ever created
    Sessions,         \* session ids: the bound on sessions ever created
    Requests,         \* slots for HTTP handlers running at once
    FulfilWorkers,    \* consumers of the payment-fulfilment queue
    ProvisionWorkers, \* consumers of the mikrotik-provisioning queue
    Enabled,          \* the endpoints an instance exercises
    Emitted,          \* the reversal events the gateway emits in an instance
    FulfilAttempts,   \* attempts of a payment-fulfilment job
    ProvisionAttempts,\* attempts of a mikrotik-provisioning job
    MaxFaults,        \* bound on crashes, thrown awaits and refused enqueues
    HasRouter,        \* the venue has a router registered
    None              \* SQL NULL, or "not in use"

Procs == Requests \cup FulfilWorkers \cup ProvisionWorkers

Endpoint == {"create_order", "init_payment", "initialize", "status", "landing",
             "retrieve", "verify", "transfer", "approve", "redeem", "reconcile"}

REVERSAL_EVENTS == {"refund.pending", "refund.processed", "refund.failed",
                    "charge.dispute.create", "charge.dispute.remind",
                    "charge.dispute.resolve"}

ASSUME CheckoutAssumption ==
    /\ None \notin Orders \cup Refs \cup Vouchers \cup Sessions \cup REVERSAL_EVENTS
    /\ None # "charge.success"
    /\ Orders \cap Vouchers = {}
    /\ Requests \cap FulfilWorkers = {}
    /\ Requests \cap ProvisionWorkers = {}
    /\ FulfilWorkers \cap ProvisionWorkers = {}
    /\ Enabled \subseteq Endpoint
    /\ Emitted \subseteq REVERSAL_EVENTS
    /\ FulfilAttempts \in Nat \ {0}
    /\ ProvisionAttempts \in Nat \ {0}
    /\ MaxFaults \in Nat
    /\ HasRouter \in BOOLEAN

VARIABLES
    order,    \* Order.status of every order
    payment,  \* the Payment row of every order (orderId is unique)
    voucher,  \* the Voucher rows
    session,  \* the Session rows
    recorded, \* the keys of the webhook_events table
    charge,   \* the gateway's transactions, by reference
    sent,     \* the webhook events the gateway has to deliver
    acked,    \* those it got a 200 for
    fq,       \* the payment-fulfilment queue, by jobId = reference
    pq,       \* the mikrotik-provisioning queue, by order or voucher
    proc,     \* the handlers
    faults    \* crashes, thrown awaits and refused enqueues so far

gateway == <<charge, sent, acked>>
vars == <<order, payment, voucher, session, recorded, charge, sent, acked,
          fq, pq, proc, faults>>

------------------------------------------------------------------------------
(* What the tables and the queues hold.                                    *)

OrderStatus == {"NONE", "AWAITING_PAYMENT", "PAID", "PROVISIONING", "ACTIVE",
                "REFUND_REQUIRED"}
PaymentStatus == {"NONE", "PENDING", "FULFILLED", "REFUNDED", "REVERSED"}
VoucherStatus == {"NONE", "ACTIVE", "REDEEMED", "REVOKED"}

PaymentRow == [st : PaymentStatus,
               ref : Refs \cup {None},  \* providerReference
               tx : Refs \cup {None},   \* the transaction providerTransactionId names
               manual : BOOLEAN]        \* provider = 'bank_transfer'
VoucherRow == [st : VoucherStatus, pay : Orders \cup {None}]
SessionRow == [st : {"NONE", "ACTIVE"},
               order : Orders \cup {None}, voucher : Vouchers \cup {None}]

(* none, initialised but its URL not handed out, open to the customer,     *)
(* paid in full, paid short, and reversed after a payment.                 *)
ChargeState == {"none", "created", "open", "paid", "short", "reversed"}
Charge == [st : ChargeState, order : Orders \cup {None}]

JobState == {"none", "waiting", "active", "failed"}
FulfilJob == [st : JobState, left : 0 .. FulfilAttempts, stalled : BOOLEAN]
ProvisionJob == [st : JobState, left : 0 .. ProvisionAttempts, stalled : BOOLEAN]

EventType == {"charge.success"} \cup REVERSAL_EVENTS
Event == EventType \X Refs

PC == {"idle",
       "init_payment", "init_gateway",
       "reinit_gateway", "reinit_write",
       "hook_find", "hook_record", "hook_recheck", "hook_enqueue",
       "rev_find", "rev_revoke",
       "ful_verify", "ful_load", "ful_underpaid", "ful_read", "ful_commit",
       "land_verify", "land_commit", "ret_verify", "ret_commit",
       "adm_verify", "adm_commit",
       "apr_prior", "apr_payment", "apr_voucher", "redeem_enqueue",
       "enqueue",
       "prov_voucher", "prov_mint", "prov_push", "prov_session", "prov_commit",
       "vprov_push", "vprov_session", "vprov_commit"}

Handler == [pc : PC,
            o : Orders \cup {None},   \* the order the handler works on
            r : Refs \cup {None},     \* the reference it works on
            v : Vouchers \cup {None}, \* the voucher it works on
            ev : EventType \cup {None},
            todo : SUBSET Vouchers,   \* the vouchers of a reversal's snapshot
            flag : BOOLEAN]           \* short payment; a payment row was there

Idle == [pc |-> "idle", o |-> None, r |-> None, v |-> None, ev |-> None,
         todo |-> {}, flag |-> FALSE]
NoJob == [st |-> "none", left |-> 0, stalled |-> FALSE]
NoPayment == [st |-> "NONE", ref |-> None, tx |-> None, manual |-> FALSE]
NoVoucher == [st |-> "NONE", pay |-> None]
NoSession == [st |-> "NONE", order |-> None, voucher |-> None]
NoCharge == [st |-> "none", order |-> None]

TypeOK ==
    /\ order \in [Orders -> OrderStatus]
    /\ payment \in [Orders -> PaymentRow]
    /\ voucher \in [Vouchers -> VoucherRow]
    /\ session \in [Sessions -> SessionRow]
    /\ recorded \subseteq Event
    /\ charge \in [Refs -> Charge]
    /\ sent \subseteq Event
    /\ acked \subseteq Event
    /\ fq \in [Refs -> FulfilJob]
    /\ pq \in [Orders \cup Vouchers -> ProvisionJob]
    /\ proc \in [Procs -> Handler]
    /\ faults \in 0 .. MaxFaults

Init ==
    /\ order = [o \in Orders |-> "NONE"]
    /\ payment = [o \in Orders |-> NoPayment]
    /\ voucher = [v \in Vouchers |-> NoVoucher]
    /\ session = [s \in Sessions |-> NoSession]
    /\ recorded = {}
    /\ charge = [r \in Refs |-> NoCharge]
    /\ sent = {}
    /\ acked = {}
    /\ fq = [r \in Refs |-> NoJob]
    /\ pq = [j \in Orders \cup Vouchers |-> NoJob]
    /\ proc = [p \in Procs |-> Idle]
    /\ faults = 0

------------------------------------------------------------------------------
(* Handlers.                                                               *)

At(p, pc) == proc[p].pc = pc
Free(p) == At(p, "idle")

(* A handler resumes at pc with the locals it carried so far.              *)
Goto(p, pc) == proc' = [proc EXCEPT ![p].pc = pc]

(* A handler starts with these locals.                                     *)
Start(p, pc, o, r) ==
    proc' = [proc EXCEPT ![p] = [Idle EXCEPT !.pc = pc, !.o = o, !.r = r]]

(* A handler returns.  When BullMQ ran it, its job is complete and removed *)
(* (removeOnComplete).                                                     *)
Return(p) ==
    /\ proc' = [proc EXCEPT ![p] = Idle]
    /\ fq' = IF p \in FulfilWorkers THEN [fq EXCEPT ![proc[p].r] = NoJob] ELSE fq

------------------------------------------------------------------------------
(* BullMQ: add() is a no-op while a job of that id exists, in any state.   *)

NewJob(attempts) == [st |-> "waiting", left |-> attempts, stalled |-> FALSE]

FulfilAdd(r) ==
    IF fq[r].st = "none" THEN [fq EXCEPT ![r] = NewJob(FulfilAttempts)] ELSE fq

ProvisionAdd(j) ==
    IF pq[j].st = "none" THEN [pq EXCEPT ![j] = NewJob(ProvisionAttempts)] ELSE pq

(* A failed attempt: retried after a back-off while attempts are left,     *)
(* else kept in the failed set, where it keeps its id taken.               *)
Retried(job) == [job EXCEPT !.st = IF job.left > 1 THEN "waiting" ELSE "failed",
                            !.left = job.left - 1]

(* A job whose consumer died goes back to the queue, once                  *)
(* (maxStalledCount); the second time it fails.                            *)
Stalled(job) ==
    IF job.st # "active" THEN job
    ELSE [job EXCEPT !.st = IF job.stalled THEN "failed" ELSE "waiting",
                     !.stalled = TRUE]

(* A fault: bounded, so that what must eventually happen is asked of a     *)
(* system whose faults eventually stop.                                    *)
Fault == faults < MaxFaults /\ faults' = faults + 1

------------------------------------------------------------------------------
(* Queries the handlers share.                                             *)

PaymentOrders(r) == {o \in Orders : payment[o].st # "NONE" /\ payment[o].ref = r}
VouchersOf(o) == {v \in Vouchers : voucher[v].st # "NONE" /\ voucher[v].pay = o}
FreshVouchers == {v \in Vouchers : voucher[v].st = "NONE"}
Succeeded(r) == charge[r].st \in {"paid", "short"}

(* A reference no gateway transaction, payment or handler uses: the        *)
(* handlers build it from a timestamp and random characters.               *)
FreshRefs == {r \in Refs : /\ charge[r].st = "none"
                           /\ \A o \in Orders : payment[o].ref # r
                           /\ \A p \in Procs : proc[p].r # r}

NewVoucher(v, o) == voucher' = [voucher EXCEPT ![v] = [st |-> "ACTIVE", pay |-> o]]

=============================================================================
