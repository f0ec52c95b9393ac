--------------------------- MODULE CheckoutProofs ---------------------------
(***************************************************************************)
(* No access without money, and no money without access: what every step   *)
(* leaves as it was, what a queued job and a handler between two awaits    *)
(* stand for, and the safety of Checkout that follows.                     *)
(***************************************************************************)
EXTENDS CheckoutReferences, FiniteSetTheorems

(* What every step leaves: vouchers stay their payment's, payment rows     *)
(* stay, and what the customer paid stays paid.                            *)

(* The steps that settle a payment and create its voucher.                 *)
Commit(p) == FulfilCommit(p) \/ VerifiedCommit(p) \/ RetrieveCommit(p)

(* Its order has a row, it keeps its reference and provider, and it is     *)
(* settled; a voucher of the order is created with it.                     *)
LEMMA CommitFacts ==
    ASSUME Sane, NEW p \in Procs, Commit(p)
    PROVE  /\ proc[p].o \in Orders /\ proc[p].r \in Refs /\ proc[p].pc \in VerifiedPC
           /\ payment[proc[p].o].st # "NONE"
           /\ \E v \in FreshVouchers : NewVoucher(v, proc[p].o)
           /\ Goto(p, "enqueue")
           /\ charge' = charge /\ pq' = pq
           /\ \A o \in Orders :
                 /\ payment'[o].ref = payment[o].ref /\ payment'[o].manual = payment[o].manual
                 /\ o # proc[p].o => payment'[o] = payment[o]
           /\ payment'[proc[p].o].st = "FULFILLED"
<1>1. /\ proc[p].pc \in VerifiedPC /\ proc[p].o \in Orders /\ proc[p].r \in Refs
      /\ payment[proc[p].o].st # "NONE"
  BY InHand, FulfilPlaces, PortalPlaces
     DEF Commit, FulfilCommit, VerifiedCommit, RetrieveCommit, At, VerifiedPC, VerifyPC, FulfilPC
<1>2. \A o \in Orders :
         /\ payment'[o].ref = payment[o].ref /\ payment'[o].manual = payment[o].manual
         /\ o # proc[p].o => payment'[o] = payment[o]
  BY <1>1, Parts
     DEF Commit, FulfilCommit, VerifiedCommit, RetrieveCommit, Sane, RowsOK, PaymentRow
<1>3. payment'[proc[p].o].st = "FULFILLED"
  BY <1>1, Parts
     DEF Commit, FulfilCommit, VerifiedCommit, RetrieveCommit, Sane, RowsOK, PaymentRow
<1>4. QED
  BY <1>1, <1>2, <1>3 DEF Commit, FulfilCommit, VerifiedCommit, RetrieveCommit, gateway

(* Who writes what.                                                        *)
VoucherWriters ==
    \/ voucher' = voucher
    \/ \E p \in Requests \cup FulfilWorkers : Commit(p)
    \/ \E p \in Requests : ApproveVoucher(p)
    \/ \E w \in ProvisionWorkers : ProvisionMint(w)
    \/ \E p \in Requests : ReversalRevoke(p)
    \/ \E p \in Requests, v \in Vouchers : Redeem(p, v)

PaymentWriters ==
    \/ payment' = payment
    \/ \E p \in Requests \cup FulfilWorkers : Commit(p)
    \/ \E p \in Requests :
          InitPaymentRow(p) \/ InitializeWrite(p) \/ ApprovePayment(p) \/ ReversalMark(p)

ChargeWriters ==
    \/ charge' = charge
    \/ \E p \in Requests :
          InitializeGateway(p) \/ InitializeWrite(p) \/ InitPaymentGateway(p)
    \/ \E r \in Refs : GatewaySuccess(r) \/ GatewayReversal(r)

OrderWriters ==
    \/ order' = order
    \/ \E p \in Requests \cup FulfilWorkers : Commit(p) \/ FulfilUnderpaid(p)
    \/ \E p \in Requests, o \in Orders : InitPayment(p, o) \/ Approve(p, o)
    \/ \E o \in Orders : CreateOrder(o) \/ SubmitTransfer(o)
    \/ \E w \in ProvisionWorkers :
          ProvisionPush(w) \/ ProvisionSession(w) \/ ProvisionCommit(w)

JobWriters ==
    \/ pq' = pq
    \/ \E p \in Requests \cup FulfilWorkers : EnqueueProvisioning(p)
    \/ \E p \in Requests : RedeemEnqueue(p)
    \/ \E w \in ProvisionWorkers : \/ \E o \in Orders : TakeOrderJob(w, o)
                                   \/ \E v \in Vouchers : TakeVoucherJob(w, v)
                                   \/ ProvisionStep(w) /\ Complete(w)
    \/ \E p \in Procs : HandlerThrows(p)
    \/ Crash

SessionWriters ==
    \/ session' = session
    \/ \E w \in ProvisionWorkers : ProvisionCommit(w) \/ VoucherCommit(w)

(* Every other step leaves the row alone.                                  *)
LEMMA Writers ==
    ASSUME Next
    PROVE  /\ VoucherWriters /\ PaymentWriters /\ ChargeWriters /\ OrderWriters
           /\ JobWriters /\ SessionWriters
<1> USE DEF VoucherWriters, PaymentWriters, ChargeWriters, OrderWriters, JobWriters,
            SessionWriters
<1>1. CASE \E p \in Requests : StartRequest(p)
  <2>1. CASE \E p \in Requests, o \in Orders : InitPayment(p, o) \/ Approve(p, o)
    BY <2>1 DEF InitPayment, Approve, gateway
  <2>2. CASE \E p \in Requests, v \in Vouchers : Redeem(p, v)
    BY <2>2 DEF Redeem, gateway
  <2>3. CASE \/ \E p \in Requests, o \in Orders :
                  \/ InitializeRead(p, o) \/ PollStatus(p, o) \/ Landing(p, o)
                  \/ AdminVerify(p, o) \/ Retrieve(p, o) \/ Reconcile(p, o)
             \/ \E p \in Requests, e \in sent : Deliver(p, e)
    BY <2>3 DEF InitializeRead, PollStatus, Landing, AdminVerify, Retrieve, Reconcile,
       Deliver, gateway
  <2>4. QED
    BY <1>1, <2>1, <2>2, <2>3 DEF StartRequest
<1>2. CASE \E p \in Requests \cup FulfilWorkers : FulfilStep(p)
  BY <1>2 DEF FulfilStep, FulfilVerify, FulfilLoad, FulfilUnderpaid, FulfilRead, Commit,
     FulfilCommit, EnqueueProvisioning, gateway
<1>3. CASE \E p \in Requests : InitializeStep(p) \/ HookStep(p)
  BY <1>3 DEF InitializeStep, InitializeGateway, InitializeWrite, HookStep, HookFind,
     HookRecord, HookRecheck, HookEnqueue, ReversalFind, ReversalRevoke, ReversalMark, gateway
<1>4. CASE \E p \in Requests : PortalStep(p)
  BY <1>4 DEF PortalStep, InitPaymentRow, InitPaymentGateway, LandingVerify,
     AdminVerifyAnswer, Commit, VerifiedCommit, RetrieveVerify, RetrieveCommit, ApprovePrior,
     ApprovePayment, ApproveVoucher, RedeemEnqueue, gateway
<1>5. CASE \E w \in ProvisionWorkers : ProvisionWorker(w)
  BY <1>5 DEF ProvisionWorker, TakeOrderJob, TakeVoucherJob, ProvisionStep,
     ProvisionVoucher, ProvisionMint, ProvisionPush, ProvisionSession, ProvisionCommit,
     VoucherPush, VoucherSession, VoucherCommit, gateway
<1>6. CASE \E w \in FulfilWorkers, r \in Refs : TakeFulfilJob(w, r)
  BY <1>6 DEF TakeFulfilJob, gateway
<1>7. CASE \/ \E o \in Orders : CreateOrder(o) \/ SubmitTransfer(o)
           \/ Gateway \/ (\E p \in Procs : HandlerThrows(p)) \/ Crash
  BY <1>7 DEF CreateOrder, SubmitTransfer, Gateway, GatewaySuccess,
     GatewayReversal, HandlerThrows, Crash, gateway
<1>8. QED
  BY <1>1, <1>2, <1>3, <1>4, <1>5, <1>6, <1>7 DEF Next, RequestStep, FulfilWorker

(* A voucher is created where there was none, or changes its status.       *)
VouchersLast ==
    \A v \in Vouchers : voucher[v].st # "NONE" =>
        voucher'[v].st # "NONE" /\ voucher'[v].pay = voucher[v].pay

(* A new row, and no other, is the voucher created.                        *)
LEMMA NewVoucherRow ==
    ASSUME Sane, NEW v \in FreshVouchers, NEW o, NewVoucher(v, o)
    PROVE  /\ v \in Vouchers
           /\ voucher'[v].st = "ACTIVE" /\ voucher'[v].pay = o
           /\ \A u \in Vouchers : u # v => voucher'[u] = voucher[u]
           /\ VouchersLast
BY Parts DEF Sane, RowsOK, NewVoucher, FreshVouchers, VouchersLast

(* A revocation or a claim changes a voucher's status alone, and a claim   *)
(* only that of a voucher that is not revoked.                             *)
LEMMA StatusSteps ==
    ASSUME Sane,
           \/ \E p \in Requests : ReversalRevoke(p)
           \/ \E p \in Requests, v \in Vouchers : Redeem(p, v)
    PROVE  \A v \in Vouchers :
              /\ voucher'[v].pay = voucher[v].pay
              /\ voucher[v].st # "NONE" => voucher'[v].st # "NONE"
              /\ voucher[v].st = "REVOKED" => voucher'[v].st = "REVOKED"
<1>1. voucher \in [Vouchers -> VoucherRow]
  BY Parts DEF Sane, RowsOK
<1>2. CASE \E p \in Requests : ReversalRevoke(p)
  <2>1. PICK p \in Requests : ReversalRevoke(p)
    BY <1>2
  <2>2. PICK v \in proc[p].todo : voucher' = [voucher EXCEPT ![v].st = "REVOKED"]
    BY <2>1 DEF ReversalRevoke
  <2>3. QED
    BY <1>1, <2>2 DEF VoucherRow
<1>3. CASE \E p \in Requests, v \in Vouchers : Redeem(p, v)
  <2>1. PICK v \in Vouchers :
            /\ voucher[v].st \in {"ACTIVE", "REDEEMED"}
            /\ \/ voucher' = [voucher EXCEPT ![v].st = "REDEEMED"]
               \/ voucher' = voucher
    BY <1>3 DEF Redeem
  <2>2. QED
    BY <1>1, <2>1 DEF VoucherRow
<1>4. QED
  BY <1>2, <1>3

(* So no voucher goes away, and no revocation is undone.                   *)
LEMMA VouchersStay ==
    ASSUME Sane, Next
    PROVE  /\ VouchersLast
           /\ \A v \in Vouchers : voucher[v].st = "REVOKED" => voucher'[v].st = "REVOKED"
<1>1. CASE voucher' = voucher
  BY <1>1 DEF VouchersLast
<1>2. CASE \E v \in FreshVouchers, o \in Orders \cup {None} : NewVoucher(v, o)
  BY <1>2, NewVoucherRow DEF FreshVouchers
<1>3. CASE \/ \E p \in Requests : ReversalRevoke(p)
           \/ \E p \in Requests, v \in Vouchers : Redeem(p, v)
  BY <1>3, StatusSteps DEF VouchersLast
<1>4. CASE \E p \in Requests \cup FulfilWorkers : Commit(p)
  BY <1>2, <1>4, CommitFacts, Kinds
<1>5. CASE \E p \in Requests : ApproveVoucher(p)
  BY <1>2, <1>5, Kinds, InHand, PortalPlaces DEF ApproveVoucher, At, ApprovePC
<1>6. CASE \E w \in ProvisionWorkers : ProvisionMint(w)
  <2>1. PICK w \in ProvisionWorkers : ProvisionMint(w)
    BY <1>6
  <2>2. proc[w].o \in Orders
    BY <2>1, WorkerInHand DEF ProvisionMint, At, OrderPC
  <2>3. QED
    BY <1>2, <2>1, <2>2 DEF ProvisionMint
<1>7. QED
  BY <1>1, <1>3, <1>4, <1>5, <1>6, Writers DEF VoucherWriters

(* A voucher revoked after a refund stays revoked: no claim, no            *)
(* second commit and no provisioning job ever writes over a revocation,    *)
(* whatever they had read before it.                                       *)
THEOREM RevocationIsFinal == Spec => RevokedStaysRevoked
<1>1. Sane /\ [Next]_vars =>
          [\A v \in Vouchers : voucher[v].st = "REVOKED" => voucher'[v].st = "REVOKED"]_vars
  BY VouchersStay
<1>2. QED
  BY <1>1, AlwaysSane, PTL DEF Spec, RevokedStaysRevoked

(* Payment rows stay, as what they are; a payment is settled by a commit,  *)
(* or by the owner's approval.                                             *)
LEMMA PaymentsLast ==
    ASSUME Sane, Next, NEW o \in Orders
    PROVE  /\ payment[o].st # "NONE" =>
                 payment'[o].st # "NONE" /\ payment'[o].manual = payment[o].manual
           /\ payment'[o].st = "FULFILLED" /\ ~payment'[o].manual =>
                 \/ payment[o].st = "FULFILLED" /\ ~payment[o].manual
                 \/ \E p \in Requests \cup FulfilWorkers : Commit(p) /\ proc[p].o = o
<1>1. payment \in [Orders -> PaymentRow]
  BY Parts DEF Sane, RowsOK
<1>2. CASE payment' = payment
  BY <1>2
<1>3. CASE \E p \in Requests \cup FulfilWorkers : Commit(p)
  BY <1>3, CommitFacts, Kinds
<1>4. CASE \E p \in Requests : InitPaymentRow(p) \/ ApprovePayment(p)
  <2>1. PICK p \in Requests : InitPaymentRow(p) \/ ApprovePayment(p)
    BY <1>4
  <2>2. CASE payment' = payment
    BY <2>2
  <2>3. CASE payment' # payment
    <3>1. PICK row : /\ row.st = "PENDING" \/ row.manual
                     /\ payment' = [payment EXCEPT ![proc[p].o] = row]
                     /\ payment[proc[p].o].st = "NONE"
      BY <2>1, <2>3 DEF InitPaymentRow, ApprovePayment
    <3>2. QED
      BY <1>1, <3>1
  <2>4. QED
    BY <2>2, <2>3
<1>5. CASE \E p \in Requests : InitializeWrite(p)
  BY <1>1, <1>5 DEF InitializeWrite, PaymentRow
<1>6. CASE \E p \in Requests : ReversalMark(p)
  BY <1>1, <1>6 DEF ReversalMark, PaymentRow
<1>7. QED
  BY <1>2, <1>3, <1>4, <1>5, <1>6, Writers DEF PaymentWriters

(* What a customer paid stays a payment, of the same order.                *)
LEMMA ChargesLast ==
    ASSUME Sane, Referenced, Next, NEW r \in Refs, Taken(r)
    PROVE  Taken(r)' /\ charge'[r].order = charge[r].order
<1>1. charge \in [Refs -> Charge]
  BY Parts DEF Sane, RowsOK
<1>2. CASE charge' = charge
  BY <1>2 DEF Taken
<1>3. CASE \E p \in Requests :
              InitializeGateway(p) \/ InitializeWrite(p) \/ InitPaymentGateway(p)
  <2>1. PICK p \in Requests :
                InitializeGateway(p) \/ InitializeWrite(p) \/ InitPaymentGateway(p)
    BY <1>3
  <2>2. Minting(p)
    BY <2>1
       DEF InitializeGateway, InitializeWrite, InitPaymentGateway, Minting, MintingPC, At
  <2>3. r # proc[p].r /\ proc[p].r \in Refs
    BY <2>2, MintingInHand
  <2>4. charge'[r] = charge[r]
    BY <1>1, <2>1, <2>3 DEF InitializeGateway, InitializeWrite, InitPaymentGateway
  <2>5. QED
    BY <2>4 DEF Taken
<1>4. CASE \E s \in Refs : GatewaySuccess(s) \/ GatewayReversal(s)
  <2>1. PICK s \in Refs : GatewaySuccess(s) \/ GatewayReversal(s)
    BY <1>4
  <2>2. CASE charge' = charge
    BY <2>2 DEF Taken
  <2>3. CASE charge' # charge
    <3>1. PICK st \in Ever : charge' = [charge EXCEPT ![s].st = st]
      BY <2>1, <2>3 DEF GatewaySuccess, GatewayReversal, Ever
    <3>2. QED
      BY <1>1, <3>1 DEF Taken, Charge
  <2>4. QED
    BY <2>2, <2>3
<1>5. QED
  BY <1>2, <1>3, <1>4, Writers DEF ChargeWriters

(* An order is paid for at the gateway, or by the owner's word.            *)
PaidFor(o) ==
    /\ payment[o].st # "NONE"
    /\ payment[o].manual \/ PaidAtGateway(o, Ever)

(* What is paid for stays so.                                              *)
LEMMA PaidLasts ==
    ASSUME Sane, Referenced, Next, NEW o \in Orders, PaidFor(o)
    PROVE  PaidFor(o)'
<1>1. payment'[o].st # "NONE" /\ payment'[o].manual = payment[o].manual
  BY PaymentsLast DEF PaidFor
<1>2. CASE payment[o].manual
  BY <1>1, <1>2 DEF PaidFor
<1>3. CASE PaidAtGateway(o, Ever)
  <2>1. PICK r \in Refs : charge[r].order = o /\ Taken(r)
    BY <1>3 DEF PaidAtGateway, Taken
  <2>2. Taken(r)' /\ charge'[r].order = o
    BY <2>1, ChargesLast
  <2>3. QED
    BY <1>1, <2>2 DEF PaidFor, PaidAtGateway, Taken
<1>4. QED
  BY <1>2, <1>3 DEF PaidFor

(* An order's vouchers stay its own.                                       *)
LEMMA VouchersOfLast ==
    ASSUME Sane, Next, NEW o, VouchersOf(o) # {}
    PROVE  VouchersOf(o)' # {}
<1>1. PICK v \in Vouchers : voucher[v].st # "NONE" /\ voucher[v].pay = o
  BY DEF VouchersOf
<1>2. voucher'[v].st # "NONE" /\ voucher'[v].pay = o
  BY <1>1, VouchersStay DEF VouchersLast
<1>3. QED
  BY <1>2 DEF VouchersOf

(* A handler that commits holds a transaction of the order it commits for. *)
LEMMA CommitIsPaidFor ==
    ASSUME Sane, Referenced, NEW p \in Procs, Commit(p)
    PROVE  PaidFor(proc[p].o) /\ charge[proc[p].r].order = proc[p].o
<1>1. /\ proc[p].o \in Orders /\ proc[p].r \in Refs /\ payment[proc[p].o].st # "NONE"
      /\ Taken(proc[p].r)
  BY CommitFacts DEF Referenced, Charges
<1>2. charge[proc[p].r].order \in Orders
  BY <1>1, Parts DEF Sane, RowsOK, Charge, Referenced, Charges, Taken, Ever
<1>3. Owns(proc[p].r, proc[p].o) /\ Owns(proc[p].r, charge[proc[p].r].order)
  BY DEF Owns
<1>4. charge[proc[p].r].order = proc[p].o
  BY <1>1, <1>2, <1>3 DEF Referenced, OneOwner
<1>5. QED
  BY <1>1, <1>4 DEF PaidFor, PaidAtGateway, Taken

------------------------------------------------------------------------------
(* What is granted, and on what.                                           *)

(* The owner has approved it.                                              *)
Approved(o) == payment[o].st # "NONE" /\ payment[o].manual

(* Where a provisioning worker has found its order's voucher, or minted it.*)
GrantedPC == {"prov_push", "prov_session", "prov_commit"}

(* What a handler knows of the rows it will write for.                     *)
Knows(h) ==
    /\ h.pc = "apr_voucher" => Approved(h.o)
    /\ h.pc = "enqueue" => VouchersOf(h.o) # {} \/ Approved(h.o)
    /\ h.pc = "prov_mint" => h.flag
    /\ h.pc = "rev_revoke" => \A v \in h.todo : voucher[v].st # "NONE"
    /\ h.pc \in GrantedPC => VouchersOf(h.o) # {}
    /\ h.pc = "prov_commit" =>
          \A s \in Sessions : session[s].st # "NONE" => session[s].order # h.o

VouchersPaid ==
    \A v \in Vouchers : voucher[v].st # "NONE" =>
        voucher[v].pay \in Orders /\ PaidFor(voucher[v].pay)

JobsPaid == \A o \in Orders : pq[o].st # "none" => PaidFor(o)

SessionsOnce ==
    \A s, t \in Sessions :
        /\ session[s].st # "NONE" /\ session[t].st # "NONE"
        /\ session[s].order \in Orders /\ session[s].order = session[t].order
        => s = t

Granted ==
    /\ VouchersPaid
    /\ SessionsOnce
    /\ JobsPaid
    /\ \A p \in Procs : Knows(proc[p])
    /\ FulfilledHasVoucher
    /\ ActiveOrderHasVoucher

(* A session is created for the order, or the voucher, of the worker that  *)
(* commits it, and no two workers have the same order.                     *)
LEMMA NewSessions ==
    ASSUME Sane, Next
    PROVE  \/ session' = session
           \/ \E w \in ProvisionWorkers, s \in Sessions, o \in Orders \cup {None} :
                 /\ proc'[w] = Idle
                 /\ session'[s].order = o
                 /\ \A t \in Sessions : t # s => session'[t] = session[t]
                 /\ o # None => /\ At(w, "prov_commit") /\ proc[w].o = o
                               /\ JobOf(w) = o
<1>1. CASE \E w \in ProvisionWorkers : ProvisionCommit(w) \/ VoucherCommit(w)
  <2>1. PICK w \in ProvisionWorkers : ProvisionCommit(w) \/ VoucherCommit(w)
    BY <1>1
  <2>2. w \in Procs /\ proc[w].pc \in {"prov_commit", "vprov_commit"}
    BY <2>1, Kinds DEF ProvisionCommit, VoucherCommit, At
  <2>3. proc'[w] = Idle
    BY <2>1, <2>2, Parts DEF ProvisionCommit, VoucherCommit, Complete, Sane
  <2>4. PICK s, row, o :
            /\ s \in Sessions /\ o \in Orders \cup {None}
            /\ session' = [session EXCEPT ![s] = row] /\ row.order = o
            /\ o # None => At(w, "prov_commit") /\ proc[w].o = o
    <3>1. CASE ProvisionCommit(w)
      <4>1. proc[w].o \in Orders
        BY <3>1, <2>2, WorkerInHand DEF ProvisionCommit, At, OrderPC
      <4>2. PICK s, row :
                /\ s \in Sessions
                /\ row = [st |-> "ACTIVE", order |-> proc[w].o, voucher |-> proc[w].v]
                /\ session' = [session EXCEPT ![s] = row]
        BY <3>1 DEF ProvisionCommit
      <4>3. row.order = proc[w].o /\ At(w, "prov_commit")
        BY <3>1, <4>2 DEF ProvisionCommit
      <4>4. QED
        BY <4>1, <4>2, <4>3
    <3>2. CASE VoucherCommit(w)
      <4>1. PICK s, row :
                /\ s \in Sessions
                /\ row = [st |-> "ACTIVE", order |-> None, voucher |-> proc[w].v]
                /\ session' = [session EXCEPT ![s] = row]
        BY <3>2 DEF VoucherCommit
      <4>2. row.order = None
        BY <4>1
      <4>3. QED
        BY <4>1, <4>2
    <3>3. QED
      BY <2>1, <3>1, <3>2
  <2>5. session'[s].order = o /\ \A t \in Sessions : t # s => session'[t] = session[t]
    BY <2>4, Parts DEF Sane, RowsOK
  <2>6. o # None => JobOf(w) = o
    BY <2>4 DEF JobOf, At
  <2>7. QED
    BY <2>3, <2>4, <2>5, <2>6
<1>2. QED
  BY <1>1, Writers DEF SessionWriters

(* An order a worker is about to commit a session for is its alone.        *)
LEMMA CommitsApart ==
    ASSUME Sane, NEW w \in ProvisionWorkers, At(w, "prov_commit"),
           NEW p \in Procs, At(p, "prov_commit"), proc[p].o = proc[w].o
    PROVE  p = w
<1>1. p \in ProvisionWorkers
  BY DEF Sane, Handlers, Fits, At, OrderPC, FulfilPC, Procs
<1>2. ~Free(w) /\ ~Free(p) /\ JobOf(w) = proc[w].o /\ JobOf(p) = proc[p].o
  BY DEF Free, At, JobOf
<1>3. QED
  BY <1>1, <1>2 DEF Sane, ProvisionJobs

(* A handler that does not move still knows what it knew.                  *)
LEMMA KnowsLasts ==
    ASSUME Sane, Next, NEW p \in Procs, Knows(proc[p]), proc'[p] = proc[p]
    PROVE  Knows(proc[p])'
<1>1. /\ proc[p] \in Handler
      /\ proc[p].pc \in {"apr_voucher", "enqueue"} => proc[p].o \in Orders
  BY InHand, PortalPlaces, FulfilPlaces DEF ApprovePC
<1>2. proc[p].pc \in {"apr_voucher", "enqueue"} /\ Approved(proc[p].o) =>
          payment'[proc[p].o].st # "NONE" /\ payment'[proc[p].o].manual
  BY <1>1, PaymentsLast DEF Approved
<1>3. proc[p].pc = "rev_revoke" => \A v \in proc[p].todo : voucher'[v].st # "NONE"
  BY <1>1, VouchersStay DEF Knows, VouchersLast, Handler
<1>4. ASSUME VouchersOf(proc[p].o) # {} PROVE VouchersOf(proc[p].o)' # {}
  BY <1>4, VouchersOfLast
<1>5. proc[p].pc = "prov_commit" =>
          \A s \in Sessions : session'[s].st # "NONE" => session'[s].order # proc[p].o
  <2>1. CASE session' = session
    BY <2>1 DEF Knows
  <2>2. CASE session' # session /\ proc[p].pc = "prov_commit"
    <3>1. PICK w \in ProvisionWorkers, s \in Sessions, o \in Orders \cup {None} :
              /\ proc'[w] = Idle
              /\ session'[s].order = o
              /\ \A t \in Sessions : t # s => session'[t] = session[t]
              /\ o # None => At(w, "prov_commit") /\ proc[w].o = o
      BY <2>2, NewSessions
    <3>2. p # w
      BY <2>2, <3>1, IdleType
    <3>3. proc[p].o \in Orders
      BY <2>2, InHand, ProvisionPlaces DEF OrderPC
    <3>4. o # proc[p].o
      BY <2>2, <3>1, <3>2, <3>3, NoneIsNone, CommitsApart DEF At
    <3>5. QED
      BY <2>2, <3>1, <3>4 DEF Knows
  <2>3. QED
    BY <2>1, <2>2
<1>6. QED
  BY <1>2, <1>3, <1>4, <1>5 DEF Knows, Approved

(* Sessions of an order are still one.                                     *)
LEMMA SessionsOnceKept ==
    ASSUME Sane, Granted, Next
    PROVE  SessionsOnce'
<1>1. CASE session' = session
  BY <1>1 DEF Granted, SessionsOnce
<1>2. CASE session' # session
  <2>1. PICK w \in ProvisionWorkers, s \in Sessions, o \in Orders \cup {None} :
            /\ session'[s].order = o
            /\ \A t \in Sessions : t # s => session'[t] = session[t]
            /\ o # None => At(w, "prov_commit") /\ proc[w].o = o
    BY <1>2, NewSessions
  <2>2. o # None => \A t \in Sessions : session[t].st # "NONE" => session[t].order # o
    BY <2>1, Kinds DEF Granted, Knows, At
  <2>3. QED
    BY <2>1, <2>2, NoneIsNone DEF Granted, SessionsOnce
<1>3. QED
  BY <1>1, <1>2

(* A voucher that was not there before is one a commit, an approval or a   *)
(* provisioning job created for its order.                                 *)
LEMMA NewVouchers ==
    ASSUME Sane, Granted, Next, NEW v \in Vouchers,
           voucher[v].st = "NONE", voucher'[v].st # "NONE"
    PROVE  \/ \E p \in Requests \cup FulfilWorkers :
                 Commit(p) /\ voucher'[v].pay = proc[p].o
           \/ \E p \in Requests : ApproveVoucher(p) /\ voucher'[v].pay = proc[p].o
           \/ \E w \in ProvisionWorkers : ProvisionMint(w) /\ voucher'[v].pay = proc[w].o
<1>1. ASSUME NEW u \in FreshVouchers, NEW o, NewVoucher(u, o)
      PROVE  voucher'[v].pay = o
  BY <1>1, NewVoucherRow
<1>2. CASE \E p \in Requests \cup FulfilWorkers : Commit(p)
  BY <1>1, <1>2, CommitFacts, Kinds
<1>3. CASE \E p \in Requests : ApproveVoucher(p)
  BY <1>1, <1>3 DEF ApproveVoucher
<1>4. CASE \E w \in ProvisionWorkers : ProvisionMint(w)
  <2>1. PICK w \in ProvisionWorkers : ProvisionMint(w)
    BY <1>4
  <2>2. proc[w].flag
    BY <2>1, Kinds DEF ProvisionMint, At, Granted, Knows
  <2>3. QED
    BY <1>1, <2>1, <2>2 DEF ProvisionMint
<1>5. CASE \E p \in Requests : ReversalRevoke(p)
  <2>1. PICK p \in Requests : ReversalRevoke(p)
    BY <1>5
  <2>2. PICK u \in proc[p].todo : voucher' = [voucher EXCEPT ![u].st = "REVOKED"]
    BY <2>1 DEF ReversalRevoke
  <2>3. voucher[u].st # "NONE"
    BY <2>1, Kinds DEF Granted, Knows, ReversalRevoke, At
  <2>4. voucher'[v] = voucher[v]
    BY <2>2, <2>3, Parts DEF Sane, RowsOK
  <2>5. QED
    BY <2>4
<1>6. CASE \E p \in Requests, u \in Vouchers : Redeem(p, u)
  <2>1. PICK u \in Vouchers :
            /\ voucher[u].st \in {"ACTIVE", "REDEEMED"}
            /\ \/ voucher' = [voucher EXCEPT ![u].st = "REDEEMED"]
               \/ voucher' = voucher
    BY <1>6 DEF Redeem
  <2>2. voucher'[v] = voucher[v]
    BY <2>1, Parts DEF Sane, RowsOK
  <2>3. QED
    BY <2>2
<1>7. QED
  BY <1>2, <1>3, <1>4, <1>5, <1>6, Writers DEF VoucherWriters

(* The order it is for is paid for.                                        *)
LEMMA GrantIsPaid ==
    ASSUME Sane, Referenced, Granted, Next, NEW v \in Vouchers,
           voucher[v].st = "NONE", voucher'[v].st # "NONE"
    PROVE  voucher'[v].pay \in Orders /\ PaidFor(voucher'[v].pay)
<1>1. CASE \E p \in Requests \cup FulfilWorkers : Commit(p) /\ voucher'[v].pay = proc[p].o
  BY <1>1, CommitFacts, CommitIsPaidFor, Kinds
<1>2. CASE \E p \in Requests : ApproveVoucher(p) /\ voucher'[v].pay = proc[p].o
  <2>1. PICK p \in Requests : ApproveVoucher(p) /\ voucher'[v].pay = proc[p].o
    BY <1>2
  <2>2. p \in Procs /\ proc[p].pc = "apr_voucher" /\ proc[p].o \in Orders
    BY <2>1, Kinds, InHand, PortalPlaces DEF ApproveVoucher, At, ApprovePC
  <2>3. QED
    BY <2>1, <2>2 DEF Granted, Knows, PaidFor, Approved
<1>3. CASE \E w \in ProvisionWorkers : ProvisionMint(w) /\ voucher'[v].pay = proc[w].o
  <2>1. PICK w \in ProvisionWorkers : ProvisionMint(w) /\ voucher'[v].pay = proc[w].o
    BY <1>3
  <2>2. proc[w].pc \in OrderPC /\ ~Free(w)
    BY <2>1 DEF ProvisionMint, At, OrderPC, Free
  <2>3. proc[w].o \in Orders /\ pq[proc[w].o].st # "none"
    BY <2>2, JobType, WorkerInHand
  <2>4. QED
    BY <2>1, <2>3 DEF Granted, JobsPaid
<1>4. QED
  BY <1>1, <1>2, <1>3, NewVouchers

(* Every voucher is one of a paid order, the new ones and the old.         *)
LEMMA VouchersPaidKept ==
    ASSUME Sane, Referenced, Granted, Next
    PROVE  VouchersPaid'
<1>1. ASSUME NEW v \in Vouchers, voucher'[v].st # "NONE"
      PROVE  voucher'[v].pay \in Orders /\ PaidFor(voucher'[v].pay)
  <2>1. CASE voucher[v].st = "NONE"
    BY <1>1, <2>1, GrantIsPaid
  <2>2. CASE voucher[v].st # "NONE"
    BY <2>2, VouchersStay DEF Granted, VouchersPaid, VouchersLast
  <2>3. QED
    BY <2>1, <2>2
<1>2. ASSUME NEW v \in Vouchers, voucher'[v].st # "NONE"
      PROVE  voucher'[v].pay \in Orders /\ PaidFor(voucher[v].pay)'
  <2>1. PICK o \in Orders : o = voucher'[v].pay /\ PaidFor(o)
    BY <1>1, <1>2
  <2>2. PaidFor(o)'
    BY <2>1, PaidLasts
  <2>3. QED
    BY <2>1, <2>2 DEF PaidFor, PaidAtGateway
<1>3. QED
  BY <1>2 DEF VouchersPaid

(* An order with a voucher is paid for.                                    *)
LEMMA VouchersOfArePaid ==
    ASSUME Granted, NEW o \in Orders, VouchersOf(o) # {}
    PROVE  PaidFor(o)
BY DEF Granted, VouchersPaid, VouchersOf

(* A job is queued for an order that has a voucher, or that the owner has  *)
(* approved.                                                               *)
LEMMA JobSteps ==
    ASSUME Sane, Granted, Next, NEW o \in Orders, pq'[o].st # "none"
    PROVE  \/ pq[o].st # "none"
           \/ VouchersOf(o) # {}
           \/ Approved(o)
<1>1. pq \in [Orders \cup Vouchers -> ProvisionJob] /\ o \notin Vouchers
  BY Parts, CheckoutAssumption DEF Sane
<1>2. ASSUME NEW j \in Orders \cup Vouchers, pq' = ProvisionAdd(j)
      PROVE  pq[o].st # "none" \/ o = j
  BY <1>1, <1>2 DEF ProvisionAdd
<1>3. pq'[o].st # "none"
  OBVIOUS
<1>4. pq[o].st # "none" \/ VouchersOf(o) # {} \/ Approved(o)
  <2>1. CASE pq' = pq
    BY <1>3, <2>1
  <2>2. CASE \E p \in Requests \cup FulfilWorkers : EnqueueProvisioning(p)
    <3>1. PICK p \in Requests \cup FulfilWorkers : EnqueueProvisioning(p)
      BY <2>2
    <3>2. /\ p \in Procs /\ proc[p].o \in Orders
          /\ VouchersOf(proc[p].o) # {} \/ Approved(proc[p].o)
      BY <3>1, Kinds, InHand, FulfilPlaces DEF EnqueueProvisioning, At, Granted, Knows
    <3>3. QED
      BY <1>2, <1>3, <2>1, <3>1, <3>2 DEF EnqueueProvisioning
  <2>3. CASE \E p \in Requests : RedeemEnqueue(p)
    <3>1. PICK p \in Requests : RedeemEnqueue(p)
      BY <2>3
    <3>2. proc[p].v \in Vouchers
      BY <3>1, Kinds, InHand DEF RedeemEnqueue, At
    <3>3. QED
      BY <1>1, <1>2, <1>3, <3>1, <3>2 DEF RedeemEnqueue
  <2>4. CASE \E w \in ProvisionWorkers : \/ \E u \in Orders : TakeOrderJob(w, u)
                                         \/ \E v \in Vouchers : TakeVoucherJob(w, v)
                                         \/ ProvisionStep(w) /\ Complete(w)
    <3>1. pq[o].st # "none"
      <4>1. CASE \E w \in ProvisionWorkers, u \in Orders : TakeOrderJob(w, u)
        BY <1>1, <1>3, <4>1 DEF TakeOrderJob
      <4>2. CASE \E w \in ProvisionWorkers, v \in Vouchers : TakeVoucherJob(w, v)
        BY <1>1, <1>3, <4>2 DEF TakeVoucherJob
      <4>3. CASE \E w \in ProvisionWorkers : Complete(w)
        <5>1. PICK j, none : none = NoJob /\ pq' = [pq EXCEPT ![j] = none]
          BY <4>3 DEF Complete
        <5>2. none.st = "none"
          BY <5>1 DEF NoJob
        <5>3. QED
          BY <1>1, <1>3, <5>1, <5>2
      <4>4. QED
        BY <2>4, <4>1, <4>2, <4>3
    <3>2. QED
      BY <3>1
  <2>5. CASE (\E p \in Procs : HandlerThrows(p)) \/ Crash
    <3>1. pq[o].st # "none"
      <4>1. CASE Crash
        BY <1>1, <1>3, <4>1 DEF Crash, Stalled
      <4>2. CASE \E p \in Procs : HandlerThrows(p)
        <5>1. PICK p \in Procs : HandlerThrows(p)
          BY <4>2
        <5>2. CASE pq' = pq
          BY <1>3, <5>2
        <5>3. CASE pq' # pq
          <6>1. p \in ProvisionWorkers /\ ~Free(p) /\ pq' = [pq EXCEPT ![JobOf(p)] = Retried(@)]
            BY <5>1, <5>3 DEF HandlerThrows
          <6>2. pq[JobOf(p)].st = "active"
            BY <6>1, JobType
          <6>3. QED
            BY <1>1, <1>3, <6>1, <6>2
        <5>4. QED
          BY <5>2, <5>3
      <4>3. QED
        BY <2>5, <4>1, <4>2
    <3>2. QED
      BY <3>1
  <2>6. QED
    BY <2>1, <2>2, <2>3, <2>4, <2>5, Writers DEF JobWriters
<1>5. QED
  BY <1>4

(* So is every order with a job.                                           *)
LEMMA JobsPaidKept ==
    ASSUME Sane, Referenced, Granted, Next
    PROVE  JobsPaid'
<1>1. ASSUME NEW o \in Orders, pq'[o].st # "none" PROVE PaidFor(o)
  BY <1>1, JobSteps, VouchersOfArePaid DEF Granted, JobsPaid, PaidFor, Approved
<1>2. QED
  BY <1>1, PaidLasts DEF JobsPaid

(* A settled payment has the voucher its commit created.                   *)
LEMMA FulfilledKept ==
    ASSUME Sane, Referenced, Granted, Next
    PROVE  FulfilledHasVoucher'
<1>1. SUFFICES ASSUME NEW o \in Orders, payment'[o].st = "FULFILLED", ~payment'[o].manual
               PROVE  VouchersOf(o)' # {}
  BY DEF FulfilledHasVoucher
<1>2. CASE payment[o].st = "FULFILLED" /\ ~payment[o].manual
  BY <1>2, VouchersOfLast DEF Granted, FulfilledHasVoucher
<1>3. CASE \E p \in Requests \cup FulfilWorkers : Commit(p) /\ proc[p].o = o
  BY <1>3, CommitFacts, NewVoucherRow, Kinds DEF VouchersOf
<1>4. QED
  BY <1>1, <1>2, <1>3, PaymentsLast

(* An order becomes ACTIVE when its worker has a voucher for it.           *)
LEMMA ActiveKept ==
    ASSUME Sane, Referenced, Granted, Next
    PROVE  ActiveOrderHasVoucher'
<1>1. order \in [Orders -> OrderStatus]
  BY Parts DEF Sane, RowsOK
<1>2. ASSUME NEW o \in Orders, order'[o] = "ACTIVE" PROVE VouchersOf(o) # {}
  <2>1. CASE order[o] = "ACTIVE"
    BY <2>1 DEF Granted, ActiveOrderHasVoucher
  <2>2. CASE \E w \in ProvisionWorkers :
                 /\ ProvisionPush(w) \/ ProvisionSession(w) \/ ProvisionCommit(w)
                 /\ order' # order
    <3>1. PICK w \in ProvisionWorkers :
                 /\ ProvisionPush(w) \/ ProvisionSession(w) \/ ProvisionCommit(w)
                 /\ order' # order
      BY <2>2
    <3>2. /\ order' = [order EXCEPT ![proc[w].o] = "ACTIVE"]
          /\ proc[w].pc \in GrantedPC /\ w \in Procs
      BY <3>1, Kinds DEF ProvisionPush, ProvisionSession, ProvisionCommit, At, GrantedPC
    <3>3. o = proc[w].o \/ order[o] = "ACTIVE"
      BY <1>1, <1>2, <3>2
    <3>4. QED
      BY <2>1, <3>2, <3>3 DEF Granted, Knows
  <2>3. CASE order' = order
    BY <1>2, <2>1, <2>3
  <2>4. CASE \/ \E p \in Requests \cup FulfilWorkers : Commit(p) \/ FulfilUnderpaid(p)
             \/ \E p \in Requests, u \in Orders : InitPayment(p, u) \/ Approve(p, u)
             \/ \E u \in Orders : CreateOrder(u) \/ SubmitTransfer(u)
    <3>1. PICK u, st : order' = [order EXCEPT ![u] = st] /\ st # "ACTIVE"
      <4>1. CASE \E p \in Requests \cup FulfilWorkers : Commit(p)
        <5>1. PICK p \in Requests \cup FulfilWorkers : Commit(p)
          BY <4>1
        <5>2. \/ order' = [order EXCEPT ![proc[p].o] = "PROVISIONING"]
              \/ order' = [order EXCEPT ![proc[p].o] = "PAID"]
          BY <5>1 DEF Commit, FulfilCommit, VerifiedCommit, RetrieveCommit
        <5>3. QED
          BY <5>2
      <4>2. CASE \E p \in Requests \cup FulfilWorkers : FulfilUnderpaid(p)
        BY <4>2 DEF FulfilUnderpaid
      <4>3. CASE \/ \E p \in Requests, u \in Orders : InitPayment(p, u) \/ Approve(p, u)
                 \/ \E u \in Orders : CreateOrder(u) \/ SubmitTransfer(u)
        BY <4>3 DEF InitPayment, Approve, CreateOrder, SubmitTransfer
      <4>4. QED
        BY <2>4, <4>1, <4>2, <4>3
    <3>2. order[o] = "ACTIVE"
      BY <1>1, <1>2, <3>1
    <3>3. QED
      BY <2>1, <3>2
  <2>5. QED
    BY <2>2, <2>3, <2>4, Writers DEF OrderWriters
<1>3. QED
  BY <1>2, VouchersOfLast DEF ActiveOrderHasVoucher

------------------------------------------------------------------------------
(* What the handler that moves knows.                                      *)

(* Where a handler knows something.                                        *)
KnowingPC == GrantedPC \cup {"enqueue", "apr_voucher", "prov_mint", "rev_revoke"}

(* One handler moves, and knows what it must.                              *)
Learns(p) == Moved(p) /\ Knows(proc[p])'

(* Elsewhere nothing need be known.                                        *)
LEMMA ElsewhereLearns ==
    ASSUME NEW p \in Procs, Moved(p), proc'[p].pc \notin KnowingPC
    PROVE  Learns(p)
BY DEF Learns, Knows, KnowingPC, GrantedPC

(* Most places are elsewhere.                                              *)
LEMMA KnowingPlaces ==
    /\ \A pc \in (HookPC \ {"rev_revoke"}) \cup FulfilPC \cup VerifyPC \cup MintingPC
                   \cup VoucherPC \cup {"idle", "redeem_enqueue", "apr_prior",
                                        "apr_payment", "prov_voucher"} :
          pc \notin KnowingPC
    /\ \A pc \in GrantedPC \cup {"enqueue"} :
          pc \notin {"apr_voucher", "prov_mint", "rev_revoke"}
BY DEF HookPC, FulfilPC, VerifyPC, MintingPC, VoucherPC, KnowingPC, GrantedPC

(* A handler is done, or goes on or starts where nothing need be known.    *)
LEMMA IdleLearns ==
    ASSUME Sane, NEW p \in Procs, proc' = [proc EXCEPT ![p] = Idle]
    PROVE  Learns(p)
BY IdleMoves, KnowingPlaces, ElsewhereLearns

(* Nor does one that goes on to where no voucher is known.                 *)
LEMMA GotoLearns ==
    ASSUME Sane, NEW p \in Procs, NEW pc, Goto(p, pc), pc \notin KnowingPC
    PROVE  Learns(p)
BY GotoMoves, ElsewhereLearns

(* Nor does one that starts there.                                         *)
LEMMA StartLearns ==
    ASSUME Sane, NEW p \in Procs, NEW pc, NEW o, NEW r, Start(p, pc, o, r),
           pc \notin KnowingPC
    PROVE  Learns(p)
BY StartMoves, ElsewhereLearns

(* A handler goes on with an order that has a voucher.                     *)
LEMMA GrantLearns ==
    ASSUME NEW p \in Procs, Moved(p), NEW o, proc'[p].o = o,
           proc'[p].pc \in GrantedPC \cup {"enqueue"},
           VouchersOf(o)' # {},
           proc'[p].pc = "prov_commit" =>
              \A s \in Sessions : session'[s].st # "NONE" => session'[s].order # o
    PROVE  Learns(p)
<1>1. proc'[p].pc \notin {"apr_voucher", "prov_mint", "rev_revoke"}
  BY KnowingPlaces
<1>2. VouchersOf(proc[p].o)' # {}
  BY DEF VouchersOf
<1>3. QED
  BY <1>1, <1>2 DEF Learns, Knows

(* Requests that start.                                                    *)
LEMMA StartRequestLearns ==
    ASSUME Sane, Granted, Next, NEW p \in Requests, StartRequest(p), proc' # proc
    PROVE  Learns(p)
<1>1. p \in Procs
  BY Kinds
<1>2. CASE \E o \in Orders : InitPayment(p, o)
  <2>1. PICK o, r : Start(p, "init_payment", o, r)
    BY <1>2 DEF InitPayment
  <2>2. QED
    BY <1>1, <2>1, StartLearns, KnowingPlaces DEF MintingPC
<1>3. CASE \E o \in Orders : InitializeRead(p, o)
  <2>1. Moved(p) /\ proc'[p].pc = "reinit_gateway"
    BY <1>1, <1>3, Parts DEF InitializeRead, Sane, Moved, Idle
  <2>2. QED
    BY <1>1, <2>1, ElsewhereLearns, KnowingPlaces DEF MintingPC
<1>4. CASE \E o \in Orders : PollStatus(p, o) \/ Landing(p, o) \/ AdminVerify(p, o)
  <2>1. PICK o, r, pc : Start(p, pc, o, r) /\ pc \in {"ful_verify", "land_verify", "adm_verify"}
    BY <1>4 DEF PollStatus, Landing, AdminVerify
  <2>2. pc \in FulfilPC \cup VerifyPC
    BY <2>1 DEF FulfilPC, VerifyPC
  <2>3. QED
    BY <1>1, <2>1, <2>2, StartLearns, KnowingPlaces
<1>5. CASE \E o \in Orders : Retrieve(p, o)
  <2>1. PICK o \in Orders : Retrieve(p, o)
    BY <1>5
  <2>2. CASE VouchersOf(o) # {} /\ Start(p, "enqueue", o, None)
    <3>1. VouchersOf(o)' # {}
      BY <2>2, VouchersOfLast
    <3>2. Moved(p) /\ proc'[p].pc = "enqueue" /\ proc'[p].o = o
      BY <1>1, <2>2, StartMoves
    <3>3. QED
      BY <1>1, <3>1, <3>2, GrantLearns
  <2>3. CASE Start(p, "ret_verify", o, payment[o].ref)
    BY <1>1, <2>3, StartLearns, KnowingPlaces DEF VerifyPC
  <2>4. QED
    BY <2>1, <2>2, <2>3 DEF Retrieve
<1>6. CASE \E o \in Orders : Approve(p, o)
  <2>1. PICK o \in Orders : Start(p, "apr_prior", o, None)
    BY <1>6 DEF Approve
  <2>2. QED
    BY <1>1, <2>1, StartLearns, KnowingPlaces
<1>7. CASE \E v \in Vouchers : Redeem(p, v)
  <2>1. Moved(p) /\ proc'[p].pc = "redeem_enqueue"
    BY <1>1, <1>7, Parts DEF Redeem, Sane, Moved, Idle
  <2>2. QED
    BY <1>1, <2>1, ElsewhereLearns, KnowingPlaces
<1>8. CASE \E e \in sent : Deliver(p, e)
  <2>1. Moved(p) /\ proc'[p].pc = "hook_find"
    BY <1>1, <1>8, Parts DEF Deliver, Sane, Moved, Idle
  <2>2. QED
    BY <1>1, <2>1, ElsewhereLearns, KnowingPlaces DEF HookPC
<1>9. CASE \E o \in Orders : Reconcile(p, o)
  <2>1. PICK o \in Orders : Reconcile(p, o)
    BY <1>9
  <2>2. /\ Moved(p) /\ proc'[p].pc = "enqueue" /\ proc'[p].o = o
        /\ payment[o].st = "FULFILLED" /\ payment' = payment
    BY <1>1, <2>1, StartMoves DEF Reconcile
  <2>3. CASE payment[o].manual
    <3>1. Approved(o)'
      BY <2>2, <2>3 DEF Approved
    <3>2. QED
      BY <2>2, <3>1 DEF Learns, Knows, GrantedPC
  <2>4. CASE ~payment[o].manual
    <3>1. VouchersOf(o)' # {}
      BY <2>2, <2>4, VouchersOfLast DEF Granted, FulfilledHasVoucher
    <3>2. QED
      BY <1>1, <2>2, <3>1, GrantLearns
  <2>5. QED
    BY <2>3, <2>4
<1>10. QED
  BY <1>2, <1>3, <1>4, <1>5, <1>6, <1>7, <1>8, <1>9 DEF StartRequest

(* A commit leaves its voucher.                                            *)
LEMMA CommitLearns ==
    ASSUME Sane, NEW p \in Procs, Commit(p)
    PROVE  Learns(p)
<1>1. PICK v \in FreshVouchers : NewVoucher(v, proc[p].o)
  BY CommitFacts
<1>2. \E o : o = proc[p].o /\ VouchersOf(o)' # {}
  <2>1. PICK o : o = proc[p].o
    OBVIOUS
  <2>2. v \in Vouchers /\ voucher'[v].st = "ACTIVE" /\ voucher'[v].pay = o
    BY <1>1, <2>1, NewVoucherRow
  <2>3. QED
    BY <2>1, <2>2 DEF VouchersOf
<1>3. Goto(p, "enqueue")
  BY CommitFacts
<1>4. QED
  BY <1>2, <1>3, GotoMoves, GrantLearns

(* fulfill() knows its voucher when it hands over to provisioning.         *)
LEMMA FulfilStepLearns ==
    ASSUME Sane, NEW p \in Requests \cup FulfilWorkers, FulfilStep(p)
    PROVE  Learns(p)
<1>1. p \in Procs /\ proc \in [Procs -> Handler]
  BY Kinds, Parts DEF Sane
<1>2. CASE proc' = [proc EXCEPT ![p] = Idle]
  BY <1>1, <1>2, IdleLearns
<1>3. CASE FulfilCommit(p)
  BY <1>1, <1>3, CommitLearns DEF Commit
<1>4. CASE Goto(p, "ful_commit")
  BY <1>1, <1>4, GotoLearns, KnowingPlaces DEF FulfilPC
<1>5. CASE FulfilVerify(p) /\ Succeeded(proc[p].r)
  <2>1. Moved(p) /\ proc'[p].pc = "ful_load"
    BY <1>1, <1>5 DEF FulfilVerify, Moved, Handler
  <2>2. QED
    BY <1>1, <2>1, ElsewhereLearns, KnowingPlaces DEF FulfilPC
<1>6. CASE FulfilLoad(p) /\ ~Return(p)
  <2>1. PICK o \in PaymentOrders(proc[p].r) :
            proc' = [proc EXCEPT
                    ![p].o = o,
                    ![p].pc = IF proc[p].flag THEN "ful_underpaid" ELSE "ful_read"]
    BY <1>6 DEF FulfilLoad
  <2>2. Moved(p) /\ proc'[p].pc \in {"ful_underpaid", "ful_read"}
    BY <1>1, <2>1 DEF Moved, Handler
  <2>3. QED
    BY <1>1, <2>2, ElsewhereLearns, KnowingPlaces DEF FulfilPC
<1>7. QED
  BY <1>2, <1>3, <1>4, <1>5, <1>6 DEF FulfilStep, FulfilVerify, FulfilLoad,
     FulfilUnderpaid, FulfilRead, EnqueueProvisioning, Return

(* The webhook, and the reversal it calls: its work list is of vouchers    *)
(* that are there.                                                         *)
LEMMA ReversalLearns ==
    ASSUME Sane, Granted, Next, NEW p \in Requests, ReversalFind(p) \/ ReversalRevoke(p)
    PROVE  Learns(p)
<1>1. p \in Procs /\ proc \in [Procs -> Handler]
  BY Kinds, Parts DEF Sane
<1>2. CASE proc' = [proc EXCEPT ![p] = Idle]
  BY <1>1, <1>2, IdleLearns
<1>3. ASSUME Moved(p), proc'[p].pc = "rev_revoke",
             \A v \in proc'[p].todo : v \in Vouchers /\ voucher[v].st # "NONE"
      PROVE  Learns(p)
  <2>1. \A v \in proc'[p].todo : voucher'[v].st # "NONE"
    BY <1>3, VouchersStay DEF VouchersLast
  <2>2. proc'[p].pc \notin GrantedPC
    BY <1>3 DEF GrantedPC
  <2>3. QED
    BY <1>3, <2>1, <2>2 DEF Learns, Knows
<1>4. CASE ReversalFind(p) /\ ~Acknowledge(p)
  <2>1. PICK o, todo :
            /\ todo = {v \in VouchersOf(o) : voucher[v].st = "ACTIVE"}
            /\ proc' = [proc EXCEPT ![p].pc = "rev_revoke", ![p].o = o, ![p].todo = todo]
    BY <1>4 DEF ReversalFind
  <2>2. Moved(p) /\ proc'[p].pc = "rev_revoke" /\ proc'[p].todo = todo
    BY <1>1, <2>1 DEF Moved, Handler
  <2>3. \A v \in todo : v \in Vouchers /\ voucher[v].st # "NONE"
    BY <2>1 DEF VouchersOf
  <2>4. QED
    BY <1>3, <2>2, <2>3
<1>5. CASE ReversalRevoke(p)
  <2>1. PICK v \in proc[p].todo : proc' = [proc EXCEPT ![p].todo = @ \ {v}]
    BY <1>5 DEF ReversalRevoke
  <2>2. /\ Moved(p) /\ proc'[p].pc = "rev_revoke" /\ proc'[p].todo \subseteq proc[p].todo
        /\ proc[p].pc = "rev_revoke"
    BY <1>1, <1>5, <2>1 DEF ReversalRevoke, At, Moved, Handler
  <2>3. \A u \in proc[p].todo : u \in Vouchers /\ voucher[u].st # "NONE"
    BY <1>1, <2>2 DEF Granted, Knows, Handler
  <2>4. QED
    BY <1>3, <2>2, <2>3
<1>6. QED
  BY <1>2, <1>4, <1>5 DEF Acknowledge

(* The rest of the webhook need know nothing.                              *)
LEMMA HookStepLearns ==
    ASSUME Sane, Granted, Next, NEW p \in Requests, HookStep(p)
    PROVE  Learns(p)
<1>1. p \in Procs
  BY Kinds
<1>2. CASE ReversalFind(p) \/ ReversalRevoke(p)
  BY <1>2, ReversalLearns
<1>3. CASE proc' = [proc EXCEPT ![p] = Idle]
  BY <1>1, <1>3, IdleLearns
<1>4. CASE \/ Goto(p, "hook_record") \/ Goto(p, "hook_recheck")
           \/ Goto(p, "hook_enqueue") \/ Goto(p, "rev_find")
  BY <1>1, <1>4, GotoLearns, KnowingPlaces DEF HookPC
<1>5. QED
  BY <1>2, <1>3, <1>4 DEF HookStep, HookFind, HookRecord, HookRecheck, HookEnqueue,
     ReversalMark, Acknowledge

(* The portal's handlers, and the owner's approval.                        *)
LEMMA ApprovalLearns ==
    ASSUME Sane, NEW p \in Requests, ApprovePayment(p) \/ ApproveVoucher(p)
    PROVE  Learns(p)
<1>1. p \in Procs /\ proc[p].o \in Orders
  BY PortalInHand DEF ApprovePayment, ApproveVoucher, At, ApprovePC
<1>2. CASE proc' = [proc EXCEPT ![p] = Idle]
  BY <1>1, <1>2, IdleLearns
<1>3. CASE ApprovePayment(p) /\ ~Return(p)
  <2>1. PICK row : /\ row = [st |-> "FULFILLED", ref |-> None, tx |-> None, manual |-> TRUE]
                   /\ payment' = [payment EXCEPT ![proc[p].o] = row]
                   /\ Goto(p, "apr_voucher")
    BY <1>3 DEF ApprovePayment
  <2>2. payment'[proc[p].o] = row /\ row.st # "NONE" /\ row.manual
    BY <1>1, <2>1, Parts DEF Sane, RowsOK
  <2>3. Moved(p) /\ proc'[p].pc = "apr_voucher" /\ proc'[p].o = proc[p].o
    BY <1>1, <2>1, GotoMoves
  <2>4. "apr_voucher" \notin GrantedPC
    BY DEF GrantedPC
  <2>5. QED
    BY <2>2, <2>3, <2>4 DEF Learns, Knows, Approved
<1>4. CASE ApproveVoucher(p)
  <2>1. PICK o \in Orders, v \in FreshVouchers : o = proc[p].o /\ NewVoucher(v, o)
    BY <1>1, <1>4 DEF ApproveVoucher
  <2>2. VouchersOf(o)' # {}
    BY <2>1, NewVoucherRow DEF VouchersOf
  <2>3. Moved(p) /\ proc'[p].pc = "enqueue" /\ proc'[p].o = o
    BY <1>1, <1>4, <2>1, GotoMoves DEF ApproveVoucher
  <2>4. QED
    BY <1>1, <2>2, <2>3, GrantLearns
<1>5. QED
  BY <1>2, <1>3, <1>4 DEF Return, ApprovePayment

(* The portal: commits and approvals, and nothing else.                    *)
LEMMA PortalStepLearns ==
    ASSUME Sane, NEW p \in Requests, PortalStep(p)
    PROVE  Learns(p)
<1>1. p \in Procs
  BY Kinds
<1>2. CASE VerifiedCommit(p) \/ RetrieveCommit(p)
  BY <1>1, <1>2, CommitLearns DEF Commit
<1>3. CASE ApprovePayment(p) \/ ApproveVoucher(p)
  BY <1>3, ApprovalLearns
<1>4. CASE proc' = [proc EXCEPT ![p] = Idle]
  BY <1>1, <1>4, IdleLearns
<1>5. CASE \/ Goto(p, "init_gateway") \/ Goto(p, "land_commit") \/ Goto(p, "adm_commit")
           \/ Goto(p, "ret_commit") \/ Goto(p, "apr_payment")
  BY <1>1, <1>5, GotoLearns, KnowingPlaces DEF MintingPC, VerifyPC
<1>6. QED
  BY <1>2, <1>3, <1>4, <1>5 DEF PortalStep, InitPaymentRow, InitPaymentGateway,
     LandingVerify, AdminVerifyAnswer, RetrieveVerify, ApprovePrior, RedeemEnqueue, Return

(* Opening a transaction needs no knowledge.                               *)
LEMMA InitializeStepLearns ==
    ASSUME Sane, NEW p \in Requests, InitializeStep(p)
    PROVE  Learns(p)
<1>1. p \in Procs
  BY Kinds
<1>2. CASE proc' = [proc EXCEPT ![p] = Idle]
  BY <1>1, <1>2, IdleLearns
<1>3. CASE Goto(p, "reinit_write")
  BY <1>1, <1>3, GotoLearns, KnowingPlaces DEF MintingPC
<1>4. QED
  BY <1>2, <1>3 DEF InitializeStep, InitializeGateway, InitializeWrite, Return

(* The provisioning worker: it finds the payment of a queued order, and a  *)
(* voucher or mints one for that payment.                                  *)
LEMMA ProvisionVoucherLearns ==
    ASSUME Sane, Granted, Next, NEW w \in ProvisionWorkers, ProvisionVoucher(w)
    PROVE  Learns(w)
<1>1. w \in Procs /\ proc \in [Procs -> Handler] /\ ~Free(w) /\ proc[w].pc \in OrderPC
      /\ proc[w].o \in Orders
  BY Kinds, Parts, WorkerInHand DEF Sane, ProvisionVoucher, At, Free, OrderPC
<1>2. payment[proc[w].o].st # "NONE"
  <2>1. pq[proc[w].o].st # "none"
    BY <1>1, JobType
  <2>2. QED
    BY <1>1, <2>1 DEF Granted, JobsPaid, PaidFor
<1>3. CASE VouchersOf(proc[w].o) = {}
  <2>1. proc' = [proc EXCEPT ![w].pc = "prov_mint", ![w].flag = TRUE]
    BY <1>2, <1>3 DEF ProvisionVoucher
  <2>2. Moved(w) /\ proc'[w].pc = "prov_mint" /\ proc'[w].flag
    BY <1>1, <2>1 DEF Moved, Handler
  <2>3. QED
    BY <2>2 DEF Learns, Knows, GrantedPC
<1>4. CASE VouchersOf(proc[w].o) # {}
  <2>1. PICK v : proc' = [proc EXCEPT ![w].pc = "prov_push", ![w].v = v]
    BY <1>2, <1>4 DEF ProvisionVoucher
  <2>2. Moved(w) /\ proc'[w].pc = "prov_push" /\ proc'[w].o = proc[w].o
    BY <1>1, <2>1 DEF Moved, Handler
  <2>3. PICK o : o = proc[w].o
    OBVIOUS
  <2>4. VouchersOf(o)' # {}
    BY <1>4, <2>3, VouchersOfLast
  <2>5. QED
    BY <1>1, <2>2, <2>3, <2>4, GrantLearns DEF GrantedPC
<1>5. QED
  BY <1>3, <1>4

(* It goes on with the voucher it minted,                                  *)
LEMMA ProvisionMintLearns ==
    ASSUME Sane, Granted, NEW w \in ProvisionWorkers, ProvisionMint(w)
    PROVE  Learns(w)
<1>1. w \in Procs /\ proc \in [Procs -> Handler] /\ proc[w].flag
  BY Kinds, Parts DEF Sane, ProvisionMint, At, Granted, Knows
<1>2. PICK v, o :
          /\ v \in FreshVouchers /\ o = proc[w].o /\ NewVoucher(v, o)
          /\ proc' = [proc EXCEPT ![w].pc = "prov_push", ![w].v = v]
  BY <1>1 DEF ProvisionMint
<1>3. Moved(w) /\ proc'[w].pc = "prov_push" /\ proc'[w].o = o
  BY <1>1, <1>2 DEF Moved, Handler
<1>4. VouchersOf(o)' # {}
  BY <1>2, NewVoucherRow DEF VouchersOf
<1>5. QED
  BY <1>1, <1>3, <1>4, GrantLearns DEF GrantedPC

(* and with that of its order to the end, where it has looked for a        *)
(* session.                                                                *)
LEMMA ProvisionWorkerLearns ==
    ASSUME Sane, Granted, Next, NEW w \in ProvisionWorkers, ProvisionWorker(w)
    PROVE  Learns(w)
<1>1. w \in Procs
  BY Kinds
<1>2. CASE proc' = [proc EXCEPT ![w] = Idle]
  BY <1>1, <1>2, IdleLearns
<1>3. CASE ProvisionVoucher(w) \/ ProvisionMint(w)
  BY <1>3, ProvisionVoucherLearns, ProvisionMintLearns
<1>4. CASE /\ At(w, "prov_push") \/ At(w, "prov_session")
           /\ \E pc \in {"prov_session", "prov_commit"} :
                 /\ Goto(w, pc)
                 /\ pc = "prov_commit" => session' = session /\ \A s \in Sessions :
                        session[s].st # "NONE" => session[s].order # proc[w].o
  <2>1. PICK pc \in {"prov_session", "prov_commit"} :
            /\ Goto(w, pc)
            /\ pc = "prov_commit" => session' = session /\ \A s \in Sessions :
                   session[s].st # "NONE" => session[s].order # proc[w].o
    BY <1>4
  <2>2. PICK o : o = proc[w].o /\ VouchersOf(o) # {}
    BY <1>1, <1>4 DEF Granted, Knows, GrantedPC, At
  <2>3. VouchersOf(o)' # {}
    BY <2>2, VouchersOfLast
  <2>4. QED
    BY <1>1, <2>1, <2>2, <2>3, GotoMoves, GrantLearns DEF GrantedPC
<1>5. CASE \E pc \in VoucherPC : Goto(w, pc)
  BY <1>1, <1>5, GotoLearns, KnowingPlaces
<1>6. CASE \E o \in Orders : TakeOrderJob(w, o)
  BY <1>1, <1>6, StartLearns, KnowingPlaces DEF TakeOrderJob
<1>7. CASE \E v \in Vouchers : TakeVoucherJob(w, v)
  <2>1. Moved(w) /\ proc'[w].pc = "vprov_push"
    BY <1>1, <1>7, Parts DEF TakeVoucherJob, Sane, Moved, Idle
  <2>2. QED
    BY <1>1, <2>1, ElsewhereLearns, KnowingPlaces DEF VoucherPC
<1>8. QED
  BY <1>2, <1>3, <1>4, <1>5, <1>6, <1>7
     DEF ProvisionWorker, ProvisionStep, ProvisionPush, ProvisionSession, ProvisionCommit,
         VoucherPush, VoucherSession, VoucherCommit, Complete, VoucherPC

(* Whoever moves knows what it must, and the others what they knew.        *)
LEMMA KnowsKept ==
    ASSUME Sane, Granted, Next
    PROVE  \A p \in Procs : Knows(proc[p])'
<1>1. ASSUME NEW q \in Procs, Learns(q) PROVE \A p \in Procs : Knows(proc[p])'
  BY <1>1, KnowsLasts DEF Learns, Moved, Granted
<1>2. CASE proc' = proc
  BY <1>2, KnowsLasts DEF Granted
<1>3. CASE proc' # proc /\ \E p \in Requests : StartRequest(p) \/ RequestStep(p)
  BY <1>1, <1>3, Kinds, StartRequestLearns, FulfilStepLearns, InitializeStepLearns,
     HookStepLearns, PortalStepLearns DEF RequestStep
<1>4. CASE \E w \in FulfilWorkers : FulfilWorker(w)
  <2>1. PICK w \in FulfilWorkers : FulfilWorker(w)
    BY <1>4
  <2>2. CASE FulfilStep(w)
    BY <1>1, <2>1, <2>2, Kinds, FulfilStepLearns
  <2>3. CASE \E r \in Refs : TakeFulfilJob(w, r)
    BY <1>1, <2>3, Kinds, StartLearns, KnowingPlaces DEF TakeFulfilJob, FulfilPC
  <2>4. QED
    BY <2>1, <2>2, <2>3 DEF FulfilWorker
<1>5. CASE \E w \in ProvisionWorkers : ProvisionWorker(w)
  BY <1>1, <1>5, Kinds, ProvisionWorkerLearns
<1>6. CASE \E p \in Procs : HandlerThrows(p)
  BY <1>1, <1>6, IdleLearns DEF HandlerThrows
<1>7. CASE Crash
  <2>1. \A p \in Procs : proc'[p].pc = "idle"
    BY <1>7, IdleType DEF Crash
  <2>2. QED
    BY <2>1, KnowingPlaces DEF Knows, KnowingPC
<1>8. CASE (\E o \in Orders : CreateOrder(o) \/ SubmitTransfer(o)) \/ Gateway
  BY <1>2, <1>8 DEF CreateOrder, SubmitTransfer, Gateway, GatewaySuccess,
     GatewayReversal
<1>9. QED
  BY <1>2, <1>3, <1>4, <1>5, <1>6, <1>7, <1>8 DEF Next

------------------------------------------------------------------------------
(* The invariant, and what it gives.                                       *)

(* Together.                                                               *)
LEMMA InitGranted == Init => Granted
<1> SUFFICES ASSUME Init PROVE Granted
  OBVIOUS
<1>1. /\ \A v \in Vouchers : voucher[v].st = "NONE"
      /\ \A o \in Orders : pq[o].st = "none"
      /\ \A o \in Orders : payment[o].st = "NONE"
      /\ \A o \in Orders : order[o] = "NONE"
      /\ \A s \in Sessions : session[s].st = "NONE"
      /\ \A p \in Procs : proc[p].pc = "idle"
  BY IdleType DEF Init, NoVoucher, NoJob, NoPayment, NoSession
<1>2. \A p \in Procs : Knows(proc[p])
  BY <1>1, KnowingPlaces DEF Knows, KnowingPC
<1>3. QED
  BY <1>1, <1>2 DEF Granted, VouchersPaid, JobsPaid, SessionsOnce, FulfilledHasVoucher,
     ActiveOrderHasVoucher

(* Every step keeps Granted.                                               *)
LEMMA StepGranted ==
    ASSUME Sane, Referenced, Granted, [Next]_vars
    PROVE  Granted'
<1>1. CASE Next
  BY <1>1, VouchersPaidKept, JobsPaidKept, SessionsOnceKept, KnowsKept, FulfilledKept, ActiveKept
     DEF Granted
<1>2. CASE UNCHANGED vars
  BY <1>2 DEF vars, Granted, VouchersPaid, JobsPaid, SessionsOnce, PaidFor, PaidAtGateway, Knows,
     Approved, FulfilledHasVoucher, ActiveOrderHasVoucher, VouchersOf
<1>3. QED
  BY <1>1, <1>2

Safe == Sane /\ Referenced /\ Granted

(* The three parts together are an invariant of the specification.         *)
LEMMA AlwaysSafe == Spec => []Safe
<1>1. Init => Safe
  BY InitSane, InitReferenced, InitGranted DEF Safe
<1>2. Safe /\ [Next]_vars => Safe'
  BY StepSane, StepReferenced, StepGranted DEF Safe
<1>3. QED
  BY <1>1, <1>2, PTL DEF Spec

(* Money settled means access granted: whichever handler marks a card      *)
(* payment FULFILLED leaves it a voucher, whatever throws, crashes or      *)
(* interleaves, for any number of handlers and workers.                    *)
THEOREM SettledIsGranted == Spec => []FulfilledHasVoucher
<1>1. Safe => FulfilledHasVoucher
  BY DEF Safe, Granted
<1>2. QED
  BY <1>1, AlwaysSafe, PTL

(* No access without money: every voucher is the voucher of an order that  *)
(* the gateway reported paid or the owner approved, whichever handler      *)
(* created it and however old the answer it acted on.                      *)
THEOREM GrantedIsPaid == Spec => []AccessIsPaidFor
<1>1. Safe => AccessIsPaidFor
  BY NoneIsNone DEF Safe, Granted, VouchersPaid, PaidFor, AccessIsPaidFor, Ever
<1>2. QED
  BY <1>1, AlwaysSafe, PTL

(* An order shown ACTIVE has a voucher to log in with.                     *)
THEOREM ActiveCanLogIn == Spec => []ActiveOrderHasVoucher
<1>1. Safe => ActiveOrderHasVoucher
  BY DEF Safe, Granted
<1>2. QED
  BY <1>1, AlwaysSafe, PTL

(* One session per order: between the worker's look for a session and its  *)
(* commit no other worker has the order, because a job is one worker's     *)
(* until it is done, and what a crash cut short is looked up again.        *)
THEOREM SessionsAreOne == Spec => []OneSessionPerOrder
<1>1. Safe => OneSessionPerOrder
  <2>1. ASSUME SessionsOnce, NEW o \in Orders,
               NEW S, S = {s \in Sessions : session[s].st # "NONE" /\ session[s].order = o}
        PROVE  Cardinality(S) <= 1
    <3>1. CASE S = {}
      BY <3>1, FS_EmptySet
    <3>2. CASE S # {}
      <4>1. PICK s \in S : TRUE
        BY <3>2
      <4>2. \A t \in S : t = s
        BY <2>1, <4>1 DEF SessionsOnce
      <4>3. S = {s}
        BY <4>1, <4>2
      <4>4. Cardinality(S) = 1
        BY <4>3, FS_Singleton
      <4>5. QED
        BY <4>4
    <3>3. QED
      BY <3>1, <3>2
  <2>2. QED
    BY <2>1 DEF Safe, Granted, OneSessionPerOrder
<1>2. QED
  BY <1>1, AlwaysSafe, PTL

=============================================================================
