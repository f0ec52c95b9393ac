--------------------------- MODULE CheckoutGuards ---------------------------
(***************************************************************************)
(* The amount and the acknowledgement: what a handler was told by the      *)
(* gateway is still so when it writes, an acknowledged charge stands, and  *)
(* a voucher is for the full amount wherever short payments are refused.   *)
(*                                                                         *)
(* A processed refund takes a success back, whatever it had led to, so     *)
(* both hold of a gateway that reports none (pending and failed refunds    *)
(* and disputes included).  The owner's approval marks an order PAID       *)
(* whatever its status, REFUND_REQUIRED too, so the second holds where     *)
(* nobody approves; and the repairs by reference accept any amount, so the *)
(* first holds where those are not used either.                            *)
(***************************************************************************)
EXTENDS CheckoutProofs

(* No handler that accepts less than the amount is offered.                *)
FullOnly == Enabled \cap {"retrieve", "verify", "approve"} = {}

(* The gateway's events are of charges, and what is acknowledged or queued *)
(* was told.                                                               *)
Told ==
    /\ acked \subseteq sent
    /\ \A e \in sent : Taken(e[2])
    /\ \A r \in Refs : fq[r].st # "none" => Taken(r)

(* Where only a handler that accepts less than the amount can be.          *)
LenientPC == {"ret_verify", "ret_commit", "adm_verify", "adm_commit", "prov_mint"}
                 \cup ApprovePC

(* What a handler was told is still so.                                    *)
Holds(h) ==
    /\ h.pc \in HookPC => <<h.ev, h.r>> \in sent
    /\ h.pc \in {"rev_find", "rev_revoke"} => h.ev # "charge.success"
    /\ h.pc = "ful_load" => charge[h.r].st = IF h.flag THEN "short" ELSE "paid"
    /\ h.pc = "ful_underpaid" => charge[h.r].st = "short"
    /\ h.pc \in {"ful_read", "ful_commit", "land_commit"} => charge[h.r].st = "paid"
    /\ h.pc = "enqueue" /\ h.r \in Refs =>
          Taken(h.r) /\ \A o \in Orders : payment[o].ref = h.r => Settled(o)
    /\ h.pc \in ApprovePC => h.r = None
    /\ FullOnly => h.pc \notin LenientPC

Strict ==
    /\ \A o \in Orders : ~payment[o].manual
    /\ \A o \in Orders : pq[o].st # "none" => VouchersOf(o) # {}
    /\ UnderpaymentGuard

Guarded ==
    /\ \A r \in Refs : charge[r].st # "reversed"
    /\ Told
    /\ \A p \in Procs : Holds(proc[p])
    /\ FullOnly => Strict
    /\ "approve" \notin Enabled => AcknowledgedChargeStands

------------------------------------------------------------------------------
(* What the gateway said.                                                  *)

(* Nothing is taken back, and an answer stays.                             *)
LEMMA AnswersLast ==
    ASSUME Sane, Referenced, Next, "refund.processed" \notin Emitted,
           \A r \in Refs : charge[r].st # "reversed"
    PROVE  /\ \A r \in Refs : charge'[r].st # "reversed"
           /\ \A r \in Refs : Taken(r) => charge'[r].st = charge[r].st
<1>1. charge \in [Refs -> Charge]
  BY Parts DEF Sane, RowsOK
<1>2. CASE charge' = charge
  BY <1>2
<1>3. CASE \E p \in Requests :
              InitializeGateway(p) \/ InitializeWrite(p) \/ InitPaymentGateway(p)
  <2>1. PICK p \in Requests :
                InitializeGateway(p) \/ InitializeWrite(p) \/ InitPaymentGateway(p)
    BY <1>3
  <2>2. Minting(p)
    BY <2>1
       DEF InitializeGateway, InitializeWrite, InitPaymentGateway, Minting, MintingPC, At
  <2>3. ~Taken(proc[p].r) /\ proc[p].r \in Refs
    BY <2>2, MintingInHand
  <2>4. ASSUME charge'[proc[p].r].st \in {"created", "open"},
               \A r \in Refs : r # proc[p].r => charge'[r] = charge[r]
        PROVE  /\ \A r \in Refs : charge'[r].st # "reversed"
               /\ \A r \in Refs : Taken(r) => charge'[r].st = charge[r].st
    BY <2>3, <2>4
  <2>5. CASE InitializeGateway(p)
    <3>1. PICK c : /\ c = [st |-> "created", order |-> proc[p].o]
                   /\ charge' = [charge EXCEPT ![proc[p].r] = c]
      BY <2>5 DEF InitializeGateway
    <3>2. charge'[proc[p].r] = c /\ \A r \in Refs : r # proc[p].r => charge'[r] = charge[r]
      BY <1>1, <2>3, <3>1
    <3>3. QED
      BY <2>4, <3>1, <3>2
  <2>6. CASE InitializeWrite(p) /\ charge' # charge
    <3>1. charge' = [charge EXCEPT ![proc[p].r].st = "open"]
      BY <2>6 DEF InitializeWrite
    <3>2. /\ charge'[proc[p].r].st = "open"
          /\ \A r \in Refs : r # proc[p].r => charge'[r] = charge[r]
      BY <1>1, <2>3, <3>1 DEF Charge
    <3>3. QED
      BY <2>4, <3>2
  <2>7. CASE InitPaymentGateway(p)
    <3>1. PICK c : /\ c = [st |-> "open", order |-> proc[p].o]
                   /\ charge' = [charge EXCEPT ![proc[p].r] = c]
      BY <2>7 DEF InitPaymentGateway
    <3>2. charge'[proc[p].r] = c /\ \A r \in Refs : r # proc[p].r => charge'[r] = charge[r]
      BY <1>1, <2>3, <3>1
    <3>3. QED
      BY <2>4, <3>1, <3>2
  <2>8. QED
    BY <1>2, <2>1, <2>5, <2>6, <2>7
<1>4. CASE \E r \in Refs : GatewaySuccess(r)
  <2>1. PICK r \in Refs, st \in {"paid", "short"} :
            charge[r].st = "open" /\ charge' = [charge EXCEPT ![r].st = st]
    BY <1>4 DEF GatewaySuccess
  <2>2. QED
    BY <1>1, <2>1 DEF Taken, Ever, Charge
<1>5. CASE \E r \in Refs : GatewayReversal(r)
  <2>1. charge' = charge
    BY <1>5 DEF GatewayReversal
  <2>2. QED
    BY <2>1
<1>6. QED
  BY <1>2, <1>3, <1>4, <1>5, Writers DEF ChargeWriters

(* The row of a taken reference gets no other reference's place, and once  *)
(* settled stays settled while it has its reference.                       *)
LEMMA SettledLasts ==
    ASSUME Sane, Referenced, Next, NEW r \in Refs, Taken(r), NEW o \in Orders,
           payment'[o].ref = r
    PROVE  payment[o].ref = r /\ (Settled(o) => Settled(o)')
<1>1. payment \in [Orders -> PaymentRow]
  BY Parts DEF Sane, RowsOK
<1>2. CASE payment' = payment
  BY <1>2 DEF Settled
<1>3. CASE \E p \in Requests \cup FulfilWorkers : Commit(p)
  <2>1. PICK p \in Requests \cup FulfilWorkers : Commit(p)
    BY <1>3
  <2>2. QED
    BY <2>1, CommitFacts, Kinds DEF Settled
<1>4. CASE \E p \in Requests : InitPaymentRow(p) \/ InitializeWrite(p)
  <2>1. PICK p \in Requests : InitPaymentRow(p) \/ InitializeWrite(p)
    BY <1>4
  <2>2. Minting(p)
    BY <2>1 DEF InitPaymentRow, InitializeWrite, Minting, MintingPC, At
  <2>3. proc[p].r # r /\ proc[p].o \in Orders
    BY <2>2, MintingInHand
  <2>4. CASE payment' # payment
    <3>1. PICK row : /\ row.ref = proc[p].r
                     /\ payment' = [payment EXCEPT ![proc[p].o] = row]
      <4>1. CASE InitPaymentRow(p)
        <5>1. PICK row : /\ row = [st |-> "PENDING", ref |-> proc[p].r, tx |-> None,
                                   manual |-> FALSE]
                         /\ payment' = [payment EXCEPT ![proc[p].o] = row]
          BY <2>4, <4>1 DEF InitPaymentRow
        <5>2. QED
          BY <5>1
      <4>2. CASE InitializeWrite(p)
        <5>1. PICK row : /\ row = [payment[proc[p].o] EXCEPT !.st = "PENDING",
                                                             !.ref = proc[p].r]
                         /\ payment' = [payment EXCEPT ![proc[p].o] = row]
          BY <1>1, <2>3, <2>4, <4>2 DEF InitializeWrite
        <5>2. row.ref = proc[p].r
          BY <1>1, <2>3, <5>1 DEF PaymentRow
        <5>3. QED
          BY <5>1, <5>2
      <4>3. QED
        BY <2>1, <4>1, <4>2
    <3>2. o # proc[p].o
      BY <1>1, <2>3, <3>1
    <3>3. QED
      BY <1>1, <3>1, <3>2 DEF Settled
  <2>5. QED
    BY <1>2, <2>4
<1>5. CASE \E p \in Requests : ApprovePayment(p)
  <2>1. PICK p \in Requests : ApprovePayment(p)
    BY <1>5
  <2>2. CASE payment' # payment
    <3>1. PICK row : /\ row = [st |-> "FULFILLED", ref |-> None, tx |-> None,
                               manual |-> TRUE]
                     /\ payment' = [payment EXCEPT ![proc[p].o] = row]
      BY <2>1, <2>2 DEF ApprovePayment
    <3>2. row.ref = None
      BY <3>1
    <3>3. o # proc[p].o
      BY <1>1, <3>1, <3>2, NoneIsNone
    <3>4. payment'[o] = payment[o]
      BY <1>1, <3>1, <3>3
    <3>5. QED
      BY <3>4 DEF Settled
  <2>3. QED
    BY <1>2, <2>2
<1>6. CASE \E p \in Requests : ReversalMark(p)
  <2>1. PICK u, st : /\ st \in {"REFUNDED", "REVERSED"}
                     /\ payment' = [payment EXCEPT ![u].st = st]
    BY <1>6 DEF ReversalMark
  <2>2. QED
    BY <1>1, <2>1 DEF Settled, PaymentRow
<1>7. QED
  BY <1>2, <1>3, <1>4, <1>5, <1>6, Writers DEF PaymentWriters

------------------------------------------------------------------------------
(* What is told, acknowledged and queued.                                  *)

TellWriters ==
    \/ sent' = sent
    \/ \E r \in Refs : GatewaySuccess(r) \/ GatewayReversal(r)

AckWriters ==
    \/ acked' = acked
    \/ \E p \in Requests : HookStep(p) /\ Acknowledge(p)

QueueWriters ==
    \/ fq' = fq
    \/ \E w \in FulfilWorkers : \/ \E r \in Refs : TakeFulfilJob(w, r)
                                \/ FulfilStep(w) /\ Return(w)
    \/ \E p \in Requests : HookEnqueue(p)
    \/ \E p \in Procs : HandlerThrows(p)
    \/ Crash

(* Every other step leaves them alone.                                     *)
LEMMA Tellers ==
    ASSUME Next
    PROVE  TellWriters /\ AckWriters /\ QueueWriters
<1> USE DEF TellWriters, AckWriters, QueueWriters
<1>1. \A p \in Requests : Return(p) => fq' = fq
  BY Kinds DEF Return
<1>2. CASE \E p \in Requests : StartRequest(p)
  BY <1>2 DEF StartRequest, InitPayment, Approve, Redeem, InitializeRead, PollStatus,
     Landing, AdminVerify, Retrieve, Reconcile, Deliver, gateway
<1>3. CASE \E p \in Requests \cup FulfilWorkers : FulfilStep(p)
  <2>1. PICK p \in Requests \cup FulfilWorkers : FulfilStep(p)
    BY <1>3
  <2>2. sent' = sent /\ acked' = acked
    BY <2>1 DEF FulfilStep, FulfilVerify, FulfilLoad, FulfilUnderpaid, FulfilRead,
       FulfilCommit, EnqueueProvisioning, gateway
  <2>3. fq' = fq \/ Return(p)
    BY <2>1 DEF FulfilStep, FulfilVerify, FulfilLoad, FulfilUnderpaid, FulfilRead,
       FulfilCommit, EnqueueProvisioning, gateway
  <2>4. QED
    BY <1>1, <2>1, <2>2, <2>3
<1>4. CASE \E p \in Requests : InitializeStep(p) \/ PortalStep(p)
  <2>1. PICK p \in Requests : InitializeStep(p) \/ PortalStep(p)
    BY <1>4
  <2>2. sent' = sent /\ acked' = acked
    BY <2>1 DEF InitializeStep, InitializeGateway, InitializeWrite, PortalStep,
       InitPaymentRow, InitPaymentGateway, LandingVerify, AdminVerifyAnswer,
       VerifiedCommit, RetrieveVerify, RetrieveCommit, ApprovePrior, ApprovePayment,
       ApproveVoucher, RedeemEnqueue, gateway
  <2>3. fq' = fq \/ Return(p)
    BY <2>1 DEF InitializeStep, InitializeGateway, InitializeWrite, PortalStep,
       InitPaymentRow, InitPaymentGateway, LandingVerify, AdminVerifyAnswer,
       VerifiedCommit, RetrieveVerify, RetrieveCommit, ApprovePrior, ApprovePayment,
       ApproveVoucher, RedeemEnqueue
  <2>4. QED
    BY <1>1, <2>2, <2>3
<1>5. CASE \E p \in Requests : HookStep(p)
  BY <1>5 DEF HookStep, HookFind, HookRecord, HookRecheck, HookEnqueue, ReversalFind,
     ReversalRevoke, ReversalMark, gateway
<1>6. CASE \E w \in ProvisionWorkers : ProvisionWorker(w)
  BY <1>6 DEF ProvisionWorker, TakeOrderJob, TakeVoucherJob, ProvisionStep,
     ProvisionVoucher, ProvisionMint, ProvisionPush, ProvisionSession, ProvisionCommit,
     VoucherPush, VoucherSession, VoucherCommit, gateway
<1>7. CASE \E w \in FulfilWorkers, r \in Refs : TakeFulfilJob(w, r)
  BY <1>7 DEF TakeFulfilJob, gateway
<1>8. CASE \/ \E o \in Orders : CreateOrder(o) \/ SubmitTransfer(o)
           \/ Gateway \/ (\E p \in Procs : HandlerThrows(p)) \/ Crash
  BY <1>8 DEF CreateOrder, SubmitTransfer, Gateway, GatewaySuccess,
     GatewayReversal, HandlerThrows, Crash, gateway
<1>9. QED
  BY <1>2, <1>3, <1>4, <1>5, <1>6, <1>7, <1>8 DEF Next, RequestStep, FulfilWorker

(* What was told stays told.                                               *)
LEMMA TellsLast == ASSUME Next PROVE sent \subseteq sent'
BY Tellers DEF TellWriters, GatewaySuccess, GatewayReversal

(* A job is queued for a reference that was told, and leaves the queue     *)
(* when its worker returns.                                                *)
LEMMA QueueSteps ==
    ASSUME Sane, Guarded, Next, NEW r \in Refs
    PROVE  /\ fq'[r].st # "none" => fq[r].st # "none" \/ \E e \in sent : e[2] = r
           /\ fq[r].st # "none" /\ fq'[r].st = "none" =>
                 \E w \in FulfilWorkers : /\ FulfilStep(w) /\ Return(w)
                                          /\ ~Free(w) /\ proc[w].r = r
<1>1. fq \in [Refs -> FulfilJob]
  BY Parts DEF Sane
<1>2. CASE fq' = fq
  BY <1>2
<1>3. CASE \E w \in FulfilWorkers, s \in Refs : TakeFulfilJob(w, s)
  BY <1>1, <1>3 DEF TakeFulfilJob, FulfilJob
<1>4. CASE \E w \in FulfilWorkers : FulfilStep(w) /\ Return(w)
  <2>1. PICK w \in FulfilWorkers : FulfilStep(w) /\ Return(w)
    BY <1>4
  <2>2. ~Free(w)
    BY <2>1 DEF FulfilStep, FulfilVerify, FulfilLoad, FulfilUnderpaid, FulfilRead,
       FulfilCommit, EnqueueProvisioning, At, Free
  <2>3. PICK none : none = NoJob /\ fq' = [fq EXCEPT ![proc[w].r] = none]
    BY <2>1 DEF Return
  <2>4. none.st = "none"
    BY <2>3 DEF NoJob
  <2>5. QED
    BY <1>1, <2>1, <2>2, <2>3, <2>4
<1>5. CASE \E p \in Requests : HookEnqueue(p)
  <2>1. PICK p \in Requests : HookEnqueue(p)
    BY <1>5
  <2>2. p \in Procs /\ proc[p].pc \in HookPC
    BY <2>1, Kinds DEF HookEnqueue, At, HookPC
  <2>3. <<proc[p].ev, proc[p].r>> \in sent
    BY <2>2 DEF Guarded, Holds
  <2>4. \E e \in sent : e[2] = proc[p].r
    BY <2>3
  <2>5. fq' = fq \/ \E job : job.st = "waiting" /\ fq' = [fq EXCEPT ![proc[p].r] = job]
    <3>1. PICK job : job = NewJob(FulfilAttempts)
      OBVIOUS
    <3>2. job.st = "waiting"
      BY <3>1 DEF NewJob
    <3>3. fq' = fq \/ fq' = [fq EXCEPT ![proc[p].r] = job]
      BY <2>1, <3>1 DEF HookEnqueue, FulfilAdd
    <3>4. QED
      BY <3>2, <3>3
  <2>6. QED
    BY <1>1, <2>4, <2>5
<1>6. CASE \E p \in Procs : HandlerThrows(p)
  <2>1. PICK p \in Procs : HandlerThrows(p)
    BY <1>6
  <2>2. CASE p \in FulfilWorkers
    <3>1. /\ fq' = [fq EXCEPT ![proc[p].r] = Retried(@)]
          /\ proc[p].r \in Refs /\ fq[proc[p].r].st = "active"
      BY <2>1, <2>2, InHand DEF HandlerThrows, Sane, FulfilJobs
    <3>2. Retried(fq[proc[p].r]).st # "none"
      BY <1>1, <3>1, RetriedType DEF Sane, FulfilJobs
    <3>3. QED
      BY <1>1, <3>1, <3>2
  <2>3. QED
    BY <1>2, <2>1, <2>2 DEF HandlerThrows
<1>7. CASE Crash
  BY <1>1, <1>7 DEF Crash, Stalled, FulfilJob
<1>8. QED
  BY <1>2, <1>3, <1>4, <1>5, <1>6, <1>7, Tellers DEF QueueWriters

(* So all of it stays true.                                                *)
LEMMA ToldKept ==
    ASSUME Sane, Referenced, Guarded, Next
    PROVE  Told'
<1>1. sent \subseteq Event /\ \A e \in sent : e[2] \in Refs /\ Taken(e[2])
  BY Parts DEF Sane, RowsOK, Event, Guarded, Told
<1>2. acked' \subseteq sent'
  <2>1. CASE \E p \in Requests : HookStep(p) /\ Acknowledge(p)
    <3>1. PICK p \in Requests : HookStep(p) /\ Acknowledge(p)
      BY <2>1
    <3>2. p \in Procs /\ proc[p].pc \in HookPC
      BY <3>1, Kinds DEF HookStep, HookFind, HookRecord, HookRecheck, HookEnqueue,
         ReversalFind, ReversalRevoke, ReversalMark, At, HookPC
    <3>3. TheEvent(p) \in sent
      BY <3>2 DEF Guarded, Holds, TheEvent
    <3>4. QED
      BY <3>1, <3>3, TellsLast DEF Acknowledge, Guarded, Told
  <2>2. QED
    BY <2>1, Tellers, TellsLast DEF AckWriters, Guarded, Told
<1>3. ASSUME NEW e \in sent' PROVE Taken(e[2])'
  <2>1. CASE e \in sent
    BY <1>1, <2>1, ChargesLast DEF Taken
  <2>2. CASE \E r \in Refs : GatewaySuccess(r) /\ e[2] = r
    BY <2>2, Parts DEF GatewaySuccess, Sane, RowsOK, Charge, Taken, Ever
  <2>3. CASE \E r \in Refs : GatewayReversal(r) /\ e[2] = r
    BY <2>3, SucceededIsTaken, ChargesLast DEF GatewayReversal, Taken
  <2>4. e \in sent \/ \E r \in Refs :
            e[2] = r /\ (GatewaySuccess(r) \/ GatewayReversal(r))
    <3>1. CASE \E r \in Refs : GatewaySuccess(r) \/ GatewayReversal(r)
      <4>1. PICK r \in Refs : GatewaySuccess(r) \/ GatewayReversal(r)
        BY <3>1
      <4>2. PICK ev : sent' = sent \cup {<<ev, r>>}
        BY <4>1 DEF GatewaySuccess, GatewayReversal
      <4>3. e \in sent \/ e[2] = r
        BY <1>3, <4>2
      <4>4. QED
        BY <4>1, <4>3
    <3>2. QED
      BY <1>3, <3>1, Tellers DEF TellWriters
  <2>5. QED
    BY <2>1, <2>2, <2>3, <2>4
<1>4. ASSUME NEW r \in Refs, fq'[r].st # "none" PROVE Taken(r)'
  <2>1. Taken(r)
    BY <1>1, <1>4, QueueSteps DEF Guarded, Told
  <2>2. QED
    BY <2>1, ChargesLast
<1>5. QED
  BY <1>2, <1>3, <1>4 DEF Told

------------------------------------------------------------------------------
(* What the handlers hold.                                                 *)

(* A handler that does not move.                                           *)
LEMMA HoldsLasts ==
    ASSUME Sane, Referenced, Guarded, Next, "refund.processed" \notin Emitted,
           NEW p \in Procs, proc'[p] = proc[p]
    PROVE  Holds(proc[p])'
<1>1. Holds(proc[p]) /\ proc[p] \in Handler
  BY InHand DEF Guarded
<1>2. proc[p].pc \in HookPC => <<proc[p].ev, proc[p].r>> \in sent'
  <2>1. sent \subseteq sent'
    BY TellsLast
  <2>2. QED
    BY <1>1, <2>1 DEF Holds
<1>3. ASSUME proc[p].pc \in {"ful_load", "ful_underpaid", "ful_read", "ful_commit", "land_commit"}
      PROVE  charge'[proc[p].r].st = charge[proc[p].r].st
  <2>1. Taken(proc[p].r)
    BY <1>3 DEF Referenced, Charges, VerifiedPC
  <2>2. proc[p].r \in Refs
    BY <1>3, InHand, FulfilPlaces, PortalPlaces DEF FulfilPC, VerifyPC
  <2>3. QED
    BY <2>1, <2>2, AnswersLast DEF Guarded
<1>4. proc[p].pc = "enqueue" /\ proc[p].r \in Refs =>
          Taken(proc[p].r)' /\ \A o \in Orders : payment'[o].ref = proc[p].r => Settled(o)'
  BY <1>1, SettledLasts, ChargesLast DEF Holds, Taken
<1>5. QED
  BY <1>1, <1>2, <1>3, <1>4 DEF Holds

------------------------------------------------------------------------------
(* What the handler that moves holds.                                      *)

(* Where a handler was told something.                                     *)
HoldingPC == HookPC \cup {"ful_load", "ful_underpaid", "ful_read", "ful_commit",
                          "land_commit", "enqueue"} \cup LenientPC

(* One handler moves, and what it was told is so.                          *)
Keeps(p) == Moved(p) /\ Holds(proc[p])'

(* Elsewhere nothing was told.                                             *)
LEMMA ElsewhereKeeps ==
    ASSUME NEW p \in Procs, Moved(p), proc'[p].pc \notin HoldingPC
    PROVE  Keeps(p)
<1>1. proc'[p].pc \notin HookPC \cup LenientPC \cup ApprovePC \cup
          {"ful_load", "ful_underpaid", "ful_read", "ful_commit", "land_commit", "enqueue"}
  BY DEF HoldingPC, LenientPC
<1>2. QED
  BY <1>1 DEF Keeps, Holds, HookPC

(* Most places are elsewhere.                                              *)
LEMMA HoldingPlaces ==
    /\ \A pc \in MintingPC \cup VoucherPC \cup
                 {"idle", "redeem_enqueue", "ful_verify", "land_verify", "prov_voucher",
                  "prov_push", "prov_session", "prov_commit"} :
          pc \notin HoldingPC
    /\ \A pc \in HookPC \cup {"ful_load", "ful_underpaid", "ful_read", "ful_commit",
                              "land_commit", "enqueue"} :
          pc \notin LenientPC
    /\ \A pc \in HookPC :
          pc \notin {"ful_load", "ful_underpaid", "ful_read", "ful_commit", "land_commit",
                     "enqueue"}
    /\ \A pc \in LenientPC :
          pc \notin HookPC \cup {"ful_load", "ful_underpaid", "ful_read", "ful_commit",
                                 "land_commit", "enqueue"}
    /\ ApprovePC \subseteq LenientPC
BY DEF MintingPC, VoucherPC, HoldingPC, HookPC, LenientPC, ApprovePC

(* A handler is done, or goes on or starts where nothing was told.         *)
LEMMA IdleKeeps ==
    ASSUME Sane, NEW p \in Procs, proc' = [proc EXCEPT ![p] = Idle]
    PROVE  Keeps(p)
BY IdleMoves, HoldingPlaces, ElsewhereKeeps

(* Nor does one that goes on to where it relies on none.                   *)
LEMMA GotoElsewhereKeeps ==
    ASSUME Sane, NEW p \in Procs, NEW pc, Goto(p, pc), pc \notin HoldingPC
    PROVE  Keeps(p)
BY GotoMoves, ElsewhereKeeps

(* Nor does one that starts there.                                         *)
LEMMA StartElsewhereKeeps ==
    ASSUME Sane, NEW p \in Procs, NEW pc, NEW o, NEW r, Start(p, pc, o, r),
           pc \notin HoldingPC
    PROVE  Keeps(p)
BY StartMoves, ElsewhereKeeps

(* A handler goes on where short payments are accepted.                    *)
LEMMA LenientKeeps ==
    ASSUME NEW p \in Procs, Moved(p), proc'[p].pc \in LenientPC, ~FullOnly,
           proc'[p].pc \in ApprovePC => proc'[p].r = None
    PROVE  Keeps(p)
<1>1. proc'[p].pc \notin HookPC \cup {"ful_load", "ful_underpaid", "ful_read", "ful_commit",
                                      "land_commit", "enqueue", "rev_find", "rev_revoke"}
  BY HoldingPlaces DEF HookPC
<1>2. QED
  BY <1>1 DEF Keeps, Holds, FullOnly

(* A handler goes on with a transaction whose state it was told.           *)
LEMMA AnswerKeeps ==
    ASSUME NEW p \in Procs, Moved(p), NEW r, proc'[p].r = r,
           proc'[p].pc \in {"ful_load", "ful_underpaid", "ful_read", "ful_commit",
                            "land_commit"},
           proc'[p].pc = "ful_load" =>
               charge'[r].st = IF proc'[p].flag THEN "short" ELSE "paid",
           proc'[p].pc = "ful_underpaid" => charge'[r].st = "short",
           proc'[p].pc \in {"ful_read", "ful_commit", "land_commit"} => charge'[r].st = "paid"
    PROVE  Keeps(p)
<1>1. proc'[p].pc \notin HookPC \cup LenientPC \cup ApprovePC
  BY HoldingPlaces
<1>2. QED
  BY <1>1 DEF Keeps, Holds, HookPC

(* A handler of the webhook goes on with its event.                        *)
LEMMA EventKeeps ==
    ASSUME NEW p \in Procs, Moved(p), proc'[p].pc \in HookPC,
           <<proc'[p].ev, proc'[p].r>> \in sent',
           proc'[p].pc \in {"rev_find", "rev_revoke"} => proc'[p].ev # "charge.success"
    PROVE  Keeps(p)
<1>1. proc'[p].pc \notin LenientPC \cup ApprovePC \cup
          {"ful_load", "ful_underpaid", "ful_read", "ful_commit", "land_commit", "enqueue"}
  BY HoldingPlaces
<1>2. QED
  BY <1>1 DEF Keeps, Holds

(* A handler goes on to provisioning with a settled reference, or none.    *)
LEMMA EnqueueKeeps ==
    ASSUME NEW p \in Procs, Moved(p), proc'[p].pc = "enqueue",
           NEW r, proc'[p].r = r,
           r \in Refs => Taken(r)' /\ \A o \in Orders : payment'[o].ref = r => Settled(o)'
    PROVE  Keeps(p)
<1>1. proc'[p].pc \notin LenientPC \cup ApprovePC \cup HookPC
  BY HoldingPlaces
<1>2. QED
  BY <1>1 DEF Keeps, Holds, HookPC, Taken, Settled

(* Requests that start.                                                    *)
LEMMA StartRequestKeeps ==
    ASSUME Sane, NEW p \in Requests, StartRequest(p), proc' # proc
    PROVE  Keeps(p)
<1>1. p \in Procs
  BY Kinds
<1>2. CASE \E o \in Orders : InitPayment(p, o) \/ PollStatus(p, o) \/ Landing(p, o)
  <2>1. PICK o, r, pc : /\ Start(p, pc, o, r)
                        /\ pc \in {"init_payment", "ful_verify", "land_verify"}
    BY <1>2 DEF InitPayment, PollStatus, Landing
  <2>2. QED
    BY <1>1, <2>1, StartElsewhereKeeps, HoldingPlaces DEF MintingPC
<1>3. CASE \E o \in Orders : InitializeRead(p, o)
  <2>1. Moved(p) /\ proc'[p].pc = "reinit_gateway"
    BY <1>1, <1>3, Parts DEF InitializeRead, Sane, Moved, Idle
  <2>2. QED
    BY <1>1, <2>1, ElsewhereKeeps, HoldingPlaces DEF MintingPC
<1>4. CASE \E o \in Orders : AdminVerify(p, o) \/ Retrieve(p, o) \/ Approve(p, o)
  <2>1. ~FullOnly
    BY <1>4 DEF AdminVerify, Retrieve, Approve, FullOnly
  <2>2. PICK o, r, pc : /\ Start(p, pc, o, r)
                        /\ pc \in {"adm_verify", "ret_verify", "apr_prior", "enqueue"}
                        /\ pc \in {"apr_prior", "enqueue"} => r = None
    BY <1>4 DEF AdminVerify, Retrieve, Approve
  <2>3. /\ Moved(p) /\ proc'[p].pc = pc /\ proc'[p].r = r
        /\ pc \in ApprovePC => pc = "apr_prior"
    BY <1>1, <2>2, StartMoves DEF ApprovePC
  <2>4. CASE pc = "enqueue"
    BY <1>1, <2>2, <2>3, <2>4, NoneIsNone, EnqueueKeeps
  <2>5. CASE pc # "enqueue"
    BY <1>1, <2>1, <2>2, <2>3, <2>5, LenientKeeps DEF LenientPC, ApprovePC
  <2>6. QED
    BY <2>4, <2>5
<1>5. CASE \E v \in Vouchers : Redeem(p, v)
  <2>1. Moved(p) /\ proc'[p].pc = "redeem_enqueue"
    BY <1>1, <1>5, Parts DEF Redeem, Sane, Moved, Idle
  <2>2. QED
    BY <1>1, <2>1, ElsewhereKeeps, HoldingPlaces
<1>6. CASE \E e \in sent : Deliver(p, e)
  <2>1. PICK e \in sent : Deliver(p, e)
    BY <1>6
  <2>2. /\ Moved(p) /\ proc'[p].pc = "hook_find" /\ sent' = sent
        /\ proc'[p].ev = e[1] /\ proc'[p].r = e[2]
    BY <1>1, <2>1, Parts DEF Deliver, Sane, Moved, Idle, gateway
  <2>3. e = <<e[1], e[2]>>
    BY <2>1, Parts DEF Sane, RowsOK, Event
  <2>4. QED
    BY <1>1, <2>1, <2>2, <2>3, EventKeeps DEF HookPC
<1>7. CASE \E o \in Orders : Reconcile(p, o)
  <2>1. PICK o \in Orders : Start(p, "enqueue", o, None)
    BY <1>7 DEF Reconcile
  <2>2. Moved(p) /\ proc'[p].pc = "enqueue" /\ proc'[p].r = None
    BY <1>1, <2>1, StartMoves
  <2>3. QED
    BY <1>1, <2>2, NoneIsNone, EnqueueKeeps
<1>8. QED
  BY <1>2, <1>3, <1>4, <1>5, <1>6, <1>7 DEF StartRequest

(* A commit goes on with the reference it settled.                         *)
LEMMA CommitKeeps ==
    ASSUME Sane, Referenced, NEW p \in Procs, Commit(p)
    PROVE  Keeps(p)
<1>1. PICK r \in Refs, u \in Orders : r = proc[p].r /\ u = proc[p].o
  BY CommitFacts
<1>2. Moved(p) /\ proc'[p].pc = "enqueue" /\ proc'[p].r = r
  BY <1>1, CommitFacts, GotoMoves
<1>3. Taken(r)'
  <2>1. Taken(r)
    BY <1>1, CommitFacts DEF Referenced, Charges
  <2>2. QED
    BY <2>1, CommitFacts DEF Taken
<1>4. ASSUME NEW o \in Orders, payment'[o].ref = r PROVE Settled(o)'
  <2>1. Owns(r, o) /\ Owns(r, u)
    BY <1>1, <1>4, CommitFacts DEF Owns
  <2>2. o = u
    BY <1>1, <2>1 DEF Referenced, OneOwner
  <2>3. QED
    BY <1>1, <2>2, CommitFacts DEF Settled
<1>5. QED
  BY <1>2, <1>3, <1>4, EnqueueKeeps

(* fulfill() travels with the gateway's answer.                            *)
LEMMA FulfilStepKeeps ==
    ASSUME Sane, Referenced, Guarded, NEW p \in Requests \cup FulfilWorkers, FulfilStep(p)
    PROVE  Keeps(p)
<1>1. p \in Procs /\ proc \in [Procs -> Handler] /\ Holds(proc[p])
  BY Kinds, Parts DEF Sane, Guarded
<1>2. CASE proc' = [proc EXCEPT ![p] = Idle]
  BY <1>1, <1>2, IdleKeeps
<1>3. CASE FulfilCommit(p)
  BY <1>1, <1>3, CommitKeeps DEF Commit
<1>4. PICK r : r = proc[p].r
  OBVIOUS
<1>5. CASE FulfilVerify(p) /\ Succeeded(proc[p].r)
  <2>1. PICK flag : /\ flag = (charge[r].st = "short")
                    /\ proc' = [proc EXCEPT ![p].pc = "ful_load", ![p].flag = flag]
    BY <1>4, <1>5 DEF FulfilVerify
  <2>2. Moved(p) /\ proc'[p].pc = "ful_load" /\ proc'[p].r = r /\ proc'[p].flag = flag
    BY <1>1, <1>4, <2>1 DEF Moved, Handler
  <2>3. charge'[r].st = charge[r].st /\ charge[r].st \in {"paid", "short"}
    BY <1>4, <1>5 DEF FulfilVerify, Succeeded, gateway
  <2>4. charge'[r].st = IF proc'[p].flag THEN "short" ELSE "paid"
    BY <2>1, <2>2, <2>3
  <2>5. QED
    BY <1>1, <2>2, <2>4, AnswerKeeps
<1>6. CASE FulfilLoad(p) /\ ~Return(p)
  <2>1. PICK o, pc :
            /\ pc = IF proc[p].flag THEN "ful_underpaid" ELSE "ful_read"
            /\ proc' = [proc EXCEPT ![p].o = o, ![p].pc = pc]
    BY <1>6 DEF FulfilLoad
  <2>2. Moved(p) /\ proc'[p].pc = pc /\ proc'[p].r = r
    BY <1>1, <1>4, <2>1 DEF Moved, Handler
  <2>3. charge'[r].st = IF proc[p].flag THEN "short" ELSE "paid"
    BY <1>1, <1>4, <1>6 DEF FulfilLoad, At, Holds, gateway
  <2>4. QED
    BY <1>1, <2>1, <2>2, <2>3, AnswerKeeps
<1>7. CASE FulfilRead(p) /\ Goto(p, "ful_commit")
  <2>1. charge'[r].st = "paid"
    BY <1>1, <1>4, <1>7 DEF FulfilRead, At, Holds, gateway
  <2>2. QED
    BY <1>1, <1>4, <1>7, <2>1, GotoMoves, AnswerKeeps
<1>8. QED
  BY <1>2, <1>3, <1>5, <1>6, <1>7 DEF FulfilStep, FulfilVerify, FulfilLoad,
     FulfilUnderpaid, FulfilRead, EnqueueProvisioning, Return

(* The webhook travels with the event it was sent.                         *)
LEMMA HookStepKeeps ==
    ASSUME Sane, Guarded, NEW p \in Requests, HookStep(p)
    PROVE  Keeps(p)
<1>1. p \in Procs /\ proc \in [Procs -> Handler] /\ Holds(proc[p]) /\ proc[p].pc \in HookPC
  BY Kinds, Parts DEF Sane, Guarded, HookStep, HookFind, HookRecord, HookRecheck,
     HookEnqueue, ReversalFind, ReversalRevoke, ReversalMark, At, HookPC
<1>2. <<proc[p].ev, proc[p].r>> \in sent'
  BY <1>1 DEF Holds, HookStep, HookFind, HookRecord, HookRecheck, HookEnqueue, ReversalFind,
     ReversalRevoke, ReversalMark, gateway
<1>3. CASE proc' = [proc EXCEPT ![p] = Idle]
  BY <1>1, <1>3, IdleKeeps
<1>4. ASSUME NEW pc \in HookPC, Goto(p, pc),
             pc \in {"rev_find", "rev_revoke"} => proc[p].ev # "charge.success"
      PROVE  Keeps(p)
  <2>1. /\ Moved(p) /\ proc'[p].pc = pc /\ proc'[p].ev = proc[p].ev
        /\ proc'[p].r = proc[p].r
    BY <1>1, <1>4, GotoMoves
  <2>2. QED
    BY <1>1, <1>2, <1>4, <2>1, EventKeeps
<1>5. CASE HookFind(p) \/ HookRecord(p) \/ HookRecheck(p)
  <2>1. \/ proc' = [proc EXCEPT ![p] = Idle]
        \/ \E pc \in {"hook_record", "hook_recheck", "hook_enqueue"} : Goto(p, pc)
        \/ proc[p].ev # "charge.success" /\ Goto(p, "rev_find")
    BY <1>5 DEF HookFind, HookRecord, HookRecheck, Acknowledge
  <2>2. QED
    BY <1>3, <1>4, <2>1 DEF HookPC
<1>6. CASE ReversalFind(p) /\ ~Acknowledge(p)
  <2>1. PICK o, todo :
            proc' = [proc EXCEPT ![p].pc = "rev_revoke", ![p].o = o, ![p].todo = todo]
    BY <1>6 DEF ReversalFind
  <2>2. /\ Moved(p) /\ proc'[p].pc = "rev_revoke" /\ proc'[p].ev = proc[p].ev
        /\ proc'[p].r = proc[p].r
    BY <1>1, <2>1 DEF Moved, Handler
  <2>3. proc[p].ev # "charge.success"
    BY <1>1, <1>6 DEF ReversalFind, At, Holds
  <2>4. QED
    BY <1>1, <1>2, <2>2, <2>3, EventKeeps DEF HookPC
<1>7. CASE ReversalRevoke(p)
  <2>1. PICK v : proc' = [proc EXCEPT ![p].todo = @ \ {v}]
    BY <1>7 DEF ReversalRevoke
  <2>2. /\ Moved(p) /\ proc'[p].pc = "rev_revoke" /\ proc'[p].ev = proc[p].ev
        /\ proc'[p].r = proc[p].r /\ proc[p].pc = "rev_revoke"
    BY <1>1, <1>7, <2>1 DEF ReversalRevoke, At, Moved, Handler
  <2>3. proc[p].ev # "charge.success"
    BY <1>1, <2>2 DEF Holds
  <2>4. QED
    BY <1>1, <1>2, <2>2, <2>3, EventKeeps DEF HookPC
<1>8. QED
  BY <1>3, <1>5, <1>6, <1>7 DEF HookStep, HookEnqueue, ReversalFind, ReversalMark, Acknowledge
(* The portal's handlers and the owner's approval.                         *)
LEMMA PortalStepKeeps ==
    ASSUME Sane, Referenced, Guarded, NEW p \in Requests, PortalStep(p)
    PROVE  Keeps(p)
<1>1. p \in Procs /\ proc \in [Procs -> Handler] /\ Holds(proc[p])
  BY Kinds, Parts DEF Sane, Guarded
<1>2. CASE VerifiedCommit(p) \/ RetrieveCommit(p)
  BY <1>1, <1>2, CommitKeeps DEF Commit
<1>3. CASE proc' = [proc EXCEPT ![p] = Idle]
  BY <1>1, <1>3, IdleKeeps
<1>4. CASE Goto(p, "init_gateway")
  BY <1>1, <1>4, GotoElsewhereKeeps, HoldingPlaces DEF MintingPC
<1>5. CASE LandingVerify(p) /\ ~Return(p)
  <2>1. PICK r : r = proc[p].r
    OBVIOUS
  <2>2. Goto(p, "land_commit") /\ charge'[r].st = "paid"
    BY <1>5, <2>1 DEF LandingVerify, gateway
  <2>3. QED
    BY <1>1, <2>1, <2>2, GotoMoves, AnswerKeeps
<1>6. CASE \/ At(p, "adm_verify") /\ Goto(p, "adm_commit")
           \/ At(p, "ret_verify") /\ Goto(p, "ret_commit")
           \/ At(p, "apr_prior") /\ Goto(p, "apr_payment")
           \/ At(p, "apr_payment") /\ Goto(p, "apr_voucher")
  <2>1. PICK pc \in LenientPC : /\ Goto(p, pc) /\ proc[p].pc \in LenientPC
                                /\ pc \in ApprovePC => proc[p].pc \in ApprovePC
    BY <1>6 DEF LenientPC, ApprovePC, At
  <2>2. ~FullOnly /\ (pc \in ApprovePC => proc[p].r = None)
    BY <1>1, <2>1 DEF Holds
  <2>3. QED
    BY <1>1, <2>1, <2>2, GotoMoves, LenientKeeps
<1>7. CASE ApproveVoucher(p)
  <2>1. proc[p].r = None /\ Goto(p, "enqueue")
    BY <1>1, <1>7 DEF ApproveVoucher, At, Holds, ApprovePC
  <2>2. QED
    BY <1>1, <2>1, NoneIsNone, GotoMoves, EnqueueKeeps
<1>8. QED
  BY <1>2, <1>3, <1>4, <1>5, <1>6, <1>7 DEF PortalStep, InitPaymentRow, InitPaymentGateway,
     LandingVerify, AdminVerifyAnswer, RetrieveVerify, ApprovePrior, ApprovePayment,
     RedeemEnqueue, Return

(* Opening a transaction needs no answer.                                  *)
LEMMA InitializeStepKeeps ==
    ASSUME Sane, NEW p \in Requests, InitializeStep(p)
    PROVE  Keeps(p)
<1>1. p \in Procs
  BY Kinds
<1>2. CASE proc' = [proc EXCEPT ![p] = Idle]
  BY <1>1, <1>2, IdleKeeps
<1>3. CASE Goto(p, "reinit_write")
  BY <1>1, <1>3, GotoElsewhereKeeps, HoldingPlaces DEF MintingPC
<1>4. QED
  BY <1>2, <1>3 DEF InitializeStep, InitializeGateway, InitializeWrite, Return

(* The provisioning worker finds a voucher wherever short payments are     *)
(* refused, and so never mints one there.                                  *)
LEMMA ProvisionWorkerKeeps ==
    ASSUME Sane, Granted, Guarded, NEW w \in ProvisionWorkers, ProvisionWorker(w)
    PROVE  Keeps(w)
<1>1. w \in Procs /\ proc \in [Procs -> Handler]
  BY Kinds, Parts DEF Sane
<1>2. CASE proc' = [proc EXCEPT ![w] = Idle]
  BY <1>1, <1>2, IdleKeeps
<1>3. CASE ProvisionVoucher(w)
  <2>1. /\ ~Free(w) /\ proc[w].pc \in OrderPC /\ proc[w].o \in Orders
    BY <1>3, WorkerInHand DEF ProvisionVoucher, At, Free, OrderPC
  <2>2. pq[proc[w].o].st # "none"
    BY <2>1, JobType
  <2>3. CASE VouchersOf(proc[w].o) = {}
    <3>1. ~FullOnly
      BY <2>1, <2>2, <2>3 DEF Guarded, Strict
    <3>2. PICK flag : proc' = [proc EXCEPT ![w].pc = "prov_mint", ![w].flag = flag]
      BY <1>3, <2>3 DEF ProvisionVoucher
    <3>3. Moved(w) /\ proc'[w].pc = "prov_mint"
      BY <1>1, <3>2 DEF Moved, Handler
    <3>4. QED
      BY <1>1, <3>1, <3>3, LenientKeeps DEF LenientPC, ApprovePC
  <2>4. CASE VouchersOf(proc[w].o) # {}
    <3>1. payment[proc[w].o].st # "NONE"
      BY <2>1, <2>2 DEF Granted, JobsPaid, PaidFor
    <3>2. PICK v : proc' = [proc EXCEPT ![w].pc = "prov_push", ![w].v = v]
      BY <1>3, <2>4, <3>1 DEF ProvisionVoucher
    <3>3. Moved(w) /\ proc'[w].pc = "prov_push"
      BY <1>1, <3>2 DEF Moved, Handler
    <3>4. QED
      BY <1>1, <3>3, ElsewhereKeeps, HoldingPlaces
  <2>5. QED
    BY <2>3, <2>4
<1>4. CASE ProvisionMint(w)
  <2>1. PICK v : proc' = [proc EXCEPT ![w].pc = "prov_push", ![w].v = v]
    BY <1>4 DEF ProvisionMint
  <2>2. Moved(w) /\ proc'[w].pc = "prov_push"
    BY <1>1, <2>1 DEF Moved, Handler
  <2>3. QED
    BY <1>1, <2>2, ElsewhereKeeps, HoldingPlaces
<1>5. CASE \E pc \in {"prov_session", "prov_commit"} \cup VoucherPC : Goto(w, pc)
  BY <1>1, <1>5, GotoElsewhereKeeps, HoldingPlaces
<1>6. CASE \E o \in Orders : TakeOrderJob(w, o)
  BY <1>1, <1>6, StartElsewhereKeeps, HoldingPlaces DEF TakeOrderJob
<1>7. CASE \E v \in Vouchers : TakeVoucherJob(w, v)
  <2>1. Moved(w) /\ proc'[w].pc = "vprov_push"
    BY <1>1, <1>7, Parts DEF TakeVoucherJob, Sane, Moved, Idle
  <2>2. QED
    BY <1>1, <2>1, ElsewhereKeeps, HoldingPlaces DEF VoucherPC
<1>8. QED
  BY <1>2, <1>3, <1>4, <1>5, <1>6, <1>7
     DEF ProvisionWorker, ProvisionStep, ProvisionPush, ProvisionSession, ProvisionCommit,
         VoucherPush, VoucherSession, VoucherCommit, Complete, VoucherPC

(* Whoever moves holds what is so, and the others what they held.          *)
LEMMA HoldsKept ==
    ASSUME Sane, Referenced, Granted, Guarded, Next, "refund.processed" \notin Emitted
    PROVE  \A p \in Procs : Holds(proc[p])'
<1>1. ASSUME NEW q \in Procs, Keeps(q) PROVE \A p \in Procs : Holds(proc[p])'
  BY <1>1, HoldsLasts DEF Keeps, Moved
<1>2. CASE proc' = proc
  BY <1>2, HoldsLasts
<1>3. CASE proc' # proc /\ \E p \in Requests : StartRequest(p) \/ RequestStep(p)
  BY <1>1, <1>3, Kinds, StartRequestKeeps, FulfilStepKeeps, InitializeStepKeeps,
     HookStepKeeps, PortalStepKeeps DEF RequestStep
<1>4. CASE \E w \in FulfilWorkers : FulfilWorker(w)
  <2>1. PICK w \in FulfilWorkers : FulfilWorker(w)
    BY <1>4
  <2>2. CASE FulfilStep(w)
    BY <1>1, <2>1, <2>2, Kinds, FulfilStepKeeps
  <2>3. CASE \E r \in Refs : TakeFulfilJob(w, r)
    BY <1>1, <2>3, Kinds, StartElsewhereKeeps, HoldingPlaces DEF TakeFulfilJob
  <2>4. QED
    BY <2>1, <2>2, <2>3 DEF FulfilWorker
<1>5. CASE \E w \in ProvisionWorkers : ProvisionWorker(w)
  BY <1>1, <1>5, Kinds, ProvisionWorkerKeeps
<1>6. CASE \E p \in Procs : HandlerThrows(p)
  BY <1>1, <1>6, IdleKeeps DEF HandlerThrows
<1>7. CASE Crash
  <2>1. \A p \in Procs : proc'[p].pc = "idle"
    BY <1>7, IdleType DEF Crash
  <2>2. QED
    BY <2>1, HoldingPlaces DEF Holds, HoldingPC, HookPC, LenientPC
<1>8. CASE (\E o \in Orders : CreateOrder(o) \/ SubmitTransfer(o)) \/ Gateway
  BY <1>2, <1>8 DEF CreateOrder, SubmitTransfer, Gateway, GatewaySuccess,
     GatewayReversal
<1>9. QED
  BY <1>2, <1>3, <1>4, <1>5, <1>6, <1>7, <1>8 DEF Next

------------------------------------------------------------------------------
(* The full amount.                                                        *)

(* The order of a full payment keeps it.                                   *)
LEMMA FullLasts ==
    ASSUME Sane, Referenced, Guarded, Next, "refund.processed" \notin Emitted,
           NEW o, PaidAtGateway(o, {"paid"})
    PROVE  PaidAtGateway(o, {"paid"})'
<1>1. PICK r \in Refs : charge[r].order = o /\ charge[r].st = "paid"
  BY DEF PaidAtGateway
<1>2. Taken(r)
  BY <1>1 DEF Taken, Ever
<1>3. charge'[r].order = o /\ charge'[r].st = "paid"
  BY <1>1, <1>2, AnswersLast, ChargesLast DEF Guarded
<1>4. QED
  BY <1>3 DEF PaidAtGateway

(* A new voucher is for a full payment.                                    *)
LEMMA GrantIsFull ==
    ASSUME Sane, Referenced, Granted, Guarded, Next, FullOnly, NEW v \in Vouchers,
           voucher[v].st = "NONE", voucher'[v].st # "NONE"
    PROVE  PaidAtGateway(voucher'[v].pay, {"paid"})
<1>1. \A p \in Procs : proc[p].pc \notin LenientPC
  BY DEF Guarded, Holds
<1>2. CASE \E p \in Requests \cup FulfilWorkers : Commit(p) /\ voucher'[v].pay = proc[p].o
  <2>1. PICK p \in Requests \cup FulfilWorkers : Commit(p) /\ voucher'[v].pay = proc[p].o
    BY <1>2
  <2>2. p \in Procs /\ proc[p].r \in Refs /\ charge[proc[p].r].order = proc[p].o
    BY <2>1, Kinds, CommitFacts, CommitIsPaidFor
  <2>3. proc[p].pc \in {"ful_commit", "land_commit"}
    BY <1>1, <2>1, <2>2
       DEF Commit, FulfilCommit, VerifiedCommit, RetrieveCommit, At, LenientPC
  <2>4. charge[proc[p].r].st = "paid"
    BY <2>2, <2>3 DEF Guarded, Holds
  <2>5. QED
    BY <2>1, <2>2, <2>4 DEF PaidAtGateway
<1>3. ~\E p \in Requests : ApproveVoucher(p)
  BY <1>1, Kinds DEF ApproveVoucher, At, LenientPC, ApprovePC
<1>4. ~\E w \in ProvisionWorkers : ProvisionMint(w)
  BY <1>1, Kinds DEF ProvisionMint, At, LenientPC
<1>5. QED
  BY <1>2, <1>3, <1>4, NewVouchers

(* Every voucher is of a full payment, the new ones and the old.           *)
LEMMA UnderpaymentKept ==
    ASSUME Sane, Referenced, Granted, Guarded, Next, FullOnly,
           "refund.processed" \notin Emitted
    PROVE  UnderpaymentGuard'
<1>1. ASSUME NEW v \in Vouchers, voucher'[v].st # "NONE"
      PROVE  PaidAtGateway(voucher'[v].pay, {"paid"})
  <2>1. CASE voucher[v].st = "NONE"
    BY <1>1, <2>1, GrantIsFull
  <2>2. CASE voucher[v].st # "NONE"
    BY <2>2, VouchersStay DEF Guarded, Strict, UnderpaymentGuard, VouchersLast
  <2>3. QED
    BY <2>1, <2>2
<1>2. ASSUME NEW v \in Vouchers, voucher'[v].st # "NONE"
      PROVE  PaidAtGateway(voucher[v].pay, {"paid"})'
  <2>1. PICK o : o = voucher'[v].pay /\ PaidAtGateway(o, {"paid"})
    BY <1>1, <1>2
  <2>2. PaidAtGateway(o, {"paid"})'
    BY <2>1, FullLasts
  <2>3. QED
    BY <2>1, <2>2 DEF PaidAtGateway
<1>3. QED
  BY <1>2 DEF UnderpaymentGuard

(* Nothing is approved, and so nothing is queued without a voucher.        *)
LEMMA StrictKept ==
    ASSUME Sane, Referenced, Granted, Guarded, Next, FullOnly,
           "refund.processed" \notin Emitted
    PROVE  Strict'
<1>1. payment \in [Orders -> PaymentRow] /\ \A o \in Orders : ~payment[o].manual
  BY Parts DEF Sane, RowsOK, Guarded, Strict
<1>2. ASSUME NEW o \in Orders PROVE ~payment'[o].manual
  <2>1. CASE payment' = payment
    BY <1>1, <2>1
  <2>2. CASE \E p \in Requests \cup FulfilWorkers : Commit(p)
    BY <1>1, <2>2, CommitFacts, Kinds
  <2>3. CASE \E p \in Requests : InitPaymentRow(p) /\ payment' # payment
    <3>1. PICK u, row : row.manual = FALSE /\ payment' = [payment EXCEPT ![u] = row]
      BY <2>3 DEF InitPaymentRow
    <3>2. QED
      BY <1>1, <3>1
  <2>4. CASE \E p \in Requests : InitializeWrite(p)
    BY <1>1, <2>4 DEF InitializeWrite, PaymentRow
  <2>5. CASE \E p \in Requests : ReversalMark(p)
    BY <1>1, <2>5 DEF ReversalMark, PaymentRow
  <2>6. ~\E p \in Requests : ApprovePayment(p)
    BY Kinds DEF Guarded, Holds, ApprovePayment, At, LenientPC, ApprovePC
  <2>7. QED
    BY <2>1, <2>2, <2>3, <2>4, <2>5, <2>6, Writers DEF PaymentWriters
<1>3. ASSUME NEW o \in Orders, pq'[o].st # "none" PROVE VouchersOf(o)' # {}
  <2>1. VouchersOf(o) # {}
    BY <1>1, <1>3, JobSteps DEF Guarded, Strict, Approved
  <2>2. QED
    BY <2>1, VouchersOfLast
<1>4. QED
  BY <1>2, <1>3, UnderpaymentKept DEF Strict

------------------------------------------------------------------------------
(* The acknowledgement.                                                    *)

(* What is acknowledged was sent.                                          *)
LEMMA AckSteps ==
    ASSUME Sane, Guarded, Next, NEW e \in acked'
    PROVE  /\ e \in sent
           /\ \/ e \in acked
              \/ \E p \in Requests : HookStep(p) /\ e = TheEvent(p) /\ acked' # acked
<1>1. CASE e \in acked
  BY <1>1 DEF Guarded, Told
<1>2. CASE e \notin acked
  <2>1. PICK p \in Requests : HookStep(p) /\ Acknowledge(p)
    BY <1>2, Tellers DEF AckWriters
  <2>2. p \in Procs /\ proc[p].pc \in HookPC
    BY <2>1, Kinds DEF HookStep, HookFind, HookRecord, HookRecheck, HookEnqueue,
       ReversalFind, ReversalRevoke, ReversalMark, At, HookPC
  <2>3. TheEvent(p) \in sent
    BY <2>2 DEF Guarded, Holds, TheEvent
  <2>4. QED
    BY <1>2, <2>1, <2>3 DEF Acknowledge
<1>3. QED
  BY <1>1, <1>2

(* A payment acknowledged now is settled, or has its job.                  *)
LEMMA NewAckStands ==
    ASSUME Sane, Guarded, Next, NEW p \in Requests, HookStep(p), acked' # acked,
           NEW r \in Refs, TheEvent(p) = <<"charge.success", r>>,
           NEW o \in Orders, payment[o].ref = r
    PROVE  Settled(o) \/ fq'[r].st # "none"
<1>1. p \in Procs /\ proc[p].ev = "charge.success" /\ proc[p].r = r
  BY Kinds DEF TheEvent
<1>2. ~At(p, "rev_find") /\ ~At(p, "rev_revoke")
  BY <1>1 DEF Guarded, Holds, At
<1>3. o \in PaymentOrders(r)
  BY NoneIsNone DEF PaymentOrders, Sane, PaymentRows, NoPayment
<1>4. CASE HookRecheck(p)
  BY <1>1, <1>3, <1>4 DEF HookRecheck, Settled
<1>5. CASE HookEnqueue(p)
  <2>1. PICK job : job = NewJob(FulfilAttempts)
    OBVIOUS
  <2>2. job.st = "waiting"
    BY <2>1 DEF NewJob
  <2>3. fq' = IF fq[r].st = "none" THEN [fq EXCEPT ![r] = job] ELSE fq
    BY <1>1, <1>5, <2>1 DEF HookEnqueue, FulfilAdd
  <2>4. QED
    BY <2>2, <2>3, Parts DEF Sane
<1>6. QED
  BY <1>1, <1>2, <1>4, <1>5 DEF HookStep, HookFind, HookRecord, ReversalFind,
     ReversalRevoke, ReversalMark, gateway

(* An order due a refund is, until it is given a voucher.                  *)
LEMMA RefundStands ==
    ASSUME Sane, Granted, Next, "approve" \notin Enabled, NEW o \in Orders,
           order[o] = "REFUND_REQUIRED"
    PROVE  order'[o] = "REFUND_REQUIRED" \/ VouchersOf(o)' # {}
<1>1. order \in [Orders -> OrderStatus]
  BY Parts DEF Sane, RowsOK
<1>2. CASE order' = order
  BY <1>2
<1>3. CASE \E p \in Requests \cup FulfilWorkers : Commit(p)
  <2>1. PICK p \in Requests \cup FulfilWorkers : Commit(p)
    BY <1>3
  <2>2. CASE proc[p].o = o
    BY <2>1, <2>2, CommitFacts, NewVoucherRow, Kinds DEF VouchersOf
  <2>3. CASE proc[p].o # o
    BY <1>1, <2>1, <2>3 DEF Commit, FulfilCommit, VerifiedCommit, RetrieveCommit
  <2>4. QED
    BY <2>2, <2>3
<1>4. CASE \E p \in Requests \cup FulfilWorkers : FulfilUnderpaid(p)
  BY <1>1, <1>4 DEF FulfilUnderpaid
<1>5. CASE \E w \in ProvisionWorkers :
              ProvisionPush(w) \/ ProvisionSession(w) \/ ProvisionCommit(w)
  <2>1. PICK w \in ProvisionWorkers :
              ProvisionPush(w) \/ ProvisionSession(w) \/ ProvisionCommit(w)
    BY <1>5
  <2>2. /\ order' = order \/ order' = [order EXCEPT ![proc[w].o] = "ACTIVE"]
        /\ proc[w].pc \in GrantedPC /\ w \in Procs
    BY <2>1, Kinds DEF ProvisionPush, ProvisionSession, ProvisionCommit, At, GrantedPC
  <2>3. CASE proc[w].o = o
    BY <2>2, <2>3, VouchersOfLast DEF Granted, Knows
  <2>4. CASE proc[w].o # o
    BY <1>1, <2>2, <2>4
  <2>5. QED
    BY <2>3, <2>4
<1>6. CASE \E u \in Orders : \/ \E p \in Requests : InitPayment(p, u)
                             \/ CreateOrder(u) \/ SubmitTransfer(u)
  <2>1. PICK u \in Orders : /\ order[u] = "NONE"
                            /\ order' = [order EXCEPT ![u] = "AWAITING_PAYMENT"]
    BY <1>6 DEF InitPayment, CreateOrder, SubmitTransfer
  <2>2. QED
    BY <1>1, <2>1
<1>7. QED
  BY <1>2, <1>3, <1>4, <1>5, <1>6, Writers DEF OrderWriters, Approve

(* A worker is done with a reference when its payment is settled, or short *)
(* and due a refund.                                                       *)
LEMMA WorkerIsDone ==
    ASSUME Sane, Referenced, Guarded, NEW w \in FulfilWorkers, FulfilStep(w), Return(w),
           NEW r \in Refs, proc[w].r = r, Taken(r), fq[r].st # "none",
           NEW o \in Orders, payment[o].ref = r, fq'[r].st = "none"
    PROVE  \/ Settled(o)
           \/ charge[r].st = "short" /\ order'[o] = "REFUND_REQUIRED"
<1>1. w \in Procs /\ Holds(proc[w])
  BY Kinds DEF Guarded
<1>2. fq' # fq
  OBVIOUS
<1>3. o \in PaymentOrders(r)
  BY NoneIsNone DEF PaymentOrders, Sane, PaymentRows, NoPayment
<1>4. proc[w].o \in Orders => proc[w].o = o
  <2>1. ASSUME proc[w].o \in Orders PROVE Owns(r, proc[w].o) /\ Owns(r, o)
    BY <1>1 DEF Owns
  <2>2. QED
    BY <2>1 DEF Referenced, OneOwner
<1>5. ~FulfilVerify(w)
  <2>1. Succeeded(r)
    BY DEF Guarded, Taken, Ever, Succeeded
  <2>2. QED
    BY <1>2, <2>1 DEF FulfilVerify
<1>6. ~FulfilLoad(w)
  BY <1>2, <1>3 DEF FulfilLoad
<1>7. CASE FulfilUnderpaid(w)
  <2>1. proc[w].o = o
    BY <1>1, <1>4, <1>7, InHand, FulfilPlaces DEF FulfilUnderpaid, At
  <2>2. charge[r].st = "short"
    BY <1>1, <1>7 DEF FulfilUnderpaid, At, Holds
  <2>3. order'[o] = "REFUND_REQUIRED"
    BY <1>7, <2>1, Parts DEF FulfilUnderpaid, Sane, RowsOK
  <2>4. QED
    BY <2>2, <2>3
<1>8. CASE FulfilRead(w)
  <2>1. proc[w].o = o
    BY <1>1, <1>4, <1>8, InHand, FulfilPlaces DEF FulfilRead, At
  <2>2. payment[o].st = "FULFILLED"
    BY <1>2, <1>8, <2>1 DEF FulfilRead
  <2>3. QED
    BY <2>2 DEF Settled
<1>9. CASE EnqueueProvisioning(w)
  BY <1>1, <1>9 DEF EnqueueProvisioning, At, Holds
<1>10. ~FulfilCommit(w)
  BY <1>2 DEF FulfilCommit
<1>11. QED
  BY <1>5, <1>6, <1>7, <1>8, <1>9, <1>10 DEF FulfilStep

(* An acknowledged charge stands: what it stands on lasts, or leaves       *)
(* something else behind.                                                  *)
LEMMA AcknowledgedKept ==
    ASSUME Sane, Referenced, Granted, Guarded, Next, "approve" \notin Enabled,
           "refund.processed" \notin Emitted
    PROVE  AcknowledgedChargeStands'
<1> SUFFICES ASSUME NEW r \in Refs, NEW o \in Orders,
                    <<"charge.success", r>> \in acked', payment'[o].ref = r
             PROVE  \/ Settled(o)'
                    \/ fq'[r].st # "none"
                    \/ /\ charge'[r].st = "short"
                       /\ order'[o] = "REFUND_REQUIRED" \/ VouchersOf(o)' # {}
  BY DEF AcknowledgedChargeStands, VouchersOf
<1>1. Taken(r)
  <2>1. <<"charge.success", r>> \in sent
    BY AckSteps
  <2>2. QED
    BY <2>1 DEF Guarded, Told
<1>2. payment[o].ref = r /\ (Settled(o) => Settled(o)')
  BY <1>1, SettledLasts
<1>3. charge'[r].st = charge[r].st
  BY <1>1, AnswersLast DEF Guarded
<1>4. CASE <<"charge.success", r>> \notin acked
  <2>1. PICK p \in Requests : /\ HookStep(p) /\ acked' # acked
                              /\ TheEvent(p) = <<"charge.success", r>>
    BY <1>4, AckSteps
  <2>2. QED
    BY <1>2, <2>1, NewAckStands
<1>5. CASE Settled(o)
  BY <1>2, <1>5
<1>6. CASE /\ charge[r].st = "short"
           /\ order[o] = "REFUND_REQUIRED" \/ VouchersOf(o) # {}
  BY <1>3, <1>6, RefundStands, VouchersOfLast
<1>7. CASE fq[r].st # "none" /\ fq'[r].st = "none"
  <2>1. PICK w \in FulfilWorkers : FulfilStep(w) /\ Return(w) /\ proc[w].r = r
    BY <1>7, QueueSteps
  <2>2. Settled(o) \/ (charge[r].st = "short" /\ order'[o] = "REFUND_REQUIRED")
    BY <1>1, <1>2, <1>7, <2>1, WorkerIsDone
  <2>3. QED
    BY <1>2, <1>3, <2>2
<1>8. QED
  BY <1>2, <1>4, <1>5, <1>6, <1>7 DEF Guarded, AcknowledgedChargeStands

------------------------------------------------------------------------------
(* Together.                                                               *)

(* The initial state, and every step.                                      *)
LEMMA InitGuarded == Init => Guarded
<1> SUFFICES ASSUME Init PROVE Guarded
  OBVIOUS
<1> USE DEF Init
<1>1. \A r \in Refs : charge[r].st # "reversed"
  BY DEF NoCharge
<1>2. Told
  BY DEF Told, NoJob
<1>3. \A p \in Procs : Holds(proc[p])
  <2>1. ASSUME NEW p \in Procs PROVE proc[p].pc = "idle"
    BY IdleType
  <2>2. QED
    BY <2>1, HoldingPlaces DEF Holds, HoldingPC, HookPC, LenientPC
<1>4. Strict
  BY DEF Strict, UnderpaymentGuard, NoPayment, NoVoucher, NoJob
<1>5. AcknowledgedChargeStands
  BY DEF AcknowledgedChargeStands
<1>6. QED
  BY <1>1, <1>2, <1>3, <1>4, <1>5 DEF Guarded

(* Every step keeps Guarded.                                               *)
LEMMA StepGuarded ==
    ASSUME Sane, Referenced, Granted, Guarded, [Next]_vars, "refund.processed" \notin Emitted
    PROVE  Guarded'
<1>1. CASE Next
  <2>1. \A r \in Refs : charge'[r].st # "reversed"
    BY <1>1, AnswersLast DEF Guarded
  <2>2. FullOnly' <=> FullOnly
    BY DEF FullOnly
  <2>3. QED
    BY <1>1, <2>1, <2>2, ToldKept, HoldsKept, StrictKept, AcknowledgedKept DEF Guarded
<1>2. CASE UNCHANGED vars
  BY <1>2 DEF vars, Guarded, Told, Taken, Holds, Settled, FullOnly, Strict,
     UnderpaymentGuard, PaidAtGateway, AcknowledgedChargeStands, VouchersOf
<1>3. QED
  BY <1>1, <1>2

(* Guarded is an invariant where no refund is processed.                   *)
LEMMA AlwaysGuarded ==
    ASSUME "refund.processed" \notin Emitted
    PROVE  Spec => []Guarded
<1>1. Init => Guarded
  BY InitGuarded
<1>2. Safe /\ Guarded /\ [Next]_vars => Guarded'
  BY StepGuarded DEF Safe
<1>3. QED
  BY <1>1, <1>2, AlwaysSafe, PTL DEF Spec

(* The underpayment guard: where no repair by reference and no approval is *)
(* offered, every voucher is for the full amount, though the amount is     *)
(* compared several awaits before the voucher is written, a second         *)
(* transaction may have been opened meanwhile, and provisioning mints a    *)
(* voucher of its own when it finds none.                                  *)
THEOREM AccessInFull ==
    ASSUME Enabled \cap {"retrieve", "verify", "approve"} = {},
           "refund.processed" \notin Emitted
    PROVE  Spec => []UnderpaymentGuard
<1>1. Guarded => UnderpaymentGuard
  BY DEF Guarded, FullOnly, Strict
<1>2. QED
  BY <1>1, AlwaysGuarded, PTL

(* An acknowledged charge is never forgotten: once the webhook has         *)
(* answered 200 the payment is settled, or its job stands, or it was short *)
(* and its order is marked for a refund or served, through crashes, failed *)
(* attempts and every handler that works on the reference beside it.       *)
THEOREM AcknowledgedStands ==
    ASSUME "approve" \notin Enabled, "refund.processed" \notin Emitted
    PROVE  Spec => []AcknowledgedChargeStands
<1>1. Guarded => AcknowledgedChargeStands
  BY DEF Guarded
<1>2. QED
  BY <1>1, AlwaysGuarded, PTL

=============================================================================
