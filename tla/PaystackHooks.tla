--------------------------- MODULE PaystackHooks ---------------------------
(***************************************************************************)
(* The Paystack controller: (re-)initialising a transaction, and the       *)
(* webhook with its event ledger, its duplicate path and the reversal      *)
(* handler it calls.  Also the gateway itself, as external actions: it     *)
(* opens transactions, the customer pays them, it reverses them, and it    *)
(* delivers every event at least once.                                     *)
(***************************************************************************)
EXTENDS CheckoutStore

(* orders.create: an order without a payment row.                          *)
CreateOrder(o) ==
    /\ "create_order" \in Enabled
    /\ order[o] = "NONE"
    /\ order' = [order EXCEPT ![o] = "AWAITING_PAYMENT"]
    /\ UNCHANGED <<payment, voucher, session, recorded, gateway, fq, pq, proc, faults>>

(* initialize(): the payment row is read, a transaction is opened at the   *)
(* gateway, and the row is written from what was read.                     *)
InitializeRead(p, o) ==
    /\ "initialize" \in Enabled
    /\ Free(p)
    /\ order[o] # "NONE"
    /\ payment[o].st # "FULFILLED"
    /\ \E r \in FreshRefs :
          proc' = [proc EXCEPT ![p] = [Idle EXCEPT
                     !.pc = "reinit_gateway", !.o = o, !.r = r,
                     !.flag = payment[o].st # "NONE"]]
    /\ UNCHANGED <<order, payment, voucher, session, recorded, gateway, fq, pq, faults>>

InitializeGateway(p) ==
    /\ At(p, "reinit_gateway")
    /\ charge' = [charge EXCEPT ![proc[p].r] = [st |-> "created", order |-> proc[p].o]]
    /\ Goto(p, "reinit_write")
    /\ UNCHANGED <<order, payment, voucher, session, recorded, sent, acked, fq, pq, faults>>

(* An existing row is refreshed; a missing one is created, unless another  *)
(* handler created it meanwhile (P2002: 500, the URL is not handed out).   *)
InitializeWrite(p) ==
    LET o == proc[p].o
        r == proc[p].r
        exists == payment[o].st # "NONE"
    IN
    /\ At(p, "reinit_write")
    /\ IF proc[p].flag \/ ~exists
       THEN /\ payment' = [payment EXCEPT ![o].st = "PENDING", ![o].ref = r]
            /\ charge' = [charge EXCEPT ![r].st = "open"]
       ELSE UNCHANGED <<payment, charge>>
    /\ Return(p)
    /\ UNCHANGED <<order, voucher, session, recorded, sent, acked, pq, faults>>

------------------------------------------------------------------------------
(* External: the gateway and the customer.                                 *)

GatewaySuccess(r) ==
    /\ charge[r].st = "open"
    /\ \E st \in {"paid", "short"} : charge' = [charge EXCEPT ![r].st = st]
    /\ sent' = sent \cup {<<"charge.success", r>>}
    /\ UNCHANGED <<order, payment, voucher, session, recorded, acked, fq, pq, proc, faults>>

(* A refund or a dispute; only a processed refund ends the transaction's   *)
(* success.                                                                *)
GatewayReversal(r) ==
    /\ Succeeded(r)
    /\ \E ev \in Emitted :
          /\ <<ev, r>> \notin sent
          /\ sent' = sent \cup {<<ev, r>>}
          /\ charge' = IF ev = "refund.processed"
                       THEN [charge EXCEPT ![r].st = "reversed"] ELSE charge
    /\ UNCHANGED <<order, payment, voucher, session, recorded, acked, fq, pq, proc, faults>>

------------------------------------------------------------------------------
(* The webhook.                                                            *)

(* The gateway delivers an event, again if it likes; signed deliveries     *)
(* only, the others change nothing but the trace they leave.               *)
Deliver(p, e) ==
    /\ Free(p)
    /\ e \in sent
    /\ proc' = [proc EXCEPT ![p] = [Idle EXCEPT
                  !.pc = "hook_find", !.ev = e[1], !.r = e[2]]]
    /\ UNCHANGED <<order, payment, voucher, session, recorded, gateway, fq, pq, faults>>

TheEvent(p) == <<proc[p].ev, proc[p].r>>

(* 200 OK: the gateway stops redelivering.                                 *)
Acknowledge(p) ==
    /\ acked' = acked \cup {TheEvent(p)}
    /\ proc' = [proc EXCEPT ![p] = Idle]

(* The ledger lookup.  A known charge.success takes the duplicate path;    *)
(* any other known event is acknowledged as it stands.                     *)
HookFind(p) ==
    /\ At(p, "hook_find")
    /\ \/ /\ TheEvent(p) \notin recorded
          /\ Goto(p, "hook_record")
          /\ UNCHANGED acked
       \/ /\ TheEvent(p) \in recorded
          /\ proc[p].ev = "charge.success"
          /\ Goto(p, "hook_recheck")
          /\ UNCHANGED acked
       \/ /\ TheEvent(p) \in recorded
          /\ proc[p].ev # "charge.success"
          /\ Acknowledge(p)
    /\ UNCHANGED <<order, payment, voucher, session, recorded, charge, sent, fq, pq, faults>>

(* The ledger insert; eventKey is unique, so of two concurrent deliveries  *)
(* the second one throws (500).                                            *)
HookRecord(p) ==
    /\ At(p, "hook_record")
    /\ \/ /\ TheEvent(p) \in recorded
          /\ proc' = [proc EXCEPT ![p] = Idle]
       \/ /\ TheEvent(p) \notin recorded
          /\ Goto(p, IF proc[p].ev = "charge.success" THEN "hook_enqueue" ELSE "rev_find")
    /\ recorded' = recorded \cup {TheEvent(p)}
    /\ UNCHANGED <<order, payment, voucher, session, gateway, fq, pq, faults>>

(* Mutant: a duplicate delivery is acknowledged as it stands.              *)
HookRecheckAlwaysAcks(p) ==
    /\ At(p, "hook_recheck")
    /\ Acknowledge(p)
    /\ UNCHANGED <<order, payment, voucher, session, recorded, charge, sent, fq, pq, faults>>

(* The duplicate path: requeue unless the payment is FULFILLED (or gone).  *)
HookRecheck(p) ==
    /\ At(p, "hook_recheck")
    /\ IF \E o \in PaymentOrders(proc[p].r) : payment[o].st # "FULFILLED"
       THEN Goto(p, "hook_enqueue") /\ UNCHANGED acked
       ELSE Acknowledge(p)
    /\ UNCHANGED <<order, payment, voucher, session, recorded, charge, sent, fq, pq, faults>>

HookEnqueue(p) ==
    /\ At(p, "hook_enqueue")
    /\ fq' = FulfilAdd(proc[p].r)
    /\ Acknowledge(p)
    /\ UNCHANGED <<order, payment, voucher, session, recorded, charge, sent, pq, faults>>

------------------------------------------------------------------------------
(* handlePaymentReversal().                                                *)

(* The payment is found by reference or by transaction id, and its         *)
(* vouchers are read with it: the unused ones are the handler's work list. *)
ReversalFind(p) ==
    LET r == proc[p].r
        found == {o \in Orders : /\ payment[o].st # "NONE"
                                 /\ payment[o].ref = r \/ payment[o].tx = r}
    IN
    /\ At(p, "rev_find")
    /\ \/ /\ found = {} \/ proc[p].ev = "refund.failed"
          /\ Acknowledge(p)
       \/ /\ proc[p].ev # "refund.failed"
          /\ \E o \in found :
                proc' = [proc EXCEPT
                    ![p].pc = "rev_revoke", ![p].o = o,
                    ![p].todo = {v \in VouchersOf(o) : voucher[v].st = "ACTIVE"}]
          /\ UNCHANGED acked
    /\ UNCHANGED <<order, payment, voucher, session, recorded, charge, sent, fq, pq, faults>>

(* One voucher of the snapshot is revoked, whatever it has become.         *)
ReversalRevoke(p) ==
    /\ At(p, "rev_revoke")
    /\ \E v \in proc[p].todo :
          /\ voucher' = [voucher EXCEPT ![v].st = "REVOKED"]
          /\ proc' = [proc EXCEPT ![p].todo = @ \ {v}]
    /\ UNCHANGED <<order, payment, session, recorded, gateway, fq, pq, faults>>

IsRefund(ev) == ev \in {"refund.pending", "refund.processed", "refund.failed"}

ReversalMark(p) ==
    /\ At(p, "rev_revoke")
    /\ proc[p].todo = {}
    /\ payment' = [payment EXCEPT ![proc[p].o].st =
                     IF IsRefund(proc[p].ev) THEN "REFUNDED" ELSE "REVERSED"]
    /\ Acknowledge(p)
    /\ UNCHANGED <<order, voucher, session, recorded, charge, sent, fq, pq, faults>>

InitializeStep(p) == InitializeGateway(p) \/ InitializeWrite(p)

HookStep(p) ==
    \/ HookFind(p)
    \/ HookRecord(p)
    \/ HookRecheck(p)
    \/ HookEnqueue(p)
    \/ ReversalFind(p)
    \/ ReversalRevoke(p)
    \/ ReversalMark(p)

=============================================================================
