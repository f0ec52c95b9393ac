---------------------------- MODULE Provisioning ----------------------------
(***************************************************************************)
(* The mikrotik-provisioning worker: it gives an order (or a redeemed      *)
(* voucher) its user on the hotspot router and its session row.  The       *)
(* router push may fail; the handler degrades and goes on.  Also the       *)
(* administrator's reconcile, which re-adds the jobs of fulfilled orders.  *)
(***************************************************************************)
EXTENDS CheckoutStore

(* The job of a worker: its order's or its voucher's.                      *)
JobOf(w) == IF proc[w].pc \in {"vprov_push", "vprov_session", "vprov_commit"}
            THEN proc[w].v ELSE proc[w].o

(* The handler returns and its job is removed.                             *)
Complete(w) ==
    /\ proc' = [proc EXCEPT ![w] = Idle]
    /\ pq' = [pq EXCEPT ![JobOf(w)] = NoJob]

TakeOrderJob(w, o) ==
    /\ Free(w)
    /\ pq[o].st = "waiting"
    /\ pq' = [pq EXCEPT ![o].st = "active"]
    /\ Start(w, "prov_voucher", o, None)
    /\ UNCHANGED <<order, payment, voucher, session, recorded, gateway, fq, faults>>

(* The voucher of the order's payment, any one of them.                    *)
ProvisionVoucher(w) ==
    LET o == proc[w].o
        found == IF payment[o].st = "NONE" THEN {} ELSE VouchersOf(o)
    IN
    /\ At(w, "prov_voucher")
    /\ \/ /\ found = {}
          /\ proc' = [proc EXCEPT ![w].pc = "prov_mint",
                                  ![w].flag = payment[o].st # "NONE"]
       \/ \E v \in found :
             proc' = [proc EXCEPT ![w].pc = "prov_push", ![w].v = v]
    /\ UNCHANGED <<order, payment, voucher, session, recorded, gateway, fq, pq, faults>>

(* Mutant: an order without a voucher is pushed all the same.              *)
ProvisionMintSkipped(w) ==
    /\ At(w, "prov_mint")
    /\ Goto(w, "prov_push")
    /\ UNCHANGED <<order, payment, voucher, session, recorded, gateway, fq, pq, faults>>

(* One is minted when there was none, as after an approval that died       *)
(* between its payment and its voucher.  It is the voucher of the payment  *)
(* read before, if there was one.                                          *)
ProvisionMint(w) ==
    LET o == proc[w].o IN
    /\ At(w, "prov_mint")
    /\ \E v \in FreshVouchers :
          /\ NewVoucher(v, IF proc[w].flag THEN o ELSE None)
          /\ proc' = [proc EXCEPT ![w].pc = "prov_push", ![w].v = v]
    /\ UNCHANGED <<order, payment, session, recorded, gateway, fq, pq, faults>>

(* Without a router the order is ACTIVE at once: the cloud voucher is what *)
(* the router will pull.  With one comes the push, which succeeds or       *)
(* degrades and leaves nothing in the database either way.                 *)
ProvisionPush(w) ==
    /\ At(w, "prov_push")
    /\ IF HasRouter
       THEN Goto(w, "prov_session") /\ UNCHANGED <<order, pq>>
       ELSE /\ order' = [order EXCEPT ![proc[w].o] = "ACTIVE"]
            /\ Complete(w)
    /\ UNCHANGED <<payment, voucher, session, recorded, gateway, fq, faults>>

(* Mutant: a retried job makes a second session.                           *)
ProvisionSessionAgain(w) ==
    /\ At(w, "prov_session")
    /\ Goto(w, "prov_commit")
    /\ UNCHANGED <<order, payment, voucher, session, recorded, gateway, fq, pq, faults>>

(* Mutant: the early return for an existing session leaves the order as it *)
(* is.                                                                     *)
ProvisionSessionEarlyReturn(w) ==
    /\ At(w, "prov_session")
    /\ IF \E s \in Sessions : session[s].st # "NONE" /\ session[s].order = proc[w].o
       THEN Complete(w)
       ELSE Goto(w, "prov_commit") /\ UNCHANGED pq
    /\ UNCHANGED <<order, payment, voucher, session, recorded, gateway, fq, faults>>

(* An order that has a session gets no second one.                         *)
ProvisionSession(w) ==
    LET o == proc[w].o IN
    /\ At(w, "prov_session")
    /\ IF \E s \in Sessions : session[s].st # "NONE" /\ session[s].order = o
       THEN /\ order' = [order EXCEPT ![o] = "ACTIVE"]
            /\ Complete(w)
       ELSE /\ Goto(w, "prov_commit")
            /\ UNCHANGED <<order, pq>>
    /\ UNCHANGED <<payment, voucher, session, recorded, gateway, fq, faults>>

ProvisionCommit(w) ==
    LET o == proc[w].o IN
    /\ At(w, "prov_commit")
    /\ \E s \in Sessions :
          /\ session[s].st = "NONE"
          /\ session' = [session EXCEPT ![s] =
                           [st |-> "ACTIVE", order |-> o, voucher |-> proc[w].v]]
    /\ order' = [order EXCEPT ![o] = "ACTIVE"]
    /\ Complete(w)
    /\ UNCHANGED <<payment, voucher, recorded, gateway, fq, faults>>

------------------------------------------------------------------------------
(* provisionForVoucher: the same for a redeemed voucher.                   *)

TakeVoucherJob(w, v) ==
    /\ Free(w)
    /\ pq[v].st = "waiting"
    /\ pq' = [pq EXCEPT ![v].st = "active"]
    /\ proc' = [proc EXCEPT ![w] = [Idle EXCEPT !.pc = "vprov_push", !.v = v]]
    /\ UNCHANGED <<order, payment, voucher, session, recorded, gateway, fq, faults>>

VoucherPush(w) ==
    /\ At(w, "vprov_push")
    /\ IF HasRouter
       THEN Goto(w, "vprov_session") /\ UNCHANGED pq
       ELSE Complete(w)
    /\ UNCHANGED <<order, payment, voucher, session, recorded, gateway, fq, faults>>

VoucherSession(w) ==
    LET v == proc[w].v IN
    /\ At(w, "vprov_session")
    /\ IF \E s \in Sessions : session[s].st # "NONE" /\ session[s].voucher = v
       THEN Complete(w)
       ELSE Goto(w, "vprov_commit") /\ UNCHANGED pq
    /\ UNCHANGED <<order, payment, voucher, session, recorded, gateway, fq, faults>>

VoucherCommit(w) ==
    /\ At(w, "vprov_commit")
    /\ \E s \in Sessions :
          /\ session[s].st = "NONE"
          /\ session' = [session EXCEPT ![s] =
                           [st |-> "ACTIVE", order |-> None, voucher |-> proc[w].v]]
    /\ Complete(w)
    /\ UNCHANGED <<order, payment, voucher, recorded, gateway, fq, faults>>

------------------------------------------------------------------------------
(* Mutant: only orders that have been ACTIVE are looked at.                *)
ReconcileActive(p, o) ==
    /\ "reconcile" \in Enabled
    /\ HasRouter
    /\ Free(p)
    /\ order[o] = "ACTIVE"
    /\ Start(p, "enqueue", o, None)
    /\ UNCHANGED <<order, payment, voucher, session, recorded, gateway, fq, pq, faults>>

(* admin.reconcile: every fulfilled payment whose guest is not a router    *)
(* user gets its job again, one add after the other, each after the read.  *)
(* The guest is looked up by MAC and the users are named by voucher code,  *)
(* so none is ever found.                                                  *)
Reconcile(p, o) ==
    /\ "reconcile" \in Enabled
    /\ HasRouter
    /\ Free(p)
    /\ payment[o].st = "FULFILLED"
    /\ Start(p, "enqueue", o, None)
    /\ UNCHANGED <<order, payment, voucher, session, recorded, gateway, fq, pq, faults>>

ProvisionStep(w) ==
    \/ ProvisionVoucher(w)
    \/ ProvisionMint(w)
    \/ ProvisionPush(w)
    \/ ProvisionSession(w)
    \/ ProvisionCommit(w)
    \/ VoucherPush(w)
    \/ VoucherSession(w)
    \/ VoucherCommit(w)

=============================================================================
