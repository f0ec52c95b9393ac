------------------------------ MODULE Vouchers ------------------------------
(***************************************************************************)
(* The cloud's side of a voucher: staff generate batches and synchronise   *)
(* what they sold, the checkout adds the codes it sells, guests claim them *)
(* and move to another device, administrators revoke, and time and the     *)
(* sweep close what was never used.                                        *)
(***************************************************************************)
EXTENDS AccessStore

(* A row with a code of the venue's own, or none.                          *)
Exists(c) == voucher[c].st # "NONE"
OwnedBy(c, s) == Exists(c) /\ voucher[c].venue = s

------------------------------------------------------------------------------
(* generateBatch: sweep, look the codes up, insert the missing ones in one *)
(* statement.  The venue's own codes count as stored already; another      *)
(* venue's are conflicts.  (Sold flags and passwords are left out: nothing *)
(* else reads them.)                                                       *)
BatchStart(p, s, want, life) ==
    /\ Free(p)
    /\ want # {}
    /\ \A c \in want : On("batch", c)
    /\ life = "ahead" => \E c \in want : On("lapse", c)
    /\ voucher' = Swept
    /\ proc' = [proc EXCEPT ![p] = [Idle EXCEPT !.pc = "batch_read", !.want = want,
                  !.row = [NoVoucher EXCEPT !.st = "ISSUED", !.venue = s, !.life = life]]]
    /\ UNCHANGED <<session, pq, alert, router, cleaning, printed, faults>>

(* The answer lists the codes the venue may print; a single code that is   *)
(* another venue's is a 409.                                               *)
Answer(p, usable) ==
    /\ printed' = [printed EXCEPT ![proc[p].row.venue] = @ \cup usable]
    /\ Return(p)

BatchRead(p) ==
    LET want == proc[p].want
        fresh == {c \in want : ~Exists(c)}
    IN
    /\ At(p, "batch_read")
    /\ IF fresh = {}
       THEN Answer(p, {c \in want : OwnedBy(c, proc[p].row.venue)})
       ELSE /\ proc' = [proc EXCEPT ![p].pc = "batch_insert", ![p].fresh = fresh]
            /\ UNCHANGED printed
    /\ UNCHANGED <<voucher, session, pq, alert, router, cleaning, faults>>

(* Mutant: a lost race is answered like a won one.                         *)
BatchInsertTrusting(p) ==
    LET want == proc[p].want
        fresh == proc[p].fresh
        s == proc[p].row.venue
    IN
    /\ At(p, "batch_insert")
    /\ voucher' = [c \in Codes |-> IF c \in fresh /\ \A d \in fresh : ~Exists(d)
                                   THEN proc[p].row ELSE voucher[c]]
    /\ Answer(p, fresh \cup {c \in want : OwnedBy(c, s)})
    /\ UNCHANGED <<session, pq, alert, router, cleaning, faults>>

(* createMany is all or nothing.  A single code lost to another request is *)
(* a 409; a bulk request looks its codes up once more.                     *)
BatchInsert(p) ==
    LET want == proc[p].want
        fresh == proc[p].fresh
        s == proc[p].row.venue
    IN
    /\ At(p, "batch_insert")
    /\ \/ /\ \A c \in fresh : ~Exists(c)
          /\ voucher' = [c \in Codes |-> IF c \in fresh THEN proc[p].row ELSE voucher[c]]
          /\ Answer(p, fresh \cup {c \in want : OwnedBy(c, s)})
       \/ /\ \E c \in fresh : Exists(c)
          /\ IF Cardinality(want) = 1 THEN Return(p) ELSE Goto(p, "batch_again")
          /\ UNCHANGED <<voucher, printed>>
    /\ UNCHANGED <<session, pq, alert, router, cleaning, faults>>

(* The second look is not followed by a second insert: codes that are      *)
(* still missing are neither answered nor stored.                          *)
BatchAgain(p) ==
    /\ At(p, "batch_again")
    /\ Answer(p, {c \in proc[p].want : OwnedBy(c, proc[p].row.venue)})
    /\ UNCHANGED <<voucher, session, pq, alert, router, cleaning, faults>>

------------------------------------------------------------------------------
(* syncVouchers, one item of the list: what the seller's app says of a     *)
(* code.  A row that exists is only ever marked EXPIRED, whoever's it is.  *)
SyncRead(p, s, c, st, life) ==
    /\ On("sync", c)
    /\ Free(p)
    /\ st \in {"ISSUED", "EXPIRED"}
    /\ life = "ahead" => On("lapse", c)
    /\ Exists(c) => st = "EXPIRED" /\ voucher[c].st # "EXPIRED"
    /\ proc' = [proc EXCEPT ![p] = [Idle EXCEPT !.code = c,
                  !.pc = IF Exists(c) THEN "sync_expire" ELSE "sync_create",
                  !.row = IF Exists(c) THEN NoVoucher
                          ELSE [NoVoucher EXCEPT !.st = st, !.venue = s, !.life = life]]]
    /\ UNCHANGED <<voucher, session, pq, alert, router, cleaning, printed, faults>>

(* The update names the code alone.                                        *)
SyncExpire(p) ==
    /\ At(p, "sync_expire")
    /\ voucher' = [voucher EXCEPT ![proc[p].code].st = "EXPIRED"]
    /\ Return(p)
    /\ UNCHANGED <<session, pq, alert, router, cleaning, printed, faults>>

(* A create that meets a row is swallowed.                                 *)
SyncCreate(p) ==
    /\ At(p, "sync_create")
    /\ voucher' = [voucher EXCEPT ![proc[p].code] =
                     IF @.st = "NONE" THEN proc[p].row ELSE @]
    /\ Return(p)
    /\ UNCHANGED <<session, pq, alert, router, cleaning, printed, faults>>

------------------------------------------------------------------------------
(* The checkout's sale, whose making Checkout models: the voucher is born  *)
(* ACTIVE and dated, bound to the buyer's MAC when the order knows it, and *)
(* the order's job is queued unless Redis refuses it.                      *)
Sell(c, m) ==
    /\ On("sale", c)
    /\ c \in ShortCodes
    /\ ~Exists(c)
    /\ voucher' = [voucher EXCEPT ![c] = [st |-> "ACTIVE", venue |-> Home,
                     mac |-> m, life |-> "ahead", paid |-> TRUE, buyer |-> m]]
    /\ pq' \in {pq, Enqueued(<<"order", c>>)}
    /\ UNCHANGED <<session, alert, router, cleaning, proc, printed, faults>>

------------------------------------------------------------------------------
(* redeem reads the row and decides; the update that follows is            *)
(* conditional on the status read.  A claim may come without a MAC, and an *)
(* ACTIVE code asked for with no device, MAC or address is returned as is. *)
Usable(c) == Exists(c) /\ voucher[c].st \notin Closed /\ voucher[c].life # "past"

RedeemRead(p, c, m, known) ==
    LET v == voucher[c]
        again == \/ m # None /\ v.mac = m /\ v.st \in Claimed
                 \/ m = None /\ ~known /\ v.st = "ACTIVE"
    IN
    /\ On("redeem", c)
    /\ Free(p)
    /\ Usable(c)
    /\ m # None => known
    /\ v.st = "REDEEMED" => again
    /\ proc' = [proc EXCEPT ![p] = [Idle EXCEPT !.code = c, !.mac = m,
                  !.pc = IF again THEN "redeem_enqueue" ELSE "redeem_claim",
                  !.row = IF again THEN NoVoucher
                          ELSE [NoVoucher EXCEPT !.st = v.st, !.mac = v.mac]]]
    /\ UNCHANGED <<voucher, session, pq, alert, router, cleaning, printed, faults>>

(* Mutant: the update names the code alone.                                *)
RedeemClaimUnconditional(p) ==
    LET c == proc[p].code IN
    /\ At(p, "redeem_claim")
    /\ voucher' = [voucher EXCEPT ![c].st = "REDEEMED", ![c].mac = proc[p].mac]
    /\ Goto(p, "redeem_enqueue")
    /\ UNCHANGED <<session, pq, alert, router, cleaning, printed, faults>>

(* The claim of an ACTIVE row without a MAC keeps the MAC read, that of an *)
(* ISSUED one the MAC there is.  The loser of a race for an ACTIVE row     *)
(* looks again and is content when its own device won; nothing makes a row *)
(* ACTIVE again, so looking again in the same step loses nothing.          *)
RedeemClaim(p) ==
    LET c == proc[p].code
        was == proc[p].row
        m == proc[p].mac
        bound == CASE m # None -> m
                   [] m = None /\ was.st = "ACTIVE" -> was.mac
                   [] OTHER -> voucher[c].mac
    IN
    /\ At(p, "redeem_claim")
    /\ \/ /\ voucher[c].st = was.st
          /\ voucher' = [voucher EXCEPT ![c].st = "REDEEMED", ![c].mac = bound]
          /\ proc' = [proc EXCEPT ![p].pc = "redeem_enqueue", ![p].row = NoVoucher]
       \/ /\ voucher[c].st # was.st
          /\ IF was.st = "ACTIVE" /\ m # None /\ voucher[c].mac = m
             THEN proc' = [proc EXCEPT ![p].pc = "redeem_enqueue", ![p].row = NoVoucher]
             ELSE Return(p)
          /\ UNCHANGED voucher
    /\ UNCHANGED <<session, pq, alert, router, cleaning, printed, faults>>

RedeemEnqueue(p) ==
    /\ At(p, "redeem_enqueue")
    /\ pq' = Enqueued(<<"voucher", proc[p].code>>)
    /\ Return(p)
    /\ UNCHANGED <<voucher, session, alert, router, cleaning, printed, faults>>

------------------------------------------------------------------------------
(* portal.retrieveVoucher.  A device that holds a current voucher is given *)
(* that one.  Otherwise a code that is known and not past is found in      *)
(* whatever status, and is bound to the caller's MAC; a paid one has its   *)
(* order's job queued again.                                               *)
HoldsCurrent(m) ==
    \E c \in Codes : /\ voucher[c].mac = m
                     /\ voucher[c].st \in Claimed
                     /\ voucher[c].life = "ahead"

RetrieveRead(p, c, m) ==
    /\ On("retrieve", c)
    /\ Free(p)
    /\ Exists(c)
    /\ voucher[c].life # "past"
    /\ voucher[c].mac # m
    /\ ~HoldsCurrent(m)
    /\ proc' = [proc EXCEPT ![p] = [Idle EXCEPT !.pc = "retrieve_bind",
                  !.code = c, !.mac = m]]
    /\ UNCHANGED <<voucher, session, pq, alert, router, cleaning, printed, faults>>

RetrieveBind(p) ==
    LET c == proc[p].code IN
    /\ At(p, "retrieve_bind")
    /\ voucher' = [voucher EXCEPT ![c].mac = proc[p].mac]
    /\ IF voucher[c].paid THEN Goto(p, "retrieve_enqueue") ELSE Return(p)
    /\ UNCHANGED <<session, pq, alert, router, cleaning, printed, faults>>

RetrieveEnqueue(p) ==
    /\ At(p, "retrieve_enqueue")
    /\ pq' = Enqueued(<<"order", proc[p].code>>)
    /\ Return(p)
    /\ UNCHANGED <<voucher, session, alert, router, cleaning, printed, faults>>

------------------------------------------------------------------------------
Revoke(c) ==
    /\ On("revoke", c)
    /\ Exists(c)
    /\ voucher' = [voucher EXCEPT ![c].st = "REVOKED"]
    /\ UNCHANGED <<session, pq, alert, router, cleaning, proc, printed, faults>>

(* check and listByVenue sweep before they read.                           *)
Sweep ==
    /\ Somewhere("lapse")
    /\ voucher' = Swept
    /\ UNCHANGED <<session, pq, alert, router, cleaning, proc, printed, faults>>

(* expiresAt passes.                                                       *)
VoucherLapses(c) ==
    /\ On("lapse", c)
    /\ voucher[c].life = "ahead"
    /\ voucher' = [voucher EXCEPT ![c].life = "past"]
    /\ UNCHANGED <<session, pq, alert, router, cleaning, proc, printed, faults>>

VoucherStep(p) ==
    \/ BatchRead(p)
    \/ BatchInsert(p)
    \/ BatchAgain(p)
    \/ SyncExpire(p)
    \/ SyncCreate(p)
    \/ RedeemClaim(p)
    \/ RedeemEnqueue(p)
    \/ RetrieveBind(p)
    \/ RetrieveEnqueue(p)

=============================================================================
