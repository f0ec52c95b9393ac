------------------------------ MODULE Cashouts ------------------------------
(***************************************************************************)
(* Cashouts: a venue's owner turns settled payments into bank transfers.   *)
(* The ledger is earned - locked - cashedOut = available, computed from    *)
(* the payment and cashout rows; the transfers are the gateway's.          *)
(*                                                                         *)
(* A handler reads a cashout row, calls the gateway, and writes the row    *)
(* by id with no condition on what it has become meanwhile: each await is  *)
(* a step of its own.  One venue, whose bank account is registered: the    *)
(* venues share no row.  Mock mode, which moves no money, is left out.     *)
(***************************************************************************)
EXTENDS Naturals, FiniteSets, FiniteSetsExt

CONSTANTS
    Payments,   \* the venue's payments, each worth one unit
    Cashouts,   \* cashout rows, each named by its clientReference
    Transfers,  \* the gateway's transfers, named by their transfer code
    Requests,   \* slots for HTTP handlers running at once
    Amount,     \* amountMinor of every cashout, in units
    AutoMax,    \* CASHOUT_AUTO_MAX_MINOR, in units; 0 is no cap
    MaxFaults,  \* bound on crashes and thrown awaits
    None        \* SQL NULL, or "not in use"

ASSUME CashoutAssumption ==
    /\ None \notin Payments \cup Cashouts \cup Transfers
    /\ IsFiniteSet(Payments)
    /\ IsFiniteSet(Cashouts)
    /\ Amount \in [Cashouts -> Nat \ {0}]  \* CASHOUT_MIN_MINOR is at least 1
    /\ AutoMax \in Nat
    /\ MaxFaults \in Nat

VARIABLES
    settled,  \* the status of every payment
    row,      \* the Cashout rows
    transfer, \* the gateway's transfers
    event,    \* the transfer webhooks not answered with a 200 yet
    proc,     \* the handlers
    faults    \* crashes and thrown awaits so far

vars == <<settled, row, transfer, event, proc, faults>>

------------------------------------------------------------------------------

(* CashoutStatus; APPROVED is read but never written.                      *)
CashoutStatus == {"NONE", "PENDING", "CONFIRMED", "PROCESSING", "COMPLETED",
                  "FAILED", "REVERSED", "REJECTED"}
CashoutRow == [st : CashoutStatus,
               code : Transfers \cup {None}, \* providerTransferCode
               auto : BOOLEAN]               \* confirmedBy = 'auto-policy'
NoRow == [st |-> "NONE", code |-> None, auto |-> FALSE]

Locked == {"PENDING", "CONFIRMED", "PROCESSING"}
Terminal == {"COMPLETED", "FAILED", "REVERSED", "REJECTED"}

TransferState == {"none", "otp", "pending", "success", "failed", "reversed"}
Transfer == [st : TransferState, for : Cashouts \cup {None}]
NoTransfer == [st |-> "none", for |-> None]

(* The transfers the gateway answered for once stay what they are, but for *)
(* a success that is reversed.                                             *)
Event == {"success", "failed", "reversed"} \X Transfers

PC == {"idle", "create", "initiate", "store", "verify", "finish",
       "reject", "otp_call", "otp_write", "rec_verify", "rec_write",
       "fin_find", "fin_write"}

Handler == [pc : PC,
            c : Cashouts \cup {None},   \* the cashout it works on
            t : Transfers \cup {None},  \* the transfer it works on
            ans : TransferState,        \* the gateway's answer, or the event
            held : BOOLEAN]             \* policy.requiresApproval
Idle == [pc |-> "idle", c |-> None, t |-> None, ans |-> "none", held |-> FALSE]

TypeOK ==
    /\ settled \in [Payments -> {"PENDING", "FULFILLED", "REVERSED"}]
    /\ row \in [Cashouts -> CashoutRow]
    /\ transfer \in [Transfers -> Transfer]
    /\ event \subseteq Event
    /\ proc \in [Requests -> Handler]
    /\ faults \in 0 .. MaxFaults

Init ==
    /\ settled = [y \in Payments |-> "PENDING"]
    /\ row = [c \in Cashouts |-> NoRow]
    /\ transfer = [t \in Transfers |-> NoTransfer]
    /\ event = {}
    /\ proc = [p \in Requests |-> Idle]
    /\ faults = 0

At(p, pc) == proc[p].pc = pc
Goto(p, pc) == proc' = [proc EXCEPT ![p].pc = pc]
Return(p) == proc' = [proc EXCEPT ![p] = Idle]
Start(p, pc, c, t) ==
    /\ At(p, "idle")
    /\ proc' = [proc EXCEPT ![p] = [Idle EXCEPT !.pc = pc, !.c = c, !.t = t]]

(* An unconditional update of the row's status.                            *)
Write(c, st) == row' = [row EXCEPT ![c].st = st]

------------------------------------------------------------------------------
(* The ledger.                                                             *)

(* The amounts of some cashouts: how many units they are worth together.   *)
Units(cs) == UNION {{c} \X (1 .. Amount[c]) : c \in cs}
AmountOf(cs) == Cardinality(Units(cs))
Earned == Cardinality({y \in Payments : settled[y] = "FULFILLED"})
LockedMinor == AmountOf({c \in Cashouts : row[c].st \in Locked})
CashedOut == AmountOf({c \in Cashouts : row[c].st = "COMPLETED"})

(* available = max(0, earned - locked - cashedOut) covers the amount.      *)
Affordable(c) == Amount[c] + LockedMinor + CashedOut <= Earned

(* The venue's payments settle, and may be refunded or disputed: see the   *)
(* checkout modules.                                                       *)
PaymentSettles(y) ==
    /\ settled[y] = "PENDING"
    /\ settled' = [settled EXCEPT ![y] = "FULFILLED"]
    /\ UNCHANGED <<row, transfer, event, proc, faults>>

PaymentReversed(y) ==
    /\ settled[y] = "FULFILLED"
    /\ settled' = [settled EXCEPT ![y] = "REVERSED"]
    /\ UNCHANGED <<row, transfer, event, proc, faults>>

------------------------------------------------------------------------------
(* requestCashout().                                                       *)

(* The replay lookup returns the row of a known clientReference as it is.  *)
(* checkEligibility for a new one: large amounts, and any amount while the *)
(* venue has a dispute younger than CASHOUT_DISPUTE_HOLD_DAYS, wait for an *)
(* administrator.  There are no days here, so disputed is free.            *)
AboveCap(c) == AutoMax # 0 /\ Amount[c] > AutoMax

Request(p, c) ==
    /\ At(p, "idle")
    /\ row[c].st = "NONE"
    /\ \E disputed \in BOOLEAN :
          proc' = [proc EXCEPT ![p] = [Idle EXCEPT
              !.pc = "create", !.c = c, !.held = AboveCap(c) \/ disputed]]
    /\ UNCHANGED <<settled, row, transfer, event, faults>>

(* Mutant: the balance is read before the transaction, in an earlier step. *)
RequestCreateUnchecked(p) ==
    LET c == proc[p].c
        held == proc[p].held
    IN
    /\ At(p, "create")
    /\ IF row[c].st = "NONE"
       THEN /\ row' = [row EXCEPT ![c] =
                 [NoRow EXCEPT !.st = IF held THEN "PENDING" ELSE "CONFIRMED",
                               !.auto = ~held]]
            /\ IF held THEN Return(p) ELSE Goto(p, "initiate")
       ELSE UNCHANGED row /\ Return(p)
    /\ UNCHANGED <<settled, transfer, event, faults>>

(* Balance check and insert, in one Serializable transaction.  The unique  *)
(* clientReference lets one of two double-taps through and gives the other *)
(* the winner's row (P2002).  An auto-released cashout goes on to its      *)
(* transfer, a held one waits.                                             *)
RequestCreate(p) ==
    LET c == proc[p].c
        held == proc[p].held
    IN
    /\ At(p, "create")
    /\ IF row[c].st = "NONE" /\ Affordable(c)
       THEN /\ row' = [row EXCEPT ![c] =
                 [NoRow EXCEPT !.st = IF held THEN "PENDING" ELSE "CONFIRMED",
                               !.auto = ~held]]
            /\ IF held THEN Return(p) ELSE Goto(p, "initiate")
       ELSE UNCHANGED row /\ Return(p)
    /\ UNCHANGED <<settled, transfer, event, faults>>

------------------------------------------------------------------------------
(* confirmCashout() and rejectCashout(): read, check, write by id.         *)

(* Mutant: a cashout stuck in CONFIRMED may be confirmed again.            *)
ConfirmStuck(p, c) ==
    /\ row[c].st \in {"PENDING", "CONFIRMED"}
    /\ Start(p, "initiate", c, None)
    /\ UNCHANGED <<settled, row, transfer, event, faults>>

(* The update between the check and the transfer leaves the status alone.  *)
Confirm(p, c) ==
    /\ row[c].st = "PENDING"
    /\ Start(p, "initiate", c, None)
    /\ UNCHANGED <<settled, row, transfer, event, faults>>

Reject(p, c) ==
    /\ row[c].st = "PENDING"
    /\ Start(p, "reject", c, None)
    /\ UNCHANGED <<settled, row, transfer, event, faults>>

RejectWrite(p) ==
    /\ At(p, "reject")
    /\ Write(proc[p].c, "REJECTED")
    /\ Return(p)
    /\ UNCHANGED <<settled, transfer, event, faults>>

------------------------------------------------------------------------------
(* executeTransfer().                                                      *)

(* The gateway opens a transfer, with no idempotency key of the caller's,  *)
(* and may ask for an OTP.                                                 *)
Initiate(p) ==
    /\ At(p, "initiate")
    /\ \E t \in Transfers, st \in {"otp", "pending"} :
          /\ transfer[t].st = "none"
          /\ transfer' = [transfer EXCEPT ![t] = [st |-> st, for |-> proc[p].c]]
          /\ proc' = [proc EXCEPT ![p].pc = "store", ![p].t = t, ![p].ans = st]
    /\ UNCHANGED <<settled, row, event, faults>>

(* The code is stored; an OTP ends the handler, else it verifies at once.  *)
StoreCode(p) ==
    /\ At(p, "store")
    /\ row' = [row EXCEPT ![proc[p].c].st = "PROCESSING", ![proc[p].c].code = proc[p].t]
    /\ IF proc[p].ans = "otp" THEN Return(p) ELSE Goto(p, "verify")
    /\ UNCHANGED <<settled, transfer, event, faults>>

(* verifyTransfer: the answer of this moment.                              *)
Answer(p, pc) ==
    proc' = [proc EXCEPT ![p].pc = pc, ![p].ans = transfer[proc[p].t].st]

Verify(p) ==
    /\ At(p, "verify")
    /\ Answer(p, "finish")
    /\ UNCHANGED <<settled, row, transfer, event, faults>>

(* Mutant: anything but a success is taken for a failure, as the webhook's *)
(* handler does.                                                           *)
FinishElseFailed(p) ==
    /\ At(p, "finish")
    /\ Write(proc[p].c, IF proc[p].ans = "success" THEN "COMPLETED" ELSE "FAILED")
    /\ Return(p)
    /\ UNCHANGED <<settled, transfer, event, faults>>

(* An OTP asked for late leaves the status alone.  What else is neither a  *)
(* success nor a failure writes back the status the handler itself had     *)
(* written, even over one the webhook has written since.                   *)
Finish(p) ==
    /\ At(p, "finish")
    /\ \/ proc[p].ans = "otp" /\ UNCHANGED row
       \/ proc[p].ans = "success" /\ Write(proc[p].c, "COMPLETED")
       \/ proc[p].ans = "failed" /\ Write(proc[p].c, "FAILED")
       \/ proc[p].ans \in {"pending", "reversed"} /\ Write(proc[p].c, "PROCESSING")
    /\ Return(p)
    /\ UNCHANGED <<settled, transfer, event, faults>>

------------------------------------------------------------------------------
(* finalizeCashoutOtp().                                                   *)

FinalizeOtp(p, c) ==
    /\ row[c].st = "PROCESSING"
    /\ row[c].code # None
    /\ Start(p, "otp_call", c, row[c].code)
    /\ UNCHANGED <<settled, row, transfer, event, faults>>

(* The gateway takes the OTP of a transfer that waits for one; for any     *)
(* other the call throws.                                                  *)
OtpCall(p) ==
    LET t == proc[p].t IN
    /\ At(p, "otp_call")
    /\ \/ /\ transfer[t].st = "otp"
          /\ \E st \in {"pending", "success", "failed"} :
                /\ transfer' = [transfer EXCEPT ![t].st = st]
                /\ proc' = [proc EXCEPT ![p].pc = "otp_write", ![p].ans = st]
                /\ event' = IF st = "pending" THEN event ELSE event \cup {<<st, t>>}
       \/ Return(p) /\ UNCHANGED <<transfer, event>>
    /\ UNCHANGED <<settled, row, faults>>

(* Mutant: the gateway's status is stored as it is.                        *)
OtpWriteRaw(p) ==
    /\ At(p, "otp_write")
    /\ Write(proc[p].c, proc[p].ans)
    /\ Return(p)
    /\ UNCHANGED <<settled, transfer, event, faults>>

(* Mutant: an accepted OTP is taken for a finished transfer.               *)
OtpWriteCompletes(p) ==
    /\ At(p, "otp_write")
    /\ Write(proc[p].c, IF proc[p].ans = "failed" THEN "FAILED" ELSE "COMPLETED")
    /\ Return(p)
    /\ UNCHANGED <<settled, transfer, event, faults>>

OtpWrite(p) ==
    /\ At(p, "otp_write")
    /\ Write(proc[p].c, CASE proc[p].ans = "success" -> "COMPLETED"
                          [] proc[p].ans = "failed" -> "FAILED"
                          [] OTHER -> "PROCESSING")
    /\ Return(p)
    /\ UNCHANGED <<settled, transfer, event, faults>>

------------------------------------------------------------------------------
(* reconcileProcessing(): one handler per row of its snapshot.             *)

Reconcile(p, c) ==
    /\ row[c].st = "PROCESSING"
    /\ row[c].code # None
    /\ Start(p, "rec_verify", c, row[c].code)
    /\ UNCHANGED <<settled, row, transfer, event, faults>>

ReconcileVerify(p) ==
    /\ At(p, "rec_verify")
    /\ Answer(p, "rec_write")
    /\ UNCHANGED <<settled, row, transfer, event, faults>>

ReconcileWrite(p) ==
    LET ans == proc[p].ans IN
    /\ At(p, "rec_write")
    /\ \/ ans = "success" /\ Write(proc[p].c, "COMPLETED")
       \/ ans = "failed" /\ Write(proc[p].c, "FAILED")
       \/ ans = "reversed" /\ Write(proc[p].c, "REVERSED")
       \/ ans \in {"otp", "pending"} /\ UNCHANGED row
    /\ Return(p)
    /\ UNCHANGED <<settled, transfer, event, faults>>

------------------------------------------------------------------------------
(* finalizeTransferEvent(), for a first delivery and for a duplicate one:  *)
(* the webhook's ledger does not stand in its way.                         *)

Deliver(p, e) ==
    /\ At(p, "idle")
    /\ proc' = [proc EXCEPT ![p] =
                  [Idle EXCEPT !.pc = "fin_find", !.t = e[2], !.ans = e[1]]]
    /\ UNCHANGED <<settled, row, transfer, event, faults>>

(* 200 OK: the gateway stops redelivering, unless the answer is lost.      *)
Acknowledge(p) ==
    /\ event' \in {event, event \ {<<proc[p].ans, proc[p].t>>}}
    /\ Return(p)

(* Unknown codes and terminal cashouts are acknowledged as they stand.     *)
FinalizeFind(p) ==
    LET live == {c \in Cashouts : row[c].code = proc[p].t /\ row[c].st \notin Terminal}
    IN
    /\ At(p, "fin_find")
    /\ \/ live = {} /\ Acknowledge(p)
       \/ /\ \E c \in live : proc' = [proc EXCEPT ![p].pc = "fin_write", ![p].c = c]
          /\ UNCHANGED event
    /\ UNCHANGED <<settled, row, transfer, faults>>

FinalizeWrite(p) ==
    /\ At(p, "fin_write")
    /\ Write(proc[p].c, CASE proc[p].ans = "success" -> "COMPLETED"
                          [] proc[p].ans = "reversed" -> "REVERSED"
                          [] OTHER -> "FAILED")
    /\ Acknowledge(p)
    /\ UNCHANGED <<settled, transfer, faults>>

------------------------------------------------------------------------------
(* External: the gateway asks for an OTP after all, settles its transfers, *)
(* and may reverse one.                                                    *)

TransferMoves(t) ==
    /\ \E st \in {"otp", "success", "failed", "reversed"} :
          /\ IF st = "reversed" THEN transfer[t].st = "success"
                                ELSE transfer[t].st = "pending"
          /\ transfer' = [transfer EXCEPT ![t].st = st]
          /\ event' = IF st = "otp" THEN event ELSE event \cup {<<st, t>>}
    /\ UNCHANGED <<settled, row, proc, faults>>

(* An await throws, or the process dies: the handlers' locals are gone.    *)
Fault == faults < MaxFaults /\ faults' = faults + 1

HandlerThrows(p) ==
    /\ ~At(p, "idle")
    /\ Fault
    /\ Return(p)
    /\ UNCHANGED <<settled, row, transfer, event>>

Crash ==
    /\ \E p \in Requests : ~At(p, "idle")
    /\ Fault
    /\ proc' = [p \in Requests |-> Idle]
    /\ UNCHANGED <<settled, row, transfer, event>>

RequestStep(p) ==
    \/ RequestCreate(p)
    \/ RejectWrite(p)
    \/ Initiate(p)
    \/ StoreCode(p)
    \/ Verify(p)
    \/ Finish(p)
    \/ OtpCall(p)
    \/ OtpWrite(p)
    \/ ReconcileVerify(p)
    \/ ReconcileWrite(p)
    \/ FinalizeFind(p)
    \/ FinalizeWrite(p)
    \/ HandlerThrows(p)

StartRequest(p) ==
    \/ \E c \in Cashouts :
          \/ Request(p, c)
          \/ Confirm(p, c)
          \/ Reject(p, c)
          \/ FinalizeOtp(p, c)
          \/ Reconcile(p, c)
    \/ \E e \in event : Deliver(p, e)

Next ==
    \/ \E p \in Requests : StartRequest(p) \/ RequestStep(p)
    \/ \E y \in Payments : PaymentSettles(y) \/ PaymentReversed(y)
    \/ \E t \in Transfers : TransferMoves(t)
    \/ Crash

Spec == Init /\ [][Next]_vars

------------------------------------------------------------------------------
(* Safety.  A held cashout can be confirmed twice, or rejected while it is *)
(* being paid (see NeverOverpaid): the first four are about the cashouts   *)
(* the policy released, which no administrator touches.                    *)

Live == {"otp", "pending", "success"}
TransfersOf(c) == {t \in Transfers : transfer[t].st # "none" /\ transfer[t].for = c}

(* Money that left or may still leave is on the books: as long as the      *)
(* gateway may pay, or has paid, an auto-released cashout, its amount is   *)
(* in locked or in cashedOut, whatever the payout handler, the webhook,    *)
(* the OTP and the reconcile write over each other.                        *)
MoneyOutIsOnTheBooks ==
    \A c \in Cashouts : \A t \in TransfersOf(c) :
        row[c].auto /\ transfer[t].st \in Live => row[c].st \in Locked \cup {"COMPLETED"}

(* An auto-released cashout is sent once, though its key is requested      *)
(* again after a time-out or a crash and every administrator action may    *)
(* hit the same row.                                                       *)
SentOnce ==
    \A c \in Cashouts : row[c].auto =>
        \A t, u \in TransfersOf(c) : t = u

(* COMPLETED is only told of money that arrived (it may be taken back      *)
(* later).                                                                 *)
CompletedWasPaid ==
    \A c \in Cashouts : row[c].auto /\ row[c].st = "COMPLETED" =>
        \E t \in TransfersOf(c) : transfer[t].st \in {"success", "reversed"}

(* What the policy releases, all told, never exceeds what the venue has    *)
(* earned: PayoutLedger says so, and this is how its state is read off the *)
(* rows and the transfers.                                                 *)
payout ==
    [c \in Cashouts |->
        IF ~row[c].auto THEN "none"
        ELSE IF TransfersOf(c) = {} THEN "reserved"
        ELSE LET t == CHOOSE t \in TransfersOf(c) : TRUE IN
             CASE transfer[t].st \in {"otp", "pending"} -> "sent"
               [] transfer[t].st = "success" -> "paid"
               [] OTHER -> "returned"]
funds == Cardinality({y \in Payments : settled[y] # "PENDING"})

Ledger == INSTANCE PayoutLedger WITH
            Cashouts <- Cashouts, Amount <- Amount, funds <- funds, payout <- payout
LedgerSpec == Ledger!Spec

------------------------------------------------------------------------------
(* Why they hold: an invariant that is inductive.                          *)

(* What a handler may believe of a transfer whose state is st after it was *)
(* told ans: the final answers stay true, but for a success taken back.    *)
Told(ans, st) ==
    /\ ans = "success" => st \in {"success", "reversed"}
    /\ ans = "failed" => st = "failed"
    /\ ans = "reversed" => st = "reversed"

(* The handlers about to send an auto-released cashout, or that did and    *)
(* have not stored the code.                                               *)
Sending(p) == proc[p].pc \in {"initiate", "store"}

(* The handlers that carry a cashout together with its code.               *)
Holding(p) == proc[p].pc \in {"verify", "finish", "otp_call", "otp_write",
                              "rec_verify", "rec_write", "fin_write"}

(* A handler past its first step knows its cashout, and its transfer.      *)
HandlerArgs(p) ==
    /\ proc[p].pc \notin {"idle", "fin_find"} => proc[p].c \in Cashouts
    /\ Holding(p) \/ proc[p].pc \in {"store", "fin_find"} => proc[p].t \in Transfers

HandlerAnswer(p) ==
    /\ proc[p].pc \in {"finish", "otp_write", "rec_write", "fin_find", "fin_write"} =>
           Told(proc[p].ans, transfer[proc[p].t].st)
    /\ proc[p].pc \in {"fin_find", "fin_write"} =>
           proc[p].ans \in {"success", "failed", "reversed"}

HandlerRow(p) ==
    LET c == proc[p].c IN
    /\ Sending(p) \/ Holding(p) \/ At(p, "reject") => row[c].st # "NONE"
    /\ At(p, "reject") => ~row[c].auto
    /\ Holding(p) => row[c].code # None /\ (row[c].auto => row[c].code = proc[p].t)
    /\ Sending(p) /\ row[c].auto => row[c].code = None
    /\ At(p, "initiate") /\ row[c].auto => TransfersOf(c) = {}
    /\ At(p, "store") => proc[p].t \in TransfersOf(c)

OneSender ==
    \A p, q \in Requests :
        /\ Sending(p) /\ Sending(q)
        /\ proc[p].c = proc[q].c
        /\ row[proc[p].c].auto
        => p = q

RowBacked(c) ==
    /\ row[c].st = "NONE" => ~row[c].auto /\ row[c].code = None /\ TransfersOf(c) = {}
    /\ row[c].auto =>
          /\ row[c].st \notin {"PENDING", "REJECTED"}
          /\ \A t, u \in TransfersOf(c) : t = u
          /\ row[c].code = None => row[c].st = "CONFIRMED"
          /\ row[c].code # None => row[c].code \in TransfersOf(c)
          /\ row[c].st = "COMPLETED" => transfer[row[c].code].st \in {"success", "reversed"}
          /\ row[c].st = "FAILED" => transfer[row[c].code].st = "failed"
          /\ row[c].st = "REVERSED" => transfer[row[c].code].st = "reversed"

(* Every auto-released row is backed by the one transfer it names, and     *)
(* every handler that may yet write the row carries that transfer and a    *)
(* true answer about it.                                                   *)
Backed ==
    /\ \A p \in Requests : HandlerAnswer(p) /\ HandlerRow(p)
    /\ OneSender
    /\ \A c \in Cashouts : RowBacked(c)
    /\ \A e \in event : Told(e[1], transfer[e[2]].st)

------------------------------------------------------------------------------
(* What the repository claims of the code and the code does not keep.      *)

(* "No double-spend race": the venue is never paid more than it earned.    *)
NeverOverpaid ==
    MapThenSumSet(LAMBDA t : Amount[transfer[t].for],
                  {t \in Transfers : transfer[t].st \in Live}) <= funds

=============================================================================
