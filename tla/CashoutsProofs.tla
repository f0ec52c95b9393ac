--------------------------- MODULE CashoutsProofs ---------------------------
(***************************************************************************)
(* The safety of Cashouts, for any number of cashouts, transfers, payments *)
(* and concurrent handlers, and that they implement PayoutLedger.          *)
(***************************************************************************)
EXTENDS Cashouts, TLAPS, FiniteSetTheorems

------------------------------------------------------------------------------
(* Types.  TypeOK alone is not inductive: a step that asks the gateway     *)
(* about its transfer must carry one.                                      *)

Types == TypeOK /\ \A p \in Requests : HandlerArgs(p)

ProcType == proc \in [Requests -> Handler]
RowType == row \in [Cashouts -> CashoutRow]

(* An idle handler is a handler.                                           *)
LEMMA IdleType == Idle \in Handler
BY DEF Handler, Idle, PC, TransferState

(* What the steps do to the handlers and to the rows keeps the types.      *)
LEMMA GotoType ==
    ASSUME ProcType, NEW p \in Requests, NEW pc \in PC, Goto(p, pc)
    PROVE  ProcType'
BY DEF ProcType, Goto, Handler

(* A handler that returns is idle, with nothing in hand.                   *)
LEMMA ReturnType ==
    ASSUME ProcType, NEW p \in Requests, Return(p)
    PROVE  ProcType'
BY IdleType DEF ProcType, Return

(* A handler starts on a cashout that exists, with its transfer or none.   *)
LEMMA StartType ==
    ASSUME ProcType, NEW p \in Requests, NEW pc \in PC, NEW c \in Cashouts,
           NEW t \in Transfers \cup {None}, Start(p, pc, c, t)
    PROVE  ProcType'
BY IdleType DEF ProcType, Start, Handler, Idle

(* A handler's record is replaced as a whole by another handler.           *)
LEMMA UpdateType ==
    ASSUME ProcType, NEW p \in Requests, NEW h \in Handler, proc' = [proc EXCEPT ![p] = h]
    PROVE  ProcType'
BY DEF ProcType

(* A handler stays one when it is told an answer.                          *)
LEMMA SetAnswer ==
    ASSUME NEW h \in Handler, NEW pc \in PC, NEW ans \in TransferState
    PROVE  [h EXCEPT !.pc = pc, !.ans = ans] \in Handler
BY DEF Handler

(* verifyTransfer answers a transfer's own status.                         *)
LEMMA AnswerType ==
    ASSUME ProcType, NEW p \in Requests, NEW pc \in PC, Answer(p, pc),
           proc[p].t \in Transfers, transfer \in [Transfers -> Transfer]
    PROVE  ProcType'
<1>1. transfer[proc[p].t].st \in TransferState
  BY DEF Transfer
<1>2. proc' = [proc EXCEPT ![p] = [proc[p] EXCEPT !.pc = pc, !.ans = transfer[proc[p].t].st]]
  BY DEF Answer
<1>3. QED
  BY <1>1, <1>2, SetAnswer, UpdateType DEF ProcType

(* An update of the status by id leaves the row a row.                     *)
LEMMA WriteType ==
    ASSUME RowType, NEW c \in Cashouts, NEW st \in CashoutStatus, Write(c, st)
    PROVE  RowType'
BY DEF RowType, Write, CashoutRow

(* The types hold at first.                                                *)
LEMMA TypeInit == Init => Types
<1> SUFFICES ASSUME Init PROVE Types
  OBVIOUS
<1> USE CashoutAssumption DEF Init
<1>1. row \in [Cashouts -> CashoutRow]
  BY DEF CashoutRow, NoRow, CashoutStatus
<1>2. transfer \in [Transfers -> Transfer]
  BY DEF Transfer, NoTransfer, TransferState
<1>3. proc \in [Requests -> Handler]
  BY IdleType
<1>4. \A p \in Requests : HandlerArgs(p)
  BY DEF HandlerArgs, Holding, Idle
<1>5. QED
  BY <1>1, <1>2, <1>3, <1>4 DEF Types, TypeOK

(* Every step keeps them.                                                  *)
LEMMA TypeNext == Types /\ [Next]_vars => Types'
<1> SUFFICES ASSUME Types, [Next]_vars PROVE Types'
  OBVIOUS
<1> USE CashoutAssumption
<1> USE DEF Types, TypeOK, ProcType, RowType, HandlerArgs, Holding
<1>1. ASSUME NEW p \in Requests, NEW c \in Cashouts, Request(p, c) PROVE Types'
  <2>1. PICK h \in BOOLEAN :
            proc' = [proc EXCEPT ![p] = [Idle EXCEPT !.pc = "create", !.c = c, !.held = h]]
    BY <1>1 DEF Request
  <2>2. [Idle EXCEPT !.pc = "create", !.c = c, !.held = h] \in Handler
    BY IdleType DEF Handler, PC
  <2>3. ProcType'
    BY <2>1, <2>2
  <2>4. QED
    BY <1>1, <2>1, <2>3 DEF Request, Idle
<1>2. ASSUME NEW p \in Requests, NEW c \in Cashouts, Confirm(p, c) PROVE Types'
  <2>1. ProcType'
    BY <1>2, StartType DEF Confirm, PC
  <2>2. QED
    BY <1>2, <2>1 DEF Confirm, Start, Idle
<1>3. ASSUME NEW p \in Requests, NEW c \in Cashouts, Reject(p, c) PROVE Types'
  <2>1. ProcType'
    BY <1>3, StartType DEF Reject, PC
  <2>2. QED
    BY <1>3, <2>1 DEF Reject, Start, Idle
<1>4. ASSUME NEW p \in Requests, NEW c \in Cashouts, FinalizeOtp(p, c) PROVE Types'
  <2>1. row[c].code \in Transfers
    BY <1>4 DEF FinalizeOtp, CashoutRow
  <2>2. ProcType'
    BY <1>4, <2>1, StartType DEF FinalizeOtp, PC
  <2>3. QED
    BY <1>4, <2>1, <2>2 DEF FinalizeOtp, Start, Idle
<1>5. ASSUME NEW p \in Requests, NEW c \in Cashouts, Reconcile(p, c) PROVE Types'
  <2>1. row[c].code \in Transfers
    BY <1>5 DEF Reconcile, CashoutRow
  <2>2. ProcType'
    BY <1>5, <2>1, StartType DEF Reconcile, PC
  <2>3. QED
    BY <1>5, <2>1, <2>2 DEF Reconcile, Start, Idle
<1>6. ASSUME NEW p \in Requests, NEW e \in event, Deliver(p, e) PROVE Types'
  <2>1. e[1] \in TransferState /\ e[2] \in Transfers
    BY DEF Event, TransferState
  <2>2. [Idle EXCEPT !.pc = "fin_find", !.t = e[2], !.ans = e[1]] \in Handler
    BY <2>1, IdleType DEF Handler, PC
  <2>3. ProcType'
    BY <1>6, <2>2 DEF Deliver
  <2>4. QED
    BY <1>6, <2>1, <2>3 DEF Deliver, Idle
<1>7. ASSUME NEW p \in Requests, RequestCreate(p) PROVE Types'
  <2>1. ProcType'
    BY <1>7, GotoType, ReturnType DEF RequestCreate, PC
  <2>2. proc[p].held \in BOOLEAN
    BY DEF Handler
  <2>3. [NoRow EXCEPT !.st = IF proc[p].held THEN "PENDING" ELSE "CONFIRMED",
                      !.auto = ~proc[p].held] \in CashoutRow
    BY <2>2 DEF CashoutRow, NoRow, CashoutStatus
  <2>4. RowType'
    BY <1>7, <2>3 DEF RequestCreate
  <2>5. \A q \in Requests : HandlerArgs(q)'
    <3>1. CASE Return(p)
      BY <3>1 DEF Return, Idle
    <3>2. CASE Goto(p, "initiate")
      BY <1>7, <3>2 DEF RequestCreate, At, Goto
    <3>3. QED
      BY <1>7, <3>1, <3>2 DEF RequestCreate
  <2>6. QED
    BY <1>7, <2>1, <2>4, <2>5 DEF RequestCreate
<1>8. ASSUME NEW p \in Requests, RejectWrite(p) PROVE Types'
  <2>1. ProcType' /\ RowType'
    BY <1>8, ReturnType, WriteType DEF RejectWrite, CashoutStatus, At
  <2>2. QED
    BY <1>8, <2>1 DEF RejectWrite, Return, Idle
<1>9. ASSUME NEW p \in Requests, Initiate(p) PROVE Types'
  <2>1. PICK t \in Transfers, st \in {"otp", "pending"} :
            /\ transfer' = [transfer EXCEPT ![t] = [st |-> st, for |-> proc[p].c]]
            /\ proc' = [proc EXCEPT ![p].pc = "store", ![p].t = t, ![p].ans = st]
    BY <1>9 DEF Initiate
  <2>2. ProcType'
    <3>1. [proc[p] EXCEPT !.pc = "store", !.t = t, !.ans = st] \in Handler
      BY DEF Handler, PC, TransferState
    <3>2. QED
      BY <2>1, <3>1, UpdateType
  <2>3. (transfer \in [Transfers -> Transfer])'
    BY <2>1 DEF Handler, Transfer, TransferState
  <2>4. QED
    BY <1>9, <2>1, <2>2, <2>3 DEF Initiate, At
<1>10. ASSUME NEW p \in Requests, StoreCode(p) PROVE Types'
  <2>1. ProcType'
    BY <1>10, GotoType, ReturnType DEF StoreCode, PC
  <2>2. RowType'
    BY <1>10 DEF StoreCode, CashoutRow, CashoutStatus, At
  <2>3. \A q \in Requests : HandlerArgs(q)'
    <3>1. CASE Return(p)
      BY <3>1 DEF Return, Idle
    <3>2. CASE Goto(p, "verify")
      BY <1>10, <3>2 DEF StoreCode, At, Goto
    <3>3. QED
      BY <1>10, <3>1, <3>2 DEF StoreCode
  <2>4. QED
    BY <1>10, <2>1, <2>2, <2>3 DEF StoreCode
<1>11. ASSUME NEW p \in Requests, Verify(p) PROVE Types'
  <2>1. ProcType'
    BY <1>11, AnswerType DEF Verify, At, PC
  <2>2. QED
    BY <1>11, <2>1 DEF Verify, Answer, At
<1>12. ASSUME NEW p \in Requests, Finish(p) PROVE Types'
  <2>1. ProcType' /\ RowType'
    BY <1>12, ReturnType, WriteType DEF Finish, CashoutStatus, At
  <2>2. QED
    BY <1>12, <2>1 DEF Finish, Return, Idle
<1>13. ASSUME NEW p \in Requests, OtpCall(p) PROVE Types'
  <2>1. CASE Return(p) /\ UNCHANGED <<transfer, event>>
    BY <1>13, <2>1, ReturnType DEF OtpCall, Return, Idle
  <2>2. CASE ~(Return(p) /\ UNCHANGED <<transfer, event>>)
    <3>1. PICK st \in {"pending", "success", "failed"} :
              /\ transfer' = [transfer EXCEPT ![proc[p].t].st = st]
              /\ proc' = [proc EXCEPT ![p].pc = "otp_write", ![p].ans = st]
              /\ event' = IF st = "pending" THEN event ELSE event \cup {<<st, proc[p].t>>}
      BY <1>13, <2>2 DEF OtpCall
    <3>2. ProcType'
      <4>1. "otp_write" \in PC /\ st \in TransferState
        BY DEF PC, TransferState
      <4>2. proc' = [proc EXCEPT ![p] = [proc[p] EXCEPT !.pc = "otp_write", !.ans = st]]
        BY <3>1
      <4>3. QED
        BY <4>1, <4>2, SetAnswer, UpdateType
    <3>3. (transfer \in [Transfers -> Transfer])'
      BY <3>1 DEF Transfer, TransferState
    <3>4. proc[p].t \in Transfers
      BY <1>13 DEF OtpCall, At
    <3>5. (event \subseteq Event)'
      BY <3>1, <3>4 DEF Event
    <3>6. QED
      BY <1>13, <3>1, <3>2, <3>3, <3>5 DEF OtpCall, At
  <2>3. QED
    BY <2>1, <2>2
<1>14. ASSUME NEW p \in Requests, OtpWrite(p) PROVE Types'
  <2>1. ProcType' /\ RowType'
    BY <1>14, ReturnType, WriteType DEF OtpWrite, CashoutStatus, At
  <2>2. QED
    BY <1>14, <2>1 DEF OtpWrite, Return, Idle
<1>15. ASSUME NEW p \in Requests, ReconcileVerify(p) PROVE Types'
  <2>1. ProcType'
    BY <1>15, AnswerType DEF ReconcileVerify, At, PC
  <2>2. QED
    BY <1>15, <2>1 DEF ReconcileVerify, Answer, At
<1>16. ASSUME NEW p \in Requests, ReconcileWrite(p) PROVE Types'
  <2>1. ProcType' /\ RowType'
    BY <1>16, ReturnType, WriteType DEF ReconcileWrite, CashoutStatus, At
  <2>2. QED
    BY <1>16, <2>1 DEF ReconcileWrite, Return, Idle
<1>17. ASSUME NEW p \in Requests, FinalizeFind(p) PROVE Types'
  <2>1. CASE Acknowledge(p)
    BY <1>17, <2>1, ReturnType DEF FinalizeFind, Acknowledge, Return, Idle
  <2>2. CASE ~Acknowledge(p)
    <3>1. PICK c \in Cashouts :
              /\ proc' = [proc EXCEPT ![p].pc = "fin_write", ![p].c = c]
              /\ UNCHANGED event
      BY <1>17, <2>2 DEF FinalizeFind
    <3>2. [proc[p] EXCEPT !.pc = "fin_write", !.c = c] \in Handler
      BY DEF Handler, PC
    <3>3. ProcType'
      BY <3>1, <3>2, UpdateType
    <3>4. \A q \in Requests : HandlerArgs(q)'
      <4>1. proc[p].t \in Transfers
        BY <1>17 DEF FinalizeFind, At
      <4>2. QED
        BY <3>1, <3>3, <4>1 DEF Handler
    <3>5. UNCHANGED <<settled, row, transfer, faults>>
      BY <1>17 DEF FinalizeFind
    <3>6. QED
      BY <3>1, <3>3, <3>4, <3>5
  <2>3. QED
    BY <2>1, <2>2
<1>18. ASSUME NEW p \in Requests, FinalizeWrite(p) PROVE Types'
  <2>1. ProcType' /\ RowType'
    BY <1>18, ReturnType, WriteType DEF FinalizeWrite, Acknowledge, CashoutStatus, At
  <2>2. QED
    BY <1>18, <2>1 DEF FinalizeWrite, Acknowledge, Return, Idle
<1>19. ASSUME NEW p \in Requests, HandlerThrows(p) PROVE Types'
  <2>1. (faults \in 0 .. MaxFaults)'
    BY <1>19 DEF HandlerThrows, Fault
  <2>2. ProcType'
    BY <1>19, ReturnType DEF HandlerThrows
  <2>3. QED
    BY <1>19, <2>1, <2>2 DEF HandlerThrows, Return, Idle
<1>20. ASSUME NEW y \in Payments, PaymentSettles(y) \/ PaymentReversed(y) PROVE Types'
  BY <1>20 DEF PaymentSettles, PaymentReversed
<1>21. ASSUME NEW t \in Transfers, TransferMoves(t) PROVE Types'
  <2>1. PICK st \in {"otp", "success", "failed", "reversed"} :
            /\ transfer' = [transfer EXCEPT ![t].st = st]
            /\ event' = IF st = "otp" THEN event ELSE event \cup {<<st, t>>}
    BY <1>21 DEF TransferMoves
  <2>2. (transfer \in [Transfers -> Transfer])'
    BY <2>1 DEF Transfer, TransferState
  <2>3. (event \subseteq Event)'
    BY <2>1 DEF Event
  <2>4. QED
    BY <1>21, <2>2, <2>3 DEF TransferMoves
<1>22. ASSUME Crash PROVE Types'
  BY <1>22, IdleType DEF Crash, Fault, Idle
<1>23. ASSUME UNCHANGED vars PROVE Types'
  BY <1>23 DEF vars
<1>24. QED
  BY <1>1, <1>2, <1>3, <1>4, <1>5, <1>6, <1>7, <1>8, <1>9, <1>10, <1>11, <1>12, <1>13,
     <1>14, <1>15, <1>16, <1>17, <1>18, <1>19, <1>20, <1>21, <1>22, <1>23
     DEF Next, StartRequest, RequestStep

(* Every variable keeps its type.                                          *)
THEOREM TypeCorrect == Spec => []TypeOK
<1>1. Types => TypeOK
  BY DEF Types
<1>2. QED
  BY <1>1, TypeInit, TypeNext, PTL DEF Spec

------------------------------------------------------------------------------
(* The safety of the cashouts the policy released.  The properties are not *)
(* inductive: a handler that works on an old row writes it by id.  Backed  *)
(* says what each such handler still knows when it does.                   *)

(* Transfers move on, but what was once answered about one stays true.     *)
StillTold ==
    \A t \in Transfers :
        /\ transfer'[t].for = transfer[t].for
        /\ transfer'[t].st = "none" <=> transfer[t].st = "none"
        /\ \A ans \in TransferState :
              Told(ans, transfer[t].st) => Told(ans, transfer'[t].st)

(* A step that writes no row, and breaks none of the answers given so far, *)
(* keeps Backed if it does so for the handlers S that it moves.            *)
LEMMA KeepRows ==
    ASSUME Types, Types', Backed, StillTold, UNCHANGED row,
           NEW S \in SUBSET Requests,
           \A q \in Requests \ S : proc'[q] = proc[q],
           \A q \in S : HandlerAnswer(q)' /\ HandlerRow(q)',
           \A q \in S : Sending(q)' /\ row[proc'[q].c].auto =>
                           Sending(q) /\ proc'[q].c = proc[q].c,
           \A e \in event' : Told(e[1], transfer'[e[2]].st)
    PROVE  Backed'
<1> USE CashoutAssumption
<1>1. \A c : TransfersOf(c)' = TransfersOf(c)
  BY DEF TransfersOf, StillTold
<1>2. \A q \in Requests : HandlerAnswer(q)'
  <2> SUFFICES ASSUME NEW q \in Requests \ S PROVE HandlerAnswer(q)'
    OBVIOUS
  <2>1. HandlerAnswer(q) /\ proc'[q] = proc[q]
    BY DEF Backed
  <2>2. proc[q].pc \in {"finish", "otp_write", "rec_write", "fin_find", "fin_write"} =>
            proc[q].t \in Transfers /\ proc[q].ans \in TransferState
    BY DEF Types, TypeOK, HandlerArgs, Holding, Handler
  <2>3. QED
    BY <2>1, <2>2 DEF HandlerAnswer, StillTold
<1>3. \A q \in Requests : HandlerRow(q)'
  BY <1>1 DEF Backed, HandlerRow, Sending, Holding, At
<1>4. OneSender'
  BY DEF Backed, OneSender, Sending
<1>5. \A c \in Cashouts : RowBacked(c)'
  <2> SUFFICES ASSUME NEW c \in Cashouts PROVE RowBacked(c)'
    OBVIOUS
  <2>1. RowBacked(c)
    BY DEF Backed
  <2>2. \A t \in TransfersOf(c) : t \in Transfers
    BY DEF TransfersOf
  <2>3. \A t \in Transfers :
          /\ transfer[t].st \in {"success", "reversed"} => transfer'[t].st \in {"success", "reversed"}
          /\ transfer[t].st = "failed" => transfer'[t].st = "failed"
          /\ transfer[t].st = "reversed" => transfer'[t].st = "reversed"
    BY DEF StillTold, Told, TransferState
  <2>4. QED
    BY <1>1, <2>1, <2>2, <2>3 DEF RowBacked
<1>6. QED
  BY <1>2, <1>3, <1>4, <1>5 DEF Backed

(* The last write of a handler: the status it writes by id is true of the  *)
(* transfer the row names, so Backed stands, whatever the row has become.  *)
LEMMA WriteRow ==
    ASSUME Types, Backed, UNCHANGED transfer, event' \subseteq event,
           NEW p \in Requests, NEW st \in CashoutStatus \ {"NONE"},
           NEW c \in Cashouts, Write(c, st), Return(p),
           row[c].st # "NONE",
           row[c].auto =>
              /\ row[c].code # None
              /\ st \in {"PROCESSING", "COMPLETED", "FAILED", "REVERSED"}
              /\ st = "COMPLETED" => Told("success", transfer[row[c].code].st)
              /\ st = "FAILED" => Told("failed", transfer[row[c].code].st)
              /\ st = "REVERSED" => Told("reversed", transfer[row[c].code].st)
    PROVE  Backed'
<1> USE CashoutAssumption
<1>1. \A d : TransfersOf(d)' = TransfersOf(d)
  BY DEF TransfersOf
<1>2. \A d \in Cashouts : /\ row'[d].auto = row[d].auto
                          /\ row'[d].code = row[d].code
                          /\ d # c => row'[d] = row[d]
                          /\ row'[d].st = "NONE" <=> row[d].st = "NONE"
  BY DEF Write, Types, TypeOK, CashoutRow
<1>3. proc'[p] = Idle /\ \A q \in Requests : q # p => proc'[q] = proc[q]
  BY DEF Return, Types, TypeOK
<1>4. \A q \in Requests : HandlerAnswer(q)'
  BY <1>3 DEF Backed, HandlerAnswer, Idle
<1>5. \A q \in Requests : HandlerRow(q)'
  BY <1>1, <1>2, <1>3 DEF Backed, HandlerRow, Sending, Holding, At, Idle, Types, HandlerArgs
<1>6. OneSender'
  BY <1>2, <1>3 DEF Backed, OneSender, Sending, Idle, Types, HandlerArgs
<1>7. \A d \in Cashouts : RowBacked(d)'
  <2>1. \A d \in Cashouts : RowBacked(d)
    BY DEF Backed
  <2>2. row'[c].st = st
    BY DEF Write, Types, TypeOK, CashoutRow
  <2>3. RowBacked(c)'
    BY <1>1, <1>2, <2>1, <2>2 DEF RowBacked, Told
  <2>4. ASSUME NEW d \in Cashouts, d # c PROVE RowBacked(d)'
    BY <1>1, <1>2, <2>1, <2>4 DEF RowBacked
  <2>5. QED
    BY <2>3, <2>4
<1>8. QED
  BY <1>4, <1>5, <1>6, <1>7 DEF Backed

(* A handler moves by itself: it reads a row, or the gateway's answer.     *)
LEMMA LocalStep ==
    ASSUME Types, Types', Backed, UNCHANGED <<row, transfer>>, event' \subseteq event,
           NEW p \in Requests,
           \A q \in Requests : q # p => proc'[q] = proc[q],
           HandlerAnswer(p)', HandlerRow(p)',
           Sending(p)' /\ row[proc'[p].c].auto => Sending(p) /\ proc'[p].c = proc[p].c
    PROVE  Backed'
<1>1. StillTold
  BY DEF StillTold
<1>2. \A e \in event' : Told(e[1], transfer'[e[2]].st)
  BY DEF Backed
<1>3. \A q \in Requests \ {p} : proc'[q] = proc[q]
  OBVIOUS
<1>4. \A q \in {p} : /\ HandlerAnswer(q)' /\ HandlerRow(q)'
                     /\ Sending(q)' /\ row[proc'[q].c].auto =>
                           Sending(q) /\ proc'[q].c = proc[q].c
  OBVIOUS
<1>5. {p} \in SUBSET Requests
  OBVIOUS
<1>6. QED
  BY <1>1, <1>2, <1>3, <1>4, <1>5, KeepRows

(* A handler returns, or is thrown out, without a write.                   *)
LEMMA ReturnStep ==
    ASSUME Types, Types', Backed, UNCHANGED <<row, transfer>>, event' \subseteq event,
           NEW p \in Requests, Return(p)
    PROVE  Backed'
<1>1. proc'[p] = Idle /\ \A q \in Requests : q # p => proc'[q] = proc[q]
  BY DEF Return, Types, TypeOK
<1>2. HandlerAnswer(p)' /\ HandlerRow(p)' /\ ~Sending(p)'
  BY <1>1 DEF HandlerAnswer, HandlerRow, Sending, Holding, At, Idle
<1>3. QED
  BY <1>1, <1>2, LocalStep

(* At first there is no cashout to back.                                   *)
LEMMA BackedInit == Init => Backed
BY CashoutAssumption DEF Init, Backed, HandlerAnswer, HandlerRow, OneSender, RowBacked, Sending,
   Holding, At, Idle, NoRow, TransfersOf, NoTransfer

(* Every step keeps Backed.                                                *)
LEMMA BackedNext == Types /\ Types' /\ Backed /\ [Next]_vars => Backed'
<1> SUFFICES ASSUME Types, Types', Backed, [Next]_vars PROVE Backed'
  OBVIOUS
<1> USE CashoutAssumption
<1>1. ASSUME NEW p \in Requests, NEW c \in Cashouts, Request(p, c) PROVE Backed'
  <2>1. /\ proc'[p].pc = "create"
        /\ \A q \in Requests : q # p => proc'[q] = proc[q]
    BY <1>1 DEF Request, Types, TypeOK, Idle
  <2>2. HandlerAnswer(p)' /\ HandlerRow(p)' /\ ~Sending(p)'
    BY <2>1 DEF HandlerAnswer, HandlerRow, Sending, Holding, At
  <2>3. QED
    BY <1>1, <2>1, <2>2, LocalStep DEF Request
<1>2. ASSUME NEW p \in Requests, NEW c \in Cashouts, Confirm(p, c) PROVE Backed'
  <2>1. /\ proc'[p].pc = "initiate" /\ proc'[p].c = c
        /\ \A q \in Requests : q # p => proc'[q] = proc[q]
    BY <1>2 DEF Confirm, Start, Types, TypeOK, Idle
  <2>2. row[c].st = "PENDING" /\ ~row[c].auto
    BY <1>2 DEF Confirm, Backed, RowBacked
  <2>3. HandlerAnswer(p)' /\ HandlerRow(p)'
    BY <1>2, <2>1, <2>2 DEF Confirm, HandlerAnswer, HandlerRow, Sending, Holding, At
  <2>4. QED
    BY <1>2, <2>1, <2>2, <2>3, LocalStep DEF Confirm
<1>3. ASSUME NEW p \in Requests, NEW c \in Cashouts, Reject(p, c) PROVE Backed'
  <2>1. /\ proc'[p].pc = "reject" /\ proc'[p].c = c
        /\ \A q \in Requests : q # p => proc'[q] = proc[q]
    BY <1>3 DEF Reject, Start, Types, TypeOK, Idle
  <2>2. row[c].st = "PENDING" /\ ~row[c].auto
    BY <1>3 DEF Reject, Backed, RowBacked
  <2>3. HandlerAnswer(p)' /\ HandlerRow(p)' /\ ~Sending(p)'
    BY <1>3, <2>1, <2>2 DEF Reject, HandlerAnswer, HandlerRow, Sending, Holding, At
  <2>4. QED
    BY <1>3, <2>1, <2>3, LocalStep DEF Reject
<1>4. ASSUME NEW p \in Requests, NEW c \in Cashouts, FinalizeOtp(p, c) PROVE Backed'
  <2>1. /\ proc'[p].pc = "otp_call" /\ proc'[p].c = c /\ proc'[p].t = row[c].code
        /\ \A q \in Requests : q # p => proc'[q] = proc[q]
    BY <1>4 DEF FinalizeOtp, Start, Types, TypeOK, Idle
  <2>2. HandlerAnswer(p)' /\ HandlerRow(p)' /\ ~Sending(p)'
    BY <1>4, <2>1 DEF FinalizeOtp, HandlerAnswer, HandlerRow, Sending, Holding, At
  <2>3. QED
    BY <1>4, <2>1, <2>2, LocalStep DEF FinalizeOtp
<1>5. ASSUME NEW p \in Requests, NEW c \in Cashouts, Reconcile(p, c) PROVE Backed'
  <2>1. /\ proc'[p].pc = "rec_verify" /\ proc'[p].c = c /\ proc'[p].t = row[c].code
        /\ \A q \in Requests : q # p => proc'[q] = proc[q]
    BY <1>5 DEF Reconcile, Start, Types, TypeOK, Idle
  <2>2. HandlerAnswer(p)' /\ HandlerRow(p)' /\ ~Sending(p)'
    BY <1>5, <2>1 DEF Reconcile, HandlerAnswer, HandlerRow, Sending, Holding, At
  <2>3. QED
    BY <1>5, <2>1, <2>2, LocalStep DEF Reconcile
<1>6. ASSUME NEW p \in Requests, NEW e \in event, Deliver(p, e) PROVE Backed'
  <2>1. /\ proc'[p].pc = "fin_find" /\ proc'[p].t = e[2] /\ proc'[p].ans = e[1]
        /\ \A q \in Requests : q # p => proc'[q] = proc[q]
    BY <1>6 DEF Deliver, Types, TypeOK, Idle
  <2>2. e[1] \in {"success", "failed", "reversed"} /\ Told(e[1], transfer[e[2]].st)
    BY DEF Types, TypeOK, Event, Backed
  <2>3. HandlerAnswer(p)' /\ HandlerRow(p)' /\ ~Sending(p)'
    BY <1>6, <2>1, <2>2 DEF Deliver, HandlerAnswer, HandlerRow, Sending, Holding, At
  <2>4. QED
    BY <1>6, <2>1, <2>3, LocalStep DEF Deliver
<1>7. ASSUME NEW p \in Requests, RequestCreate(p) PROVE Backed'
  <2>1. CASE UNCHANGED row /\ Return(p)
    BY <1>7, <2>1, ReturnStep DEF RequestCreate
  <2>2. CASE row[proc[p].c].st = "NONE" /\ Affordable(proc[p].c)
    <3>1. PICK c \in Cashouts : c = proc[p].c
      BY <1>7 DEF RequestCreate, At, Types, HandlerArgs
    <3>2. proc[p].held \in BOOLEAN
      BY DEF Types, TypeOK, Handler
    <3>3. /\ row'[c].st = IF proc[p].held THEN "PENDING" ELSE "CONFIRMED"
          /\ row'[c].code = None
          /\ row'[c].auto <=> ~proc[p].held
          /\ \A d \in Cashouts : d # c => row'[d] = row[d]
      <4>1. PICK nr : /\ nr = [NoRow EXCEPT !.st = IF proc[p].held THEN "PENDING" ELSE "CONFIRMED",
                                            !.auto = ~proc[p].held]
                      /\ row' = [row EXCEPT ![c] = nr]
        BY <1>7, <2>2, <3>1 DEF RequestCreate
      <4>2. /\ nr.st = IF proc[p].held THEN "PENDING" ELSE "CONFIRMED"
            /\ nr.code = None
        BY <4>1 DEF NoRow
      <4>3. nr.auto <=> ~proc[p].held
        <5>1. nr.auto = ~proc[p].held
          BY <4>1 DEF NoRow
        <5>2. QED
          BY <5>1, <3>2
      <4>4. row'[c] = nr /\ \A d \in Cashouts : d # c => row'[d] = row[d]
        BY <4>1 DEF Types, TypeOK
      <4>5. QED
        BY <4>2, <4>3, <4>4
    <3>4. /\ row[c].st = "NONE" /\ ~row[c].auto /\ row[c].code = None
          /\ TransfersOf(c) = {}
      BY <2>2, <3>1 DEF Backed, RowBacked
    <3>5. \A d : TransfersOf(d)' = TransfersOf(d)
      BY <1>7 DEF RequestCreate, TransfersOf
    <3>6. \A q \in Requests : (Sending(q) \/ Holding(q) \/ At(q, "reject")) => proc[q].c # c
      BY <3>4 DEF Backed, HandlerRow
    <3>7. /\ \A q \in Requests : q # p => proc'[q] = proc[q]
          /\ \/ proc[p].held /\ proc'[p] = Idle
             \/ ~proc[p].held /\ proc'[p].pc = "initiate" /\ proc'[p].c = c
      BY <1>7, <2>2, <3>1 DEF RequestCreate, Return, Goto, Types, TypeOK, Handler
    <3>8. \A q \in Requests : HandlerAnswer(q)'
      BY <1>7, <3>7 DEF RequestCreate, Backed, HandlerAnswer, Idle
    <3>9. HandlerRow(p)'
      BY <3>3, <3>4, <3>5, <3>7 DEF HandlerRow, Sending, Holding, At, Idle
    <3>10. ASSUME NEW q \in Requests, q # p PROVE HandlerRow(q)'
      <4>1. HandlerRow(q) /\ proc'[q] = proc[q]
        BY <3>7, <3>10 DEF Backed
      <4>2. Sending(q) \/ Holding(q) \/ At(q, "reject") => row'[proc[q].c] = row[proc[q].c]
        BY <3>3, <3>6 DEF Types, HandlerArgs, Sending, Holding, At
      <4>3. QED
        BY <3>5, <4>1, <4>2 DEF HandlerRow, Sending, Holding, At
    <3>11. OneSender'
      BY <3>3, <3>6, <3>7 DEF Backed, OneSender, Sending, Idle, Types, HandlerArgs
    <3>12. \A d \in Cashouts : RowBacked(d)'
      <4>1. RowBacked(c)'
        BY <3>2, <3>3, <3>4, <3>5 DEF RowBacked
      <4>2. ASSUME NEW d \in Cashouts, d # c PROVE RowBacked(d)'
        BY <1>7, <3>3, <3>5, <4>2 DEF RequestCreate, Backed, RowBacked
      <4>3. QED
        BY <4>1, <4>2
    <3>13. \A e \in event' : Told(e[1], transfer'[e[2]].st)
      BY <1>7 DEF RequestCreate, Backed
    <3>14. QED
      BY <3>8, <3>9, <3>10, <3>11, <3>12, <3>13 DEF Backed
  <2>3. QED
    BY <1>7, <2>1, <2>2 DEF RequestCreate
<1>8. ASSUME NEW p \in Requests, RejectWrite(p) PROVE Backed'
  <2>1. PICK c \in Cashouts : c = proc[p].c
    BY <1>8 DEF RejectWrite, At, Types, HandlerArgs
  <2>2. row[c].st # "NONE" /\ ~row[c].auto
    BY <1>8, <2>1 DEF RejectWrite, Backed, HandlerRow
  <2>3. QED
    BY <1>8, <2>1, <2>2, WriteRow DEF RejectWrite, CashoutStatus
<1>9. ASSUME NEW p \in Requests, Initiate(p) PROVE Backed'
  <2>1. PICK c \in Cashouts : c = proc[p].c
    BY <1>9 DEF Initiate, At, Types, HandlerArgs
  <2>2. PICK t \in Transfers, st \in {"otp", "pending"} :
            /\ transfer[t].st = "none"
            /\ transfer' = [transfer EXCEPT ![t] = [st |-> st, for |-> c]]
            /\ proc' = [proc EXCEPT ![p].pc = "store", ![p].t = t, ![p].ans = st]
    BY <1>9, <2>1 DEF Initiate
  <2>3. /\ transfer'[t].st = st /\ transfer'[t].for = c
        /\ \A u \in Transfers : u # t => transfer'[u] = transfer[u]
    BY <2>2 DEF Types, TypeOK
  <2>4. /\ proc'[p].pc = "store" /\ proc'[p].c = c /\ proc'[p].t = t
        /\ \A q \in Requests : q # p => proc'[q] = proc[q]
    BY <2>1, <2>2 DEF Types, TypeOK, Handler
  <2>5. UNCHANGED <<row, event>>
    BY <1>9 DEF Initiate
  <2>6. /\ TransfersOf(c)' = TransfersOf(c) \cup {t}
        /\ \A d \in Cashouts : d # c => TransfersOf(d)' = TransfersOf(d)
        /\ \A d \in Cashouts : t \notin TransfersOf(d)
    BY <2>2, <2>3 DEF TransfersOf
  <2>7. /\ row[c].st # "NONE"
        /\ row[c].auto => row[c].code = None /\ TransfersOf(c) = {}
    BY <1>9, <2>1 DEF Initiate, Backed, HandlerRow, Sending, At
  <2>8. \A u \in Transfers : \A ans \in TransferState :
            Told(ans, transfer[u].st) => Told(ans, transfer'[u].st)
    BY <2>2, <2>3 DEF Told
  <2>9. \A q \in Requests : HandlerAnswer(q)'
    <3> SUFFICES ASSUME NEW q \in Requests, q # p PROVE HandlerAnswer(q)'
      BY <2>4 DEF HandlerAnswer
    <3>1. HandlerAnswer(q) /\ proc'[q] = proc[q]
      BY <2>4 DEF Backed
    <3>2. proc[q].pc \in {"finish", "otp_write", "rec_write", "fin_find", "fin_write"} =>
              proc[q].t \in Transfers /\ proc[q].ans \in TransferState
      BY DEF Types, TypeOK, HandlerArgs, Holding, Handler
    <3>3. QED
      BY <3>1, <3>2, <2>8 DEF HandlerAnswer
  <2>10. \A q \in Requests : HandlerRow(q)'
    <3>1. HandlerRow(p)'
      BY <2>4, <2>5, <2>6, <2>7 DEF HandlerRow, Sending, Holding, At
    <3>2. ASSUME NEW q \in Requests, q # p PROVE HandlerRow(q)'
      <4>1. HandlerRow(q) /\ proc'[q] = proc[q]
        BY <2>4, <3>2 DEF Backed
      <4>2. Sending(q) => proc[q].c \in Cashouts
        BY DEF Sending, Types, HandlerArgs
      <4>3. Sending(q) /\ row[proc[q].c].auto => proc[q].c # c
        BY <1>9, <2>1, <3>2 DEF Initiate, Backed, OneSender, Sending, At
      <4>4. QED
        BY <2>5, <2>6, <4>1, <4>2, <4>3 DEF HandlerRow, Sending, Holding, At
    <3>3. QED
      BY <3>1, <3>2
  <2>11. OneSender'
    <3>1. Sending(p)
      BY <1>9 DEF Initiate, Sending, At
    <3>2. QED
      BY <2>1, <2>4, <2>5, <3>1 DEF Backed, OneSender, Sending
  <2>12. \A d \in Cashouts : RowBacked(d)'
    <3>1. RowBacked(c)'
      BY <2>5, <2>6, <2>7 DEF Backed, RowBacked
    <3>2. ASSUME NEW d \in Cashouts, d # c PROVE RowBacked(d)'
      <4>1. RowBacked(d) /\ TransfersOf(d)' = TransfersOf(d)
        BY <2>6, <3>2 DEF Backed
      <4>2. \A u \in TransfersOf(d) : transfer'[u] = transfer[u]
        BY <2>3, <2>6 DEF TransfersOf
      <4>3. QED
        BY <2>5, <4>1, <4>2 DEF RowBacked
    <3>3. QED
      BY <3>1, <3>2
  <2>13. \A e \in event' : Told(e[1], transfer'[e[2]].st)
    BY <2>5, <2>8 DEF Backed, Types, TypeOK, Event, TransferState
  <2>14. QED
    BY <2>9, <2>10, <2>11, <2>12, <2>13 DEF Backed
<1>10. ASSUME NEW p \in Requests, StoreCode(p) PROVE Backed'
  <2>1. PICK c \in Cashouts : c = proc[p].c
    BY <1>10 DEF StoreCode, At, Types, HandlerArgs
  <2>2. PICK t \in Transfers : t = proc[p].t
    BY <1>10 DEF StoreCode, At, Types, HandlerArgs
  <2>3. /\ row'[c].st = "PROCESSING" /\ row'[c].code = t /\ row'[c].auto = row[c].auto
        /\ \A d \in Cashouts : d # c => row'[d] = row[d]
    BY <1>10, <2>1, <2>2 DEF StoreCode, Types, TypeOK, CashoutRow
  <2>4. /\ \A q \in Requests : q # p => proc'[q] = proc[q]
        /\ \/ proc'[p] = Idle
           \/ proc'[p].pc = "verify" /\ proc'[p].c = c /\ proc'[p].t = t
    BY <1>10, <2>1, <2>2 DEF StoreCode, Return, Goto, Types, TypeOK, Handler
  <2>5. UNCHANGED <<transfer, event>>
    BY <1>10 DEF StoreCode
  <2>6. \A d : TransfersOf(d)' = TransfersOf(d)
    BY <2>5 DEF TransfersOf
  <2>7. /\ Sending(p)
        /\ row[c].st # "NONE" /\ t \in TransfersOf(c)
        /\ row[c].auto => row[c].code = None
    BY <1>10, <2>1, <2>2 DEF StoreCode, Backed, HandlerRow, Sending, At
  <2>8. \A q \in Requests : HandlerAnswer(q)'
    BY <2>4, <2>5 DEF Backed, HandlerAnswer, Idle
  <2>9. \A q \in Requests : HandlerRow(q)'
    <3>1. HandlerRow(p)'
      BY <2>3, <2>4 DEF HandlerRow, Sending, Holding, At, Idle
    <3>2. ASSUME NEW q \in Requests, q # p PROVE HandlerRow(q)'
      <4>1. HandlerRow(q) /\ proc'[q] = proc[q]
        BY <2>4, <3>2 DEF Backed
      <4>2. Sending(q) \/ Holding(q) \/ At(q, "reject") => proc[q].c \in Cashouts
        BY DEF Types, HandlerArgs, Sending, Holding, At
      <4>3. CASE proc[q].c # c
        BY <2>3, <2>6, <4>1, <4>2, <4>3 DEF HandlerRow, Sending, Holding, At
      <4>4. CASE proc[q].c = c
        <5>1. row[c].auto => ~Sending(q) /\ ~Holding(q)
          BY <2>1, <2>7, <3>2, <4>1, <4>4 DEF Backed, OneSender, HandlerRow
        <5>2. t # None
          OBVIOUS
        <5>3. QED
          BY <2>3, <2>6, <4>1, <4>4, <5>1, <5>2 DEF HandlerRow, Sending, Holding, At
      <4>5. QED
        BY <4>3, <4>4
    <3>3. QED
      BY <3>1, <3>2
  <2>10. OneSender'
    BY <2>3, <2>4 DEF Backed, OneSender, Sending, Idle, Types, HandlerArgs
  <2>11. \A d \in Cashouts : RowBacked(d)'
    BY <2>3, <2>5, <2>6, <2>7 DEF Backed, RowBacked
  <2>12. \A e \in event' : Told(e[1], transfer'[e[2]].st)
    BY <2>5 DEF Backed
  <2>13. QED
    BY <2>8, <2>9, <2>10, <2>11, <2>12 DEF Backed
<1>11. ASSUME NEW p \in Requests, Verify(p) PROVE Backed'
  <2>1. /\ proc'[p].pc = "finish" /\ proc'[p].c = proc[p].c /\ proc'[p].t = proc[p].t
        /\ proc'[p].ans = transfer[proc[p].t].st
        /\ \A q \in Requests : q # p => proc'[q] = proc[q]
    BY <1>11 DEF Verify, Answer, Types, TypeOK, Handler
  <2>2. HandlerAnswer(p)' /\ HandlerRow(p)' /\ ~Sending(p)'
    BY <1>11, <2>1 DEF Verify, Backed, HandlerAnswer, HandlerRow, Told, Sending, Holding, At
  <2>3. QED
    BY <1>11, <2>1, <2>2, LocalStep DEF Verify
<1>12. ASSUME NEW p \in Requests, Finish(p) PROVE Backed'
  <2>1. PICK c \in Cashouts : c = proc[p].c
    BY <1>12 DEF Finish, At, Types, HandlerArgs
  <2>2. /\ row[c].st # "NONE" /\ row[c].code # None
        /\ row[c].auto => row[c].code = proc[p].t
        /\ Told(proc[p].ans, transfer[proc[p].t].st)
    BY <1>12, <2>1 DEF Finish, Backed, HandlerRow, HandlerAnswer, Holding, At
  <2>3. CASE UNCHANGED row
    BY <1>12, <2>3, ReturnStep DEF Finish
  <2>4. CASE row' # row
    <3>1. PICK st \in {"COMPLETED", "FAILED", "PROCESSING"} :
              /\ Write(c, st)
              /\ st = "COMPLETED" => proc[p].ans = "success"
              /\ st = "FAILED" => proc[p].ans = "failed"
      BY <1>12, <2>1, <2>4 DEF Finish
    <3>2. QED
      BY <1>12, <2>2, <3>1, WriteRow DEF Finish, CashoutStatus
  <2>5. QED
    BY <2>3, <2>4
<1>13. ASSUME NEW p \in Requests, OtpCall(p) PROVE Backed'
  <2>1. CASE Return(p) /\ UNCHANGED <<transfer, event>>
    BY <1>13, <2>1, ReturnStep DEF OtpCall
  <2>2. ASSUME NEW st \in {"pending", "success", "failed"},
               transfer[proc[p].t].st = "otp",
               transfer' = [transfer EXCEPT ![proc[p].t].st = st],
               proc' = [proc EXCEPT ![p].pc = "otp_write", ![p].ans = st],
               event' = IF st = "pending" THEN event ELSE event \cup {<<st, proc[p].t>>}
        PROVE  Backed'
    <3>1. PICK t \in Transfers : t = proc[p].t
      BY <1>13 DEF OtpCall, At, Types, HandlerArgs, Holding
    <3>2. /\ transfer'[t].st = st /\ transfer'[t].for = transfer[t].for
          /\ \A u \in Transfers : u # t => transfer'[u] = transfer[u]
      BY <2>2, <3>1 DEF Types, TypeOK, Transfer
    <3>3. StillTold
      BY <2>2, <3>1, <3>2 DEF StillTold, Told
    <3>4. /\ proc'[p].pc = "otp_write" /\ proc'[p].c = proc[p].c /\ proc'[p].t = t
          /\ proc'[p].ans = st
          /\ \A q \in Requests : q # p => proc'[q] = proc[q]
      BY <2>2, <3>1 DEF Types, TypeOK, Handler
    <3>5. UNCHANGED row /\ At(p, "otp_call")
      BY <1>13 DEF OtpCall
    <3>6. HandlerAnswer(p)' /\ HandlerRow(p)' /\ ~Sending(p)'
      <4>1. HandlerAnswer(p)'
        <5>1. Told(st, st)
          BY DEF Told
        <5>2. QED
          BY <3>2, <3>4, <5>1 DEF HandlerAnswer
      <4>2. HandlerRow(p)'
        <5>1. HandlerRow(p)
          BY DEF Backed
        <5>2. QED
          BY <3>1, <3>4, <3>5, <5>1 DEF HandlerRow, Sending, Holding, At
      <4>3. ~Sending(p)'
        BY <3>4 DEF Sending
      <4>4. QED
        BY <4>1, <4>2, <4>3
    <3>7. \A e \in event' : Told(e[1], transfer'[e[2]].st)
      <4>1. \A e \in event : Told(e[1], transfer'[e[2]].st)
        BY <3>3 DEF Backed, StillTold, Types, TypeOK, Event, TransferState
      <4>2. Told(st, transfer'[t].st)
        BY <3>2 DEF Told
      <4>3. QED
        BY <2>2, <3>1, <4>1, <4>2
    <3>8. \A q \in Requests \ {p} : proc'[q] = proc[q]
      BY <3>4
    <3>9. \A q \in {p} : /\ HandlerAnswer(q)' /\ HandlerRow(q)'
                         /\ Sending(q)' /\ row[proc'[q].c].auto =>
                               Sending(q) /\ proc'[q].c = proc[q].c
      BY <3>6
    <3>10. {p} \in SUBSET Requests
      OBVIOUS
    <3>11. QED
      BY <3>3, <3>5, <3>7, <3>8, <3>9, <3>10, KeepRows
  <2>3. QED
    BY <1>13, <2>1, <2>2 DEF OtpCall
<1>14. ASSUME NEW p \in Requests, OtpWrite(p) PROVE Backed'
  <2>1. PICK c \in Cashouts : c = proc[p].c
    BY <1>14 DEF OtpWrite, At, Types, HandlerArgs
  <2>2. /\ row[c].st # "NONE" /\ row[c].code # None
        /\ row[c].auto => row[c].code = proc[p].t
        /\ Told(proc[p].ans, transfer[proc[p].t].st)
    BY <1>14, <2>1 DEF OtpWrite, Backed, HandlerRow, HandlerAnswer, Holding, At
  <2>3. PICK st \in {"COMPLETED", "FAILED", "PROCESSING"} :
            /\ Write(c, st)
            /\ st = "COMPLETED" => proc[p].ans = "success"
            /\ st = "FAILED" => proc[p].ans = "failed"
    BY <1>14, <2>1 DEF OtpWrite
  <2>4. QED
    BY <1>14, <2>2, <2>3, WriteRow DEF OtpWrite, CashoutStatus
<1>15. ASSUME NEW p \in Requests, ReconcileVerify(p) PROVE Backed'
  <2>1. /\ proc'[p].pc = "rec_write" /\ proc'[p].c = proc[p].c /\ proc'[p].t = proc[p].t
        /\ proc'[p].ans = transfer[proc[p].t].st
        /\ \A q \in Requests : q # p => proc'[q] = proc[q]
    BY <1>15 DEF ReconcileVerify, Answer, Types, TypeOK, Handler
  <2>2. HandlerAnswer(p)' /\ HandlerRow(p)' /\ ~Sending(p)'
    BY <1>15, <2>1 DEF ReconcileVerify, Backed, HandlerAnswer, HandlerRow, Told, Sending,
       Holding, At
  <2>3. QED
    BY <1>15, <2>1, <2>2, LocalStep DEF ReconcileVerify
<1>16. ASSUME NEW p \in Requests, ReconcileWrite(p) PROVE Backed'
  <2>1. PICK c \in Cashouts : c = proc[p].c
    BY <1>16 DEF ReconcileWrite, At, Types, HandlerArgs
  <2>2. /\ row[c].st # "NONE" /\ row[c].code # None
        /\ row[c].auto => row[c].code = proc[p].t
        /\ Told(proc[p].ans, transfer[proc[p].t].st)
    BY <1>16, <2>1 DEF ReconcileWrite, Backed, HandlerRow, HandlerAnswer, Holding, At
  <2>3. CASE UNCHANGED row
    BY <1>16, <2>3, ReturnStep DEF ReconcileWrite
  <2>4. CASE row' # row
    <3>1. PICK st \in {"COMPLETED", "FAILED", "REVERSED"} :
              /\ Write(c, st)
              /\ st = "COMPLETED" => proc[p].ans = "success"
              /\ st = "FAILED" => proc[p].ans = "failed"
              /\ st = "REVERSED" => proc[p].ans = "reversed"
      BY <1>16, <2>1, <2>4 DEF ReconcileWrite
    <3>2. QED
      BY <1>16, <2>2, <3>1, WriteRow DEF ReconcileWrite, CashoutStatus
  <2>5. QED
    BY <2>3, <2>4
<1>17. ASSUME NEW p \in Requests, FinalizeFind(p) PROVE Backed'
  <2>1. UNCHANGED <<row, transfer>> /\ At(p, "fin_find")
    BY <1>17 DEF FinalizeFind
  <2>2. CASE Acknowledge(p)
    <3>1. event' \subseteq event /\ Return(p)
      BY <2>2 DEF Acknowledge
    <3>2. QED
      BY <2>1, <3>1, ReturnStep
  <2>3. CASE ~Acknowledge(p)
    <3>1. PICK c \in Cashouts :
              /\ row[c].code = proc[p].t
              /\ proc' = [proc EXCEPT ![p].pc = "fin_write", ![p].c = c]
              /\ UNCHANGED event
      BY <1>17, <2>3 DEF FinalizeFind
    <3>2. /\ proc'[p].pc = "fin_write" /\ proc'[p].c = c /\ proc'[p].t = proc[p].t
          /\ proc'[p].ans = proc[p].ans
          /\ \A q \in Requests : q # p => proc'[q] = proc[q]
      BY <3>1 DEF Types, TypeOK, Handler
    <3>3. row[c].code # None
      BY <2>1, <3>1 DEF Types, HandlerArgs, At
    <3>4. row[c].st # "NONE"
      BY <3>3 DEF Backed, RowBacked
    <3>5. HandlerAnswer(p)' /\ HandlerRow(p)' /\ ~Sending(p)'
      BY <2>1, <3>1, <3>2, <3>3, <3>4 DEF Backed, HandlerAnswer, HandlerRow, Sending,
         Holding, At
    <3>6. QED
      BY <2>1, <3>1, <3>2, <3>5, LocalStep
  <2>4. QED
    BY <2>2, <2>3
<1>18. ASSUME NEW p \in Requests, FinalizeWrite(p) PROVE Backed'
  <2>1. PICK c \in Cashouts : c = proc[p].c
    BY <1>18 DEF FinalizeWrite, At, Types, HandlerArgs
  <2>2. /\ row[c].st # "NONE" /\ row[c].code # None
        /\ row[c].auto => row[c].code = proc[p].t
        /\ Told(proc[p].ans, transfer[proc[p].t].st)
        /\ proc[p].ans \in {"success", "failed", "reversed"}
    BY <1>18, <2>1 DEF FinalizeWrite, Backed, HandlerRow, HandlerAnswer, Holding, At
  <2>3. PICK st \in {"COMPLETED", "FAILED", "REVERSED"} :
            /\ Write(c, st)
            /\ st = "COMPLETED" => proc[p].ans = "success"
            /\ st = "FAILED" => proc[p].ans = "failed"
            /\ st = "REVERSED" => proc[p].ans = "reversed"
    BY <1>18, <2>1, <2>2 DEF FinalizeWrite
  <2>4. event' \subseteq event
    BY <1>18 DEF FinalizeWrite, Acknowledge
  <2>5. QED
    BY <1>18, <2>2, <2>3, <2>4, WriteRow DEF FinalizeWrite, Acknowledge, CashoutStatus
<1>19. ASSUME NEW p \in Requests, HandlerThrows(p) PROVE Backed'
  BY <1>19, ReturnStep DEF HandlerThrows
<1>20. ASSUME NEW y \in Payments, PaymentSettles(y) \/ PaymentReversed(y) PROVE Backed'
  <2>1. UNCHANGED <<row, transfer, event, proc>>
    BY <1>20 DEF PaymentSettles, PaymentReversed
  <2>2. /\ StillTold
        /\ \A e \in event' : Told(e[1], transfer'[e[2]].st)
    BY <2>1 DEF StillTold, Backed
  <2>3. {} \in SUBSET Requests /\ \A q \in Requests \ {} : proc'[q] = proc[q]
    BY <2>1
  <2>4. QED
    BY <2>1, <2>2, <2>3, KeepRows
<1>21. ASSUME NEW t \in Transfers, TransferMoves(t) PROVE Backed'
  <2>1. PICK st \in {"otp", "success", "failed", "reversed"} :
            /\ IF st = "reversed" THEN transfer[t].st = "success"
                                  ELSE transfer[t].st = "pending"
            /\ transfer' = [transfer EXCEPT ![t].st = st]
            /\ event' = IF st = "otp" THEN event ELSE event \cup {<<st, t>>}
    BY <1>21 DEF TransferMoves
  <2>2. /\ transfer'[t].st = st /\ transfer'[t].for = transfer[t].for
        /\ \A u \in Transfers : u # t => transfer'[u] = transfer[u]
    BY <2>1 DEF Types, TypeOK, Transfer
  <2>3. StillTold
    BY <2>1, <2>2 DEF StillTold, Told
  <2>4. \A e \in event' : Told(e[1], transfer'[e[2]].st)
    <3>1. \A e \in event : Told(e[1], transfer'[e[2]].st)
      BY <2>3 DEF Backed, StillTold, Types, TypeOK, Event, TransferState
    <3>2. Told(st, transfer'[t].st)
      BY <2>2 DEF Told
    <3>3. QED
      BY <2>1, <3>1, <3>2
  <2>5. UNCHANGED <<row, proc>>
    BY <1>21 DEF TransferMoves
  <2>6. {} \in SUBSET Requests /\ \A q \in Requests \ {} : proc'[q] = proc[q]
    BY <2>5
  <2>7. QED
    BY <2>3, <2>4, <2>5, <2>6, KeepRows
<1>22. ASSUME Crash PROVE Backed'
  <2>1. UNCHANGED <<row, transfer, event>> /\ proc' = [p \in Requests |-> Idle]
    BY <1>22 DEF Crash
  <2>2. /\ StillTold
        /\ \A e \in event' : Told(e[1], transfer'[e[2]].st)
    BY <2>1 DEF StillTold, Backed
  <2>3. \A q \in Requests : HandlerAnswer(q)' /\ HandlerRow(q)' /\ ~Sending(q)'
    BY <2>1 DEF HandlerAnswer, HandlerRow, Sending, Holding, At, Idle
  <2>4. Requests \in SUBSET Requests /\ \A q \in Requests \ Requests : proc'[q] = proc[q]
    OBVIOUS
  <2>5. QED
    BY <2>1, <2>2, <2>3, <2>4, KeepRows
<1>23. ASSUME UNCHANGED vars PROVE Backed'
  <2>1. UNCHANGED <<row, transfer, event, proc>>
    BY <1>23 DEF vars
  <2>2. /\ StillTold
        /\ \A e \in event' : Told(e[1], transfer'[e[2]].st)
    BY <2>1 DEF StillTold, Backed
  <2>3. {} \in SUBSET Requests /\ \A q \in Requests \ {} : proc'[q] = proc[q]
    BY <2>1
  <2>4. QED
    BY <2>1, <2>2, <2>3, KeepRows
<1>24. QED
  BY <1>1, <1>2, <1>3, <1>4, <1>5, <1>6, <1>7, <1>8, <1>9, <1>10, <1>11, <1>12, <1>13,
     <1>14, <1>15, <1>16, <1>17, <1>18, <1>19, <1>20, <1>21, <1>22, <1>23
     DEF Next, StartRequest, RequestStep

(* Backed is an invariant.                                                 *)
THEOREM BackedCorrect == Spec => [](Types /\ Backed)
<1>1. Init => Types /\ Backed
  BY TypeInit, BackedInit
<1>2. Types /\ Backed /\ [Next]_vars => (Types /\ Backed)'
  BY TypeNext, BackedNext
<1>3. QED
  BY <1>1, <1>2, PTL DEF Spec

(* Money the gateway may pay, or has paid, for an auto-released cashout    *)
(* stays locked or cashed out in the venue's ledger.                       *)
THEOREM MoneyOut == Spec => []MoneyOutIsOnTheBooks
<1>1. Types /\ Backed => MoneyOutIsOnTheBooks
  <2> SUFFICES ASSUME Types, Backed, NEW c \in Cashouts, NEW t \in TransfersOf(c),
                      row[c].auto, transfer[t].st \in Live
               PROVE  row[c].st \in Locked \cup {"COMPLETED"}
    BY DEF MoneyOutIsOnTheBooks
  <2>1. RowBacked(c) /\ row[c].st \in CashoutStatus
    BY DEF Backed, Types, TypeOK, CashoutRow
  <2>2. CASE row[c].code = None
    BY <2>1, <2>2 DEF RowBacked, Locked
  <2>3. CASE row[c].code # None
    <3>1. row[c].code = t
      BY <2>1, <2>3 DEF RowBacked
    <3>2. QED
      BY <2>1, <3>1 DEF RowBacked, Locked, Live, CashoutStatus
  <2>4. QED
    BY <2>2, <2>3
<1>2. QED
  BY <1>1, BackedCorrect, PTL

(* An auto-released cashout is never sent to the gateway twice.            *)
THEOREM Once == Spec => []SentOnce
<1>1. Types /\ Backed => SentOnce
  BY DEF Backed, RowBacked, SentOnce
<1>2. QED
  BY <1>1, BackedCorrect, PTL

(* A COMPLETED auto-released cashout names a transfer that succeeded.      *)
THEOREM Paid == Spec => []CompletedWasPaid
<1>1. Types /\ Backed => CompletedWasPaid
  <2> SUFFICES ASSUME Types, Backed, NEW c \in Cashouts, row[c].auto,
                      row[c].st = "COMPLETED"
               PROVE  \E t \in TransfersOf(c) : transfer[t].st \in {"success", "reversed"}
    BY DEF CompletedWasPaid
  <2>1. row[c].code \in TransfersOf(c)
    BY DEF Backed, RowBacked
  <2>2. transfer[row[c].code].st \in {"success", "reversed"}
    BY <2>1 DEF Backed, RowBacked
  <2>3. QED
    BY <2>1, <2>2
<1>2. QED
  BY <1>1, BackedCorrect, PTL
------------------------------------------------------------------------------
(* The abstract ledger: every step of the handlers and of the gateway is a *)
(* step of PayoutLedger, or changes nothing there.  First, how amounts add *)
(* up.                                                                     *)

(* A cashout is worth as many units as its amount.                         *)
LEMMA UnitsOfOne ==
    ASSUME NEW c \in Cashouts
    PROVE  /\ IsFiniteSet({c} \X (1 .. Amount[c]))
           /\ Cardinality({c} \X (1 .. Amount[c])) = Amount[c]
<1>1. Amount[c] \in Int /\ 1 \in Int /\ Amount[c] >= 1
  BY CashoutAssumption
<1>2. IsFiniteSet({c}) /\ Cardinality({c}) = 1
  BY FS_Singleton, Zenon
<1>3. /\ IsFiniteSet(1 .. Amount[c])
      /\ Cardinality(1 .. Amount[c]) =
             IF 1 > Amount[c] THEN 0 ELSE Amount[c] - 1 + 1
  BY <1>1, FS_Interval, Zenon
<1>4. Cardinality(1 .. Amount[c]) = Amount[c]
  BY <1>1, <1>3
<1>5. /\ IsFiniteSet({c} \X (1 .. Amount[c]))
      /\ Cardinality({c} \X (1 .. Amount[c])) = Cardinality({c}) * Cardinality(1 .. Amount[c])
  BY <1>2, <1>3, FS_Product, Zenon
<1>6. Cardinality({c} \X (1 .. Amount[c])) = 1 * Amount[c]
  BY <1>2, <1>4, <1>5, Zenon
<1>7. QED
  BY <1>1, <1>5, <1>6

(* The units of some cashouts are finitely many.                           *)
LEMMA UnitsFinite ==
    ASSUME NEW cs \in SUBSET Cashouts
    PROVE  IsFiniteSet(Units(cs))
<1> DEFINE Worth == {{c} \X (1 .. Amount[c]) : c \in cs}
<1>1. IsFiniteSet(cs)
  BY CashoutAssumption, FS_Subset
<1>2. IsFiniteSet(Worth)
  <2> DEFINE f == [c \in cs |-> {c} \X (1 .. Amount[c])]
  <2>1. f \in Surjection(cs, Worth)
    BY DEF Surjection
  <2>2. QED
    BY <1>1, <2>1, FS_Surjection
<1>3. ASSUME NEW W \in Worth PROVE IsFiniteSet(W)
  BY UnitsOfOne
<1>4. QED
  BY <1>2, <1>3, FS_UNION DEF Units

(* One cashout amounts to its amount.                                      *)
LEMMA AmountOfOne ==
    ASSUME NEW c \in Cashouts
    PROVE  AmountOf({c}) = Amount[c]
<1>1. Units({c}) = {c} \X (1 .. Amount[c])
  BY DEF Units
<1>2. QED
  BY <1>1, UnitsOfOne, Zenon DEF AmountOf

(* Amounts add up over cashouts that have none in common.                  *)
LEMMA AmountsAdd ==
    ASSUME NEW cs \in SUBSET Cashouts, NEW ds \in SUBSET Cashouts, cs \cap ds = {}
    PROVE  AmountOf(cs \cup ds) = AmountOf(cs) + AmountOf(ds)
<1>1. /\ Units(cs \cup ds) = Units(cs) \cup Units(ds)
      /\ Units(cs) \cap Units(ds) = {}
  BY DEF Units
<1>2. IsFiniteSet(Units(cs)) /\ IsFiniteSet(Units(ds))
  BY UnitsFinite
<1>3. /\ Cardinality(Units(cs)) \in Nat
      /\ Cardinality(Units(ds)) \in Nat
      /\ Cardinality({}) = 0
  BY <1>2, FS_CardinalityType, FS_EmptySet
<1>4. Cardinality(Units(cs) \cup Units(ds)) =
          Cardinality(Units(cs)) + Cardinality(Units(ds)) - Cardinality(Units(cs) \cap Units(ds))
  BY <1>2, FS_Union, Zenon
<1>5. Cardinality(Units(cs) \cup Units(ds)) = Cardinality(Units(cs)) + Cardinality(Units(ds))
  <2>1. Cardinality(Units(cs) \cap Units(ds)) = 0
    BY <1>1, <1>3, Zenon
  <2>2. QED
    BY <1>3, <1>4, <2>1
<1>6. QED
  BY <1>1, <1>5, Zenon DEF AmountOf

(* Fewer cashouts are worth no more.                                       *)
LEMMA AmountsGrow ==
    ASSUME NEW ds \in SUBSET Cashouts, NEW cs \in SUBSET ds
    PROVE  /\ AmountOf(cs) \in Nat
           /\ AmountOf(cs) <= AmountOf(ds)
<1>1. IsFiniteSet(Units(ds)) /\ Units(cs) \subseteq Units(ds)
  BY UnitsFinite DEF Units
<1>2. IsFiniteSet(Units(cs)) /\ Cardinality(Units(cs)) <= Cardinality(Units(ds))
  BY <1>1, FS_Subset
<1>3. QED
  BY <1>2, FS_CardinalityType DEF AmountOf

(* PayoutLedger counts amounts as Cashouts does.                           *)
LEMMA SameTotals ==
    ASSUME NEW cs
    PROVE  Ledger!Total(cs) = AmountOf(cs)
<1>1. Ledger!Units(cs) = Units(cs)
  BY DEF Ledger!Units, Units
<1>2. QED
  BY <1>1, Zenon DEF Ledger!Total, AmountOf, Ledger!Cardinality, Cardinality

(* What was earned and not taken back is part of the funds.                *)
LEMMA EarnedIsFunded == Earned \in Nat /\ funds \in Nat /\ Earned <= funds
<1> DEFINE Kept == {y \in Payments : settled[y] = "FULFILLED"}
           Made == {y \in Payments : settled[y] # "PENDING"}
<1>1. Made \subseteq Payments /\ Kept \subseteq Made
  OBVIOUS
<1>2. IsFiniteSet(Made)
  BY <1>1, CashoutAssumption, FS_Subset
<1>3. IsFiniteSet(Kept) /\ Cardinality(Kept) <= Cardinality(Made)
  BY <1>1, <1>2, FS_Subset
<1>4. QED
  BY <1>2, <1>3, FS_CardinalityType DEF Earned, funds
------------------------------------------------------------------------------
(* How far a payout has come is read off the one transfer of its cashout.  *)

Stage(st) == CASE st \in {"otp", "pending"} -> "sent"
               [] st = "success" -> "paid"
               [] OTHER -> "returned"

Reads(c) ==
    /\ ~row[c].auto => payout[c] = "none"
    /\ row[c].auto /\ TransfersOf(c) = {} => payout[c] = "reserved"
    /\ row[c].auto => \A t \in TransfersOf(c) :
          (\A u \in TransfersOf(c) : u = t) => payout[c] = Stage(transfer[t].st)

(* The member chosen of a set of one is that one.                          *)
LEMMA TheOne ==
    ASSUME NEW T, NEW t \in T, \A u \in T : u = t
    PROVE  (CHOOSE u \in T : TRUE) = t
<1>1. (CHOOSE u \in T : TRUE) \in T
  OBVIOUS
<1>2. QED
  BY <1>1

(* The mapping of Cashouts does so, before a step and after it.            *)
LEMMA PayoutReads ==
    ASSUME NEW c \in Cashouts
    PROVE  Reads(c) /\ Reads(c)'
<1>1. Reads(c)
  <2>1. ~row[c].auto => payout[c] = "none"
    BY DEF payout
  <2>2. row[c].auto /\ TransfersOf(c) = {} => payout[c] = "reserved"
    BY DEF payout
  <2>3. ASSUME row[c].auto, NEW t \in TransfersOf(c), \A u \in TransfersOf(c) : u = t
        PROVE  payout[c] = Stage(transfer[t].st)
    <3>1. (CHOOSE u \in TransfersOf(c) : TRUE) = t
      BY <2>3, TheOne
    <3>2. QED
      BY <2>3, <3>1 DEF payout, Stage
  <2>4. QED
    BY <2>1, <2>2, <2>3 DEF Reads
<1>2. Reads(c)'
  <2>1. (~row[c].auto => payout[c] = "none")'
    BY DEF payout
  <2>2. (row[c].auto /\ TransfersOf(c) = {} => payout[c] = "reserved")'
    BY DEF payout
  <2>3. ASSUME row'[c].auto, NEW t \in TransfersOf(c)', \A u \in TransfersOf(c)' : u = t
        PROVE  payout'[c] = Stage(transfer'[t].st)
    <3>1. (CHOOSE u \in TransfersOf(c)' : TRUE) = t
      BY <2>3, TheOne
    <3>2. QED
      BY <2>3, <3>1 DEF payout, Stage
  <2>4. QED
    BY <2>1, <2>2, <2>3 DEF Reads
<1>3. QED
  BY <1>1, <1>2

(* Payouts that stay but for one are the old ones, updated there.          *)
LEMMA OnePayout ==
    ASSUME NEW d \in Cashouts, \A c \in Cashouts \ {d} : payout'[c] = payout[c]
    PROVE  payout' = [payout EXCEPT ![d] = payout'[d]]
<1>1. /\ payout = [c \in Cashouts |-> payout[c]]
      /\ payout' = [c \in Cashouts |-> payout'[c]]
  BY DEF payout
<1>2. QED
  BY <1>1

(* A payout stays as long as its row and its transfers do.                 *)
LEMMA PayoutStays ==
    ASSUME NEW c \in Cashouts, row'[c].auto = row[c].auto,
           row[c].auto => /\ TransfersOf(c)' = TransfersOf(c)
                          /\ \A t \in TransfersOf(c) : transfer'[t].st = transfer[t].st
    PROVE  payout'[c] = payout[c]
<1>1. CASE ~row[c].auto
  BY <1>1, PayoutReads DEF Reads
<1>2. CASE row[c].auto /\ TransfersOf(c) = {}
  <2>1. payout[c] = "reserved"
    BY <1>2, PayoutReads DEF Reads
  <2>2. row'[c].auto /\ TransfersOf(c)' = {}
    BY <1>2
  <2>3. payout'[c] = "reserved"
    BY <2>2, PayoutReads DEF Reads
  <2>4. QED
    BY <2>1, <2>3
<1>3. CASE row[c].auto /\ TransfersOf(c) # {}
  <2>1. PICK t : t = CHOOSE u \in TransfersOf(c) : TRUE
    OBVIOUS
  <2>2. t \in TransfersOf(c) /\ transfer'[t].st = transfer[t].st
    BY <1>3, <2>1
  <2>3. payout[c] = Stage(transfer[t].st)
    BY <1>3, <2>1 DEF payout, Stage
  <2>4. payout'[c] = Stage(transfer'[t].st)
    BY <1>3, <2>1 DEF payout, Stage
  <2>5. QED
    BY <2>2, <2>3, <2>4
<1>4. QED
  BY <1>1, <1>2, <1>3

(* A reservation.  A row that is written for the first time, and affords   *)
(* its amount, reserves it out of what no payout holds: whatever one holds *)
(* is locked or cashed out.                                                *)
LEMMA Reserves ==
    ASSUME Types, Backed, NEW c \in Cashouts, Affordable(c), row[c].st = "NONE",
           row'[c].auto, UNCHANGED <<settled, transfer>>,
           \A d \in Cashouts \ {c} : row'[d] = row[d]
    PROVE  Ledger!Next
<1> DEFINE Lk == {d \in Cashouts : row[d].st \in Locked}
           Done == {d \in Cashouts : row[d].st = "COMPLETED"}
<1>1. ~row[c].auto /\ TransfersOf(c) = {} /\ TransfersOf(c)' = {}
  BY DEF Backed, RowBacked, TransfersOf
<1>2. payout[c] = "none" /\ payout'[c] = "reserved"
  BY <1>1, PayoutReads DEF Reads
<1>3. payout' = [payout EXCEPT ![c] = payout'[c]]
  <2>1. ASSUME NEW d \in Cashouts \ {c} PROVE payout'[d] = payout[d]
    BY PayoutStays DEF TransfersOf
  <2>2. QED
    BY <2>1, OnePayout
<1>4. Ledger!Committed \subseteq Lk \cup Done
  <2> SUFFICES ASSUME NEW d \in Cashouts, payout[d] \in {"reserved", "sent", "paid"}
               PROVE  row[d].st \in Locked \cup {"COMPLETED"}
    BY DEF Ledger!Committed
  <2>1. row[d].auto /\ RowBacked(d) /\ row[d].st \in CashoutStatus
    BY PayoutReads DEF Reads, Backed, Types, TypeOK, CashoutRow
  <2>2. CASE TransfersOf(d) = {}
    BY <2>1, <2>2 DEF RowBacked, Locked
  <2>3. CASE TransfersOf(d) # {}
    <3>1. PICK t \in TransfersOf(d) : \A u \in TransfersOf(d) : u = t
      BY <2>1, <2>3 DEF RowBacked
    <3>2. payout[d] = Stage(transfer[t].st)
      BY <2>1, <3>1, PayoutReads DEF Reads
    <3>3. transfer[t].st \in Live
      BY <3>2 DEF Stage, Live
    <3>4. QED
      BY <2>1, <3>1, <3>3 DEF RowBacked, Locked, Live, CashoutStatus
  <2>4. QED
    BY <2>2, <2>3
<1>5. Ledger!Total(Ledger!Committed \cup {c}) <= funds
  <2>1. /\ AmountOf(Lk \cup Done) = LockedMinor + CashedOut
        /\ LockedMinor \in Nat /\ CashedOut \in Nat
    <3>1. Lk \cap Done = {} /\ Lk \in SUBSET Cashouts /\ Done \in SUBSET Cashouts
      BY DEF Locked
    <3>2. QED
      BY <3>1, AmountsAdd, AmountsGrow DEF LockedMinor, CashedOut
  <2>2. AmountOf((Lk \cup Done) \cup {c}) = AmountOf(Lk \cup Done) + Amount[c]
    <3>1. /\ (Lk \cup Done) \cap {c} = {}
          /\ Lk \cup Done \in SUBSET Cashouts /\ {c} \in SUBSET Cashouts
      BY DEF Locked
    <3>2. AmountOf((Lk \cup Done) \cup {c}) = AmountOf(Lk \cup Done) + AmountOf({c})
      BY <3>1, AmountsAdd, Zenon
    <3>3. QED
      BY <3>2, AmountOfOne
  <2>3. AmountOf(Ledger!Committed \cup {c}) <= AmountOf((Lk \cup Done) \cup {c})
    BY <1>4, AmountsGrow
  <2>4. /\ AmountOf(Ledger!Committed \cup {c}) \in Nat
        /\ AmountOf((Lk \cup Done) \cup {c}) \in Nat
    BY <1>4, AmountsGrow
  <2>5. Amount[c] + LockedMinor + CashedOut <= Earned
    BY DEF Affordable
  <2>6. AmountOf(Ledger!Committed \cup {c}) <= funds
    BY <2>1, <2>2, <2>3, <2>4, <2>5, EarnedIsFunded, CashoutAssumption
  <2>7. Ledger!Total(Ledger!Committed \cup {c}) = AmountOf(Ledger!Committed \cup {c})
    BY SameTotals
  <2>8. QED
    BY <2>6, <2>7
<1>6. UNCHANGED funds
  BY DEF funds
<1>7. Ledger!Move(c)
  BY <1>2, <1>3, <1>5, <1>6 DEF Ledger!Move, Ledger!Step
<1>8. QED
  BY <1>7 DEF Ledger!Next
(* Steps that leave the payments and the transfers alone, and keep what    *)
(* was released released, do nothing to the ledger.                        *)
Quiet ==
    /\ UNCHANGED <<settled, transfer>>
    /\ \A c \in Cashouts : row'[c].auto = row[c].auto

(* Neither the funds nor a payout changes.                                 *)
LEMMA QuietStutters == Quiet => UNCHANGED <<funds, payout>>
<1> SUFFICES ASSUME Quiet PROVE UNCHANGED <<funds, payout>>
  OBVIOUS
<1>1. ASSUME NEW c \in Cashouts PROVE payout'[c] = payout[c]
  BY PayoutStays DEF Quiet, TransfersOf
<1>2. /\ payout = [c \in Cashouts |-> payout[c]]
      /\ payout' = [c \in Cashouts |-> payout'[c]]
  BY DEF payout
<1>3. UNCHANGED payout
  BY <1>1, <1>2
<1>4. UNCHANGED funds
  BY DEF Quiet, funds
<1>5. QED
  BY <1>3, <1>4

(* A write of the status by id, or none, is quiet.                         *)
LEMMA WriteIsQuiet ==
    ASSUME Types, UNCHANGED <<settled, transfer>>,
           NEW c \in Cashouts, NEW st, Write(c, st) \/ UNCHANGED row
    PROVE  Quiet
BY DEF Quiet, Write, Types, TypeOK, CashoutRow

(* One transfer moves.  It is opened for a cashout that has none, or it    *)
(* goes on as the gateway lets it.                                         *)
Opens(t, c) ==
    /\ row[c].auto => TransfersOf(c) = {}
    /\ transfer[t].st = "none"
    /\ transfer'[t].for = c
    /\ transfer'[t].st \in {"otp", "pending"}

GoesOn(t) ==
    /\ transfer'[t].for = transfer[t].for
    /\ \/ transfer[t].st \in {"otp", "pending"}
          /\ transfer'[t].st \in {"otp", "pending", "success", "failed"}
       \/ transfer[t].st = "success" /\ transfer'[t].st = "reversed"

(* The payout it is for moves with it, if the policy released it.          *)
LEMMA TransferStep ==
    ASSUME Types, Backed, UNCHANGED <<settled, row>>, NEW t \in Transfers,
           \A u \in Transfers \ {t} : transfer'[u] = transfer[u],
           GoesOn(t) \/ \E c \in Cashouts : Opens(t, c)
    PROVE  [Ledger!Next]_<<funds, payout>>
<1>1. UNCHANGED funds
  BY DEF funds
<1>2. ASSUME NEW c \in Cashouts, c # transfer'[t].for PROVE payout'[c] = payout[c]
  <2>1. t \notin TransfersOf(c) /\ t \notin TransfersOf(c)'
    BY <1>2 DEF TransfersOf, GoesOn, Opens
  <2>2. TransfersOf(c)' = TransfersOf(c)
    BY <2>1 DEF TransfersOf
  <2>3. \A u \in TransfersOf(c) : transfer'[u].st = transfer[u].st
    BY <2>1 DEF TransfersOf
  <2>4. QED
    BY <2>2, <2>3, PayoutStays
<1>3. CASE \A c \in Cashouts : payout'[c] = payout[c]
  <2>1. /\ payout = [c \in Cashouts |-> payout[c]]
        /\ payout' = [c \in Cashouts |-> payout'[c]]
    BY DEF payout
  <2>2. QED
    BY <1>1, <1>3, <2>1
<1>4. ASSUME NEW d \in Cashouts, payout'[d] # payout[d] PROVE Ledger!Move(d)
  <2>1. d = transfer'[t].for
    BY <1>2, <1>4
  <2>2. row[d].auto /\ row'[d].auto
    BY <1>4, PayoutReads DEF Reads
  <2>3. payout' = [payout EXCEPT ![d] = payout'[d]]
    BY <1>2, <2>1, OnePayout
  <2>4. \A u \in TransfersOf(d)' : u = t
    <3>1. ASSUME NEW u \in TransfersOf(d)', u # t PROVE u \in TransfersOf(d)
      BY <3>1 DEF TransfersOf
    <3>2. CASE GoesOn(t)
      <4>1. t \in TransfersOf(d)
        BY <2>1, <3>2 DEF GoesOn, TransfersOf
      <4>2. \A u, v \in TransfersOf(d) : u = v
        BY <2>2 DEF Backed, RowBacked
      <4>3. QED
        BY <3>1, <4>1, <4>2
    <3>3. CASE \E c \in Cashouts : Opens(t, c)
      BY <2>1, <2>2, <3>1, <3>3 DEF Opens
    <3>4. QED
      BY <3>2, <3>3
  <2>5. t \in TransfersOf(d)'
    BY <2>1 DEF TransfersOf, GoesOn, Opens
  <2>6. payout'[d] = Stage(transfer'[t].st)
    BY <2>2, <2>4, <2>5, PayoutReads DEF Reads
  <2>7. <<payout[d], payout'[d]>> \in Ledger!Step
    <3>1. CASE GoesOn(t)
      <4>1. t \in TransfersOf(d) /\ \A u \in TransfersOf(d) : u = t
        BY <2>1, <2>2, <3>1 DEF GoesOn, TransfersOf, Backed, RowBacked
      <4>2. payout[d] = Stage(transfer[t].st)
        BY <2>2, <4>1, PayoutReads DEF Reads
      <4>3. QED
        BY <1>4, <2>6, <3>1, <4>2 DEF GoesOn, Stage, Ledger!Step
    <3>2. CASE \E c \in Cashouts : Opens(t, c)
      <4>1. TransfersOf(d) = {}
        BY <2>1, <2>2, <3>2 DEF Opens
      <4>2. payout[d] = "reserved"
        BY <2>2, <4>1, PayoutReads DEF Reads
      <4>3. QED
        BY <2>6, <3>2, <4>2 DEF Opens, Stage, Ledger!Step
    <3>3. QED
      BY <3>1, <3>2
  <2>8. payout'[d] # "reserved"
    BY <2>6 DEF Stage
  <2>9. QED
    BY <1>1, <1>4, <2>3, <2>7, <2>8 DEF Ledger!Move
<1>5. QED
  BY <1>3, <1>4 DEF Ledger!Next
(* A payment that settles adds to the funds, for good.                     *)
LEMMA SettlesEarns ==
    ASSUME Types, NEW y \in Payments, PaymentSettles(y)
    PROVE  Ledger!Next
<1> DEFINE Made == {z \in Payments : settled[z] # "PENDING"}
<1>1. /\ settled[y] = "PENDING"
      /\ settled'[y] = "FULFILLED"
      /\ \A z \in Payments \ {y} : settled'[z] = settled[z]
      /\ UNCHANGED <<row, transfer>>
  BY DEF PaymentSettles, Types, TypeOK
<1>2. {z \in Payments : settled'[z] # "PENDING"} = Made \cup {y} /\ y \notin Made
  BY <1>1
<1>3. IsFiniteSet(Made)
  BY CashoutAssumption, FS_Subset
<1>4. Cardinality(Made \cup {y}) = Cardinality(Made) + 1 /\ Cardinality(Made) \in Nat
  <2>1. Cardinality(Made \cup {y}) =
            IF y \in Made THEN Cardinality(Made) ELSE Cardinality(Made) + 1
    BY <1>3, FS_AddElement, Zenon
  <2>2. Cardinality(Made) \in Nat
    BY <1>3, FS_CardinalityType
  <2>3. QED
    BY <1>2, <2>1, <2>2
<1>5. funds = Cardinality(Made) /\ funds' = Cardinality(Made \cup {y})
  BY <1>2, Zenon DEF funds
<1>6. funds' > funds
  BY <1>4, <1>5
<1>7. UNCHANGED payout
  <2>1. \A c \in Cashouts : payout'[c] = payout[c]
    BY <1>1, PayoutStays DEF TransfersOf
  <2>2. /\ payout = [c \in Cashouts |-> payout[c]]
        /\ payout' = [c \in Cashouts |-> payout'[c]]
    BY DEF payout
  <2>3. QED
    BY <2>1, <2>2
<1>8. QED
  BY <1>6, <1>7 DEF Ledger!Next, Ledger!Earn

(* One that is reversed does not take them back.                           *)
LEMMA ReversalStutters ==
    ASSUME Types, NEW y \in Payments, PaymentReversed(y)
    PROVE  UNCHANGED <<funds, payout>>
<1>1. /\ settled[y] = "FULFILLED"
      /\ settled'[y] = "REVERSED"
      /\ \A z \in Payments \ {y} : settled'[z] = settled[z]
      /\ UNCHANGED <<row, transfer>>
  BY DEF PaymentReversed, Types, TypeOK
<1>2. {z \in Payments : settled'[z] # "PENDING"} = {z \in Payments : settled[z] # "PENDING"}
  BY <1>1
<1>3. UNCHANGED funds
  BY <1>2, Zenon DEF funds
<1>4. UNCHANGED payout
  <2>1. \A c \in Cashouts : payout'[c] = payout[c]
    BY <1>1, PayoutStays DEF TransfersOf
  <2>2. /\ payout = [c \in Cashouts |-> payout[c]]
        /\ payout' = [c \in Cashouts |-> payout'[c]]
    BY DEF payout
  <2>3. QED
    BY <2>1, <2>2
<1>5. QED
  BY <1>3, <1>4

(* Every step is a step of the ledger or a stutter.                        *)
LEMMA LedgerNext ==
    Types /\ Backed /\ [Next]_vars => [Ledger!Next]_<<funds, payout>>
<1> SUFFICES ASSUME Types, Backed, [Next]_vars
             PROVE  [Ledger!Next]_<<funds, payout>>
  OBVIOUS
<1>1. ASSUME Quiet PROVE [Ledger!Next]_<<funds, payout>>
  BY <1>1, QuietStutters
<1>2. ASSUME NEW p \in Requests, StartRequest(p) PROVE Quiet
  BY <1>2 DEF StartRequest, Request, Confirm, Reject, FinalizeOtp, Reconcile, Deliver, Quiet
<1>3. ASSUME NEW p \in Requests, RequestCreate(p) PROVE [Ledger!Next]_<<funds, payout>>
  <2>1. PICK c \in Cashouts : c = proc[p].c
    BY <1>3 DEF RequestCreate, At, Types, HandlerArgs
  <2>2. CASE UNCHANGED row
    BY <1>1, <1>3, <2>2 DEF RequestCreate, Quiet
  <2>3. CASE row' # row
    <3>1. /\ row[c].st = "NONE" /\ Affordable(c)
          /\ UNCHANGED <<settled, transfer>>
          /\ row' = [row EXCEPT ![c] =
                [NoRow EXCEPT !.st = IF proc[p].held THEN "PENDING" ELSE "CONFIRMED",
                              !.auto = ~proc[p].held]]
      BY <1>3, <2>1, <2>3 DEF RequestCreate
    <3>2. /\ row'[c].auto = ~proc[p].held
          /\ \A d \in Cashouts \ {c} : row'[d] = row[d]
      BY <3>1 DEF Types, TypeOK, NoRow
    <3>3. ~row[c].auto /\ proc[p].held \in BOOLEAN
      BY <3>1 DEF Backed, RowBacked, Types, TypeOK, Handler
    <3>4. CASE proc[p].held
      <4>1. row'[c].auto = row[c].auto
        BY <3>2, <3>3, <3>4 DEF Types, TypeOK, CashoutRow
      <4>2. QED
        BY <1>1, <3>1, <3>2, <4>1 DEF Quiet
    <3>5. CASE ~proc[p].held
      BY <3>1, <3>2, <3>5, Reserves
    <3>6. QED
      BY <3>4, <3>5
  <2>4. QED
    BY <2>2, <2>3
<1>4. ASSUME NEW p \in Requests, Initiate(p) PROVE [Ledger!Next]_<<funds, payout>>
  <2>1. PICK c \in Cashouts : c = proc[p].c
    BY <1>4 DEF Initiate, At, Types, HandlerArgs
  <2>2. PICK t \in Transfers, st \in {"otp", "pending"} :
            /\ transfer[t].st = "none"
            /\ transfer' = [transfer EXCEPT ![t] = [st |-> st, for |-> c]]
    BY <1>4, <2>1 DEF Initiate
  <2>3. /\ transfer'[t] = [st |-> st, for |-> c]
        /\ \A u \in Transfers \ {t} : transfer'[u] = transfer[u]
    BY <2>2 DEF Types, TypeOK
  <2>4. row[c].auto => TransfersOf(c) = {}
    BY <1>4, <2>1 DEF Initiate, Backed, HandlerRow
  <2>5. Opens(t, c)
    BY <2>2, <2>3, <2>4 DEF Opens
  <2>6. UNCHANGED <<settled, row>>
    BY <1>4 DEF Initiate
  <2>7. QED
    BY <2>3, <2>5, <2>6, TransferStep
<1>5. ASSUME NEW p \in Requests, StoreCode(p) PROVE Quiet
  BY <1>5 DEF StoreCode, Quiet, Types, TypeOK, CashoutRow
<1>6. ASSUME NEW p \in Requests, OtpCall(p) PROVE [Ledger!Next]_<<funds, payout>>
  <2>1. PICK t \in Transfers : t = proc[p].t
    BY <1>6 DEF OtpCall, At, Types, HandlerArgs, Holding
  <2>2. UNCHANGED <<settled, row>>
    BY <1>6 DEF OtpCall
  <2>3. CASE UNCHANGED transfer
    BY <1>1, <2>2, <2>3 DEF Quiet
  <2>4. CASE transfer' # transfer
    <3>1. PICK st \in {"pending", "success", "failed"} :
              transfer[t].st = "otp" /\ transfer' = [transfer EXCEPT ![t].st = st]
      BY <1>6, <2>1, <2>4 DEF OtpCall
    <3>2. /\ transfer'[t].st = st /\ transfer'[t].for = transfer[t].for
          /\ \A u \in Transfers \ {t} : transfer'[u] = transfer[u]
      BY <3>1 DEF Types, TypeOK, Transfer
    <3>3. GoesOn(t)
      BY <3>1, <3>2 DEF GoesOn
    <3>4. QED
      BY <2>2, <3>2, <3>3, TransferStep
  <2>5. QED
    BY <2>3, <2>4
<1>7. ASSUME NEW t \in Transfers, TransferMoves(t) PROVE [Ledger!Next]_<<funds, payout>>
  <2>1. PICK st \in {"otp", "success", "failed", "reversed"} :
            /\ IF st = "reversed" THEN transfer[t].st = "success"
                                  ELSE transfer[t].st = "pending"
            /\ transfer' = [transfer EXCEPT ![t].st = st]
    BY <1>7 DEF TransferMoves
  <2>2. /\ transfer'[t].st = st /\ transfer'[t].for = transfer[t].for
        /\ \A u \in Transfers \ {t} : transfer'[u] = transfer[u]
    BY <2>1 DEF Types, TypeOK, Transfer
  <2>3. GoesOn(t)
    BY <2>1, <2>2 DEF GoesOn
  <2>4. UNCHANGED <<settled, row>>
    BY <1>7 DEF TransferMoves
  <2>5. QED
    BY <2>2, <2>3, <2>4, TransferStep
<1>8. ASSUME NEW p \in Requests,
             \/ RejectWrite(p) \/ Finish(p) \/ OtpWrite(p)
             \/ ReconcileWrite(p) \/ FinalizeWrite(p)
      PROVE  Quiet
  <2>1. PICK c \in Cashouts : c = proc[p].c
    BY <1>8
       DEF RejectWrite, Finish, OtpWrite, ReconcileWrite, FinalizeWrite, At, Types, HandlerArgs
  <2>2. UNCHANGED <<settled, transfer>>
    BY <1>8 DEF RejectWrite, Finish, OtpWrite, ReconcileWrite, FinalizeWrite
  <2>3. (\E st : Write(c, st)) \/ UNCHANGED row
    BY <1>8, <2>1 DEF RejectWrite, Finish, OtpWrite, ReconcileWrite, FinalizeWrite
  <2>4. QED
    BY <2>2, <2>3, WriteIsQuiet
<1>9. ASSUME NEW p \in Requests,
             Verify(p) \/ ReconcileVerify(p) \/ FinalizeFind(p) \/ HandlerThrows(p)
      PROVE  Quiet
  BY <1>9 DEF Verify, ReconcileVerify, FinalizeFind, HandlerThrows, Quiet
<1>10. ASSUME Crash \/ UNCHANGED vars PROVE Quiet
  BY <1>10 DEF Crash, vars, Quiet
<1>11. QED
  BY <1>1, <1>2, <1>3, <1>4, <1>5, <1>6, <1>7, <1>8, <1>9, <1>10, SettlesEarns,
     ReversalStutters
     DEF Next, RequestStep

(* The handlers implement the ledger: what the policy releases is reserved *)
(* out of funds that no other released cashout holds, sent once, and paid  *)
(* or returned, so that it never exceeds what the venue has earned.        *)
THEOREM Implements == Spec => LedgerSpec
<1>1. Init => Ledger!Init
  <2> SUFFICES ASSUME Init PROVE Ledger!Init
    OBVIOUS
  <2>1. {y \in Payments : settled[y] # "PENDING"} = {}
    BY DEF Init
  <2>2. funds = 0
    BY <2>1, FS_EmptySet, Zenon DEF funds
  <2>3. payout = [c \in Cashouts |-> "none"]
    BY DEF Init, NoRow, payout
  <2>4. QED
    BY <2>2, <2>3 DEF Ledger!Init
<1>2. Types /\ Backed /\ [Next]_vars => [Ledger!Next]_<<funds, payout>>
  BY LedgerNext
<1>3. QED
  BY <1>1, <1>2, BackedCorrect, PTL DEF Spec, LedgerSpec, Ledger!Spec

=============================================================================
