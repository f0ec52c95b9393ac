----------------------------- MODULE AccessProofs -----------------------------
(***************************************************************************)
(* The safety of Access, for any number of codes, devices, venues, requests*)
(* and workers, in every scenario.                                         *)
(***************************************************************************)
EXTENDS Access, SequenceTheorems, TLAPS

(* A row that is not there has no device, and one that is claimed or paid  *)
(* for is known to have been handed out.                                   *)
Rows ==
    \A c \in Codes :
        /\ voucher[c].st = "NONE" => voucher[c].mac = None
        /\ voucher[c].st \in Claimed \/ voucher[c].paid => c \in claimed

(* So is what the queue, the router and its script know of.                *)
Known ==
    /\ \A j \in JobIds : pq[j] # "none" => j[2] \in claimed
    /\ \A c \in Codes : user[c] # "none" => c \in claimed
    /\ \A r \in script.rows : r.code \in claimed

(* What a request carries from one await to the next.                      *)
RequestHolds(p) ==
    LET h == proc[p] IN
    /\ h.pc \in {"idle", "batch_read", "batch_insert", "batch_again", "sync_expire",
                 "sync_create", "redeem_claim", "redeem_enqueue", "retrieve_bind",
                 "retrieve_enqueue", "disconnect_write"}
    /\ h.pc \in {"batch_read", "batch_insert", "batch_again"} =>
          h.row.st = "ISSUED" /\ h.row.venue \in Venues /\ h.row.mac = None /\ ~h.row.paid
    /\ h.pc = "sync_create" =>
          h.row.st \in {"ISSUED", "EXPIRED"} /\ h.row.mac = None /\ ~h.row.paid
    /\ h.pc \in {"sync_expire", "sync_create", "redeem_claim", "redeem_enqueue",
                 "retrieve_bind", "retrieve_enqueue"} => h.code \in Codes
    /\ h.pc \in {"sync_expire", "retrieve_bind"} => Exists(h.code)
    /\ h.pc = "redeem_claim" =>
          /\ h.row.st \in {"ISSUED", "ACTIVE"}
          /\ h.row.st = "ACTIVE" => h.code \in claimed
    /\ h.pc \in {"redeem_enqueue", "retrieve_enqueue"} => h.code \in claimed
    /\ h.pc = "retrieve_bind" => h.mac \in Devices
    /\ h.pc = "disconnect_write" => JobOf(p) \in JobIds

(* A worker carries a job that is its own.                                 *)
WorkerHolds(w) ==
    LET h == proc[w] IN
    /\ h.pc \in {"idle", "push", "bind", "alert", "alert_write", "session", "commit"}
    /\ h.pc # "idle" => JobOf(w) \in JobIds /\ pq[JobOf(w)] = "active"
    /\ h.pc = "commit" => session[JobOf(w)] = <<>>
    /\ h.pc \in {"alert", "alert_write"} => h.kind = "order"
    /\ h.pc = "alert_write" => alert[h.code] = 0

OneWorkerPerJob ==
    \A w, x \in Workers : ~Free(w) /\ ~Free(x) /\ w # x => JobOf(w) # JobOf(x)

Holds ==
    /\ \A p \in Requests : RequestHolds(p)
    /\ \A w \in Workers : WorkerHolds(w)
    /\ OneWorkerPerJob

Inv == /\ TypeOK /\ claimed \subseteq Codes
       /\ Rows /\ Known /\ Holds
       /\ OneSessionPerJob /\ OneUnreadAlert /\ PrintedIsStored

------------------------------------------------------------------------------
(* Rows.                                                                   *)

ProcType == proc \in [Procs -> Handler]
VoucherType == voucher \in [Codes -> VoucherRow]
SessionType == session \in [JobIds -> Seq(SessionState)]

(* How a row may change: it comes, it is activated or claimed, it is       *)
(* closed, or its device is.                                               *)
RowStep(v, w) ==
    /\ w \in VoucherRow
    /\ \/ w.st = v.st /\ (w.mac = v.mac \/ (v.st # "NONE" /\ w.mac \in Devices))
       \/ v.st = "NONE" /\ w.st \in {"ISSUED", "ACTIVE"}
       \/ v.st = "NONE" /\ w.st = "EXPIRED" /\ w.mac = v.mac
       \/ v.st = "ISSUED" /\ w.st = "ACTIVE" /\ w.mac = v.mac
       \/ v.st \in {"ISSUED", "ACTIVE"} /\ w.st = "REDEEMED"
       \/ v.st # "NONE" /\ w.st \in Closed /\ w.mac = v.mac
    /\ w.paid => v.paid \/ w.st \in Claimed
    /\ v.st # "NONE" => w.venue = v.venue

RowsStep == /\ voucher' \in [Codes -> VoucherRow]
            /\ \A c \in Codes : RowStep(voucher[c], voucher'[c])

Recorded == claimed' = claimed \cup {c \in Codes : voucher'[c].st \in Claimed}

(* What is known stays known.                                              *)
Later == /\ claimed \subseteq claimed'
         /\ \A c \in Codes : Exists(c) => Exists(c)' /\ voucher'[c].venue = voucher[c].venue

(* There is a venue, and so one that sells online.                         *)
LEMMA HomeType == Home \in Venues
BY AccessAssumption DEF Home

(* A row that is not there is a row.                                       *)
LEMMA NoVoucherType == NoVoucher \in VoucherRow
BY DEF Mac, NoVoucher, VoucherRow, VoucherStatus, Life

(* A row that is left alone is one of the changes.                         *)
LEMMA RowStays == ASSUME NEW v \in VoucherRow PROVE RowStep(v, v)
BY DEF RowStep

(* No row changes.                                                         *)
LEMMA RowsStay == ASSUME VoucherType, voucher' = voucher PROVE RowsStep
BY RowStays DEF VoucherType, RowsStep

(* One row changes.                                                        *)
LEMMA OneRow ==
    ASSUME VoucherType, NEW c \in Codes, NEW w, RowStep(voucher[c], w),
           voucher' = [voucher EXCEPT ![c] = w]
    PROVE  RowsStep
<1>1. w \in VoucherRow
  BY DEF RowStep
<1>2. \A d \in Codes : voucher'[d] = IF d = c THEN w ELSE voucher[d]
  BY DEF VoucherType
<1>3. \A d \in Codes : RowStep(voucher[d], voucher'[d])
  BY <1>2, RowStays DEF VoucherType
<1>4. QED
  BY <1>1, <1>3 DEF VoucherType, RowsStep

(* The sweep closes rows.                                                  *)
LEMMA SweepRows ==
    ASSUME VoucherType, voucher' = Swept
    PROVE  RowsStep
<1>1. ASSUME NEW c \in Codes
      PROVE  RowStep(voucher[c], voucher'[c])
  <2>1. voucher[c] \in VoucherRow
    BY DEF VoucherType
  <2>2. CASE voucher[c].st = "ISSUED" /\ voucher[c].life = "past"
    <3>1. voucher'[c] = [voucher[c] EXCEPT !.st = "EXPIRED"]
      BY <2>2 DEF Swept
    <3>2. QED
      BY <2>1, <2>2, <3>1 DEF RowStep, VoucherRow, VoucherStatus, Closed
  <2>3. CASE ~(voucher[c].st = "ISSUED" /\ voucher[c].life = "past")
    BY <2>1, <2>3, RowStays DEF Swept
  <2>4. QED
    BY <2>2, <2>3
<1>2. QED
  BY <1>1 DEF RowsStep, RowStep, Swept

(* What such a step leaves true.                                           *)
LEMMA RowsKept ==
    ASSUME VoucherType, Rows, claimed \subseteq Codes, RowsStep, Recorded
    PROVE  VoucherType' /\ Rows' /\ Later /\ claimed' \subseteq Codes
<1>1. ASSUME NEW c \in Codes
      PROVE  /\ voucher'[c].st = "NONE" => voucher'[c].mac = None
             /\ voucher'[c].st \in Claimed \/ voucher'[c].paid => c \in claimed'
             /\ voucher[c].st # "NONE" =>
                   voucher'[c].st # "NONE" /\ voucher'[c].venue = voucher[c].venue
  BY DEF RowsStep, RowStep, Rows, Recorded, Closed, Claimed
<1>2. QED
  BY <1>1 DEF RowsStep, VoucherType, Rows, Later, Recorded, Exists

(* It is a step of VoucherLife.                                            *)
LEMMA RowsLive ==
    ASSUME VoucherType, RowsStep
    PROVE  Promise!Next
<1>1. ASSUME NEW c \in Codes
      PROVE  LET v == voucher[c]
                 w == voucher'[c]
             IN /\ ClaimOf(w.st) = ClaimOf(v.st)
                   \/ <<ClaimOf(v.st), ClaimOf(w.st)>> \in Promise!Progress
                /\ \/ w.mac = v.mac
                   \/ /\ ClaimOf(w.st) \in {"open", "held"}
                      /\ <<ClaimOf(v.st), ClaimOf(w.st)>> \in Promise!Progress
                   \/ /\ ClaimOf(v.st) # "none"
                      /\ ClaimOf(w.st) = ClaimOf(v.st)
                      /\ w.mac \in Devices
  BY DEF RowsStep, RowStep, VoucherType, VoucherRow, VoucherStatus, ClaimOf, Closed,
         Promise!Progress
<1>2. QED
  BY <1>1 DEF Promise!Next, Promise!Advance, Promise!Binds, Promise!Handover, Claims, Holders

------------------------------------------------------------------------------
(* Handlers.                                                               *)

(* An idle handler is a handler.                                           *)
LEMMA IdleType == Idle \in Handler
BY NoVoucherType DEF Idle, Handler, PC, Mac

(* It has nothing in hand.                                                 *)
LEMMA IdleHolds ==
    ASSUME NEW p \in Procs, proc[p] = Idle
    PROVE  RequestHolds(p) /\ WorkerHolds(p)
BY DEF Idle, RequestHolds, WorkerHolds

(* The jobs and sessions as a step that is no worker's may change them.    *)
QueueStep == /\ pq' \in [JobIds -> JobState]
             /\ \A j \in JobIds : \/ pq'[j] = pq[j]
                                  \/ pq[j] = "none" /\ pq'[j] = "waiting" /\ j[2] \in claimed'

SessionsStep == /\ SessionType'
                /\ \A j \in JobIds : Len(session'[j]) = Len(session[j])

(* Alerts are read, or stay.                                               *)
AlertsStep == \A c \in Codes : alert'[c] \in {0, alert[c]}

(* Only codes that are the venue's own are added to what it may print.     *)
PrintedStep == \A s \in Venues : \A c \in printed'[s] : c \in printed[s] \/ OwnedBy(c, s)'

(* The queue is left alone.                                                *)
LEMMA QueueStays ==
    ASSUME TypeOK, pq' = pq
    PROVE  QueueStep
BY DEF TypeOK, QueueStep

(* A job of a code that was handed out is added.                           *)
LEMMA QueueGrows ==
    ASSUME TypeOK, NEW j \in JobIds, j[2] \in claimed', pq' = Enqueued(j)
    PROVE  QueueStep
BY DEF TypeOK, QueueStep, Enqueued, JobState

(* The sessions are left alone.                                            *)
LEMMA SessionsStay ==
    ASSUME TypeOK, session' = session
    PROVE  SessionsStep
BY DEF TypeOK, SessionType, SessionsStep

(* Who does not move still holds what it held.                             *)
LEMMA RequestWaits ==
    ASSUME Later, NEW p \in Requests, RequestHolds(p), proc'[p] = proc[p]
    PROVE  RequestHolds(p)'
<1>1. JobOf(p)' = JobOf(p)
  BY DEF JobOf
<1>2. proc[p].code \in Codes /\ Exists(proc[p].code) => Exists(proc[p].code)'
  BY DEF Later
<1>3. QED
  BY <1>1, <1>2 DEF RequestHolds, Later, Exists

(* A worker keeps its job, and what it found of sessions and alerts.       *)
LEMMA WorkerWaits ==
    ASSUME NEW w \in Workers, WorkerHolds(w), proc'[w] = proc[w],
           JobOf(w) \in JobIds =>
              /\ pq[JobOf(w)] = "active" => pq'[JobOf(w)] = "active"
              /\ session[JobOf(w)] = <<>> => session'[JobOf(w)] = <<>>
              /\ proc[w].kind = "order" /\ alert[proc[w].code] = 0 => alert'[proc[w].code] = 0
    PROVE  WorkerHolds(w)'
<1>1. JobOf(w)' = JobOf(w)
  BY DEF JobOf
<1>2. QED
  BY <1>1 DEF WorkerHolds

(* A session list that stays as long stays empty.                          *)
LEMMA StaysEmpty ==
    ASSUME SessionType, SessionsStep, NEW j \in JobIds, session[j] = <<>>
    PROVE  session'[j] = <<>>
<1>1. session'[j] \in Seq(SessionState) /\ Len(session'[j]) = 0
  BY DEF SessionsStep, SessionType
<1>2. QED
  BY <1>1, EmptySeq

(* The workers through a step that is no worker's.                         *)
LEMMA WorkersWait ==
    ASSUME SessionType, Holds, QueueStep, SessionsStep, AlertsStep,
           \A w \in Workers : proc'[w] = proc[w]
    PROVE  /\ \A w \in Workers : WorkerHolds(w)'
           /\ OneWorkerPerJob'
<1>1. ASSUME NEW w \in Workers PROVE WorkerHolds(w)'
  <2>1. WorkerHolds(w)
    BY DEF Holds
  <2>2. JobOf(w) \in JobIds =>
           /\ pq[JobOf(w)] = "active" => pq'[JobOf(w)] = "active"
           /\ session[JobOf(w)] = <<>> => session'[JobOf(w)] = <<>>
           /\ alert[proc[w].code] = 0 => alert'[proc[w].code] = 0
    BY StaysEmpty DEF QueueStep, AlertsStep, JobOf, JobIds
  <2>3. QED
    BY <2>1, <2>2, WorkerWaits
<1>2. OneWorkerPerJob'
  BY DEF Holds, OneWorkerPerJob, Free, At, JobOf
<1>3. QED
  BY <1>1, <1>2

------------------------------------------------------------------------------
(* Three kinds of steps keep the invariant, if they change the tables as   *)
(* above: of a request, of a worker, and of nobody in particular.          *)

Rest == <<alert, user, binding, script, cleaning, printed, faults, enabled>>

RestType ==
    /\ alert \in [Codes -> Nat]
    /\ user \in [Codes -> {"none", "live", "spent"}]
    /\ binding \in [Devices -> Binding \cup {None}]
    /\ script \in [held : BOOLEAN, rows : SUBSET ScriptRow]
    /\ cleaning \in BOOLEAN
    /\ printed \in [Venues -> SUBSET Codes]
    /\ faults \in 0 .. MaxFaults
    /\ enabled \in Scenarios

RouterKnown ==
    /\ \A c \in Codes : user[c] # "none" => c \in claimed
    /\ \A r \in script.rows : r.code \in claimed

(* What is added to the queue was handed out before.                       *)
LEMMA QueueKnown ==
    ASSUME Inv, QueueStep, Later
    PROVE  \A j \in JobIds : pq'[j] # "none" => j[2] \in claimed'
BY DEF Inv, Known, QueueStep, Later

(* What may be printed stays in the table, its venue does not change.      *)
LEMMA PrintedKept ==
    ASSUME Inv, Later, PrintedStep
    PROVE  PrintedIsStored'
BY DEF Inv, TypeOK, PrintedIsStored, PrintedStep, OwnedBy, Later, Exists

(* Reading alerts adds none.                                               *)
LEMMA AlertsKept ==
    ASSUME Inv, AlertsStep
    PROVE  OneUnreadAlert'
BY DEF Inv, OneUnreadAlert, AlertsStep

(* Changing the state of sessions adds none.                               *)
LEMMA SessionsOnce ==
    ASSUME Inv, SessionsStep
    PROVE  SessionType' /\ OneSessionPerJob'
BY DEF Inv, TypeOK, OneSessionPerJob, SessionsStep

(* A request's step.                                                       *)
LEMMA RequestStep ==
    ASSUME Inv, Recorded, RowsStep, QueueStep, SessionsStep,
           NEW p \in Requests, NEW h \in Handler, proc' = [proc EXCEPT ![p] = h],
           Later => RequestHolds(p)', RestType', PrintedStep,
           user' = user, script' = script, alert' = alert
    PROVE  Inv' /\ RowsStep
<1>1. VoucherType' /\ Rows' /\ Later /\ claimed' \subseteq Codes
  BY RowsKept DEF Inv, TypeOK, VoucherType
<1>2. TypeOK'
  BY <1>1, SessionsOnce DEF Inv, TypeOK, VoucherType, SessionType, QueueStep, RestType, Procs
<1>3. Known'
  BY <1>1, QueueKnown DEF Inv, Known, Later
<1>4. \A q \in Requests : RequestHolds(q)'
  <2>1. ASSUME NEW q \in Requests, q # p PROVE RequestHolds(q)'
    BY <1>1, <2>1, RequestWaits DEF Inv, TypeOK, Holds, Procs
  <2>2. QED
    BY <1>1, <2>1
<1>5. (\A w \in Workers : WorkerHolds(w)') /\ OneWorkerPerJob'
  <2>1. \A w \in Workers : proc'[w] = proc[w]
    BY AccessAssumption DEF Inv, TypeOK, Procs
  <2>2. QED
    BY <2>1, WorkersWait DEF Inv, TypeOK, SessionType, AlertsStep
<1>6. OneUnreadAlert' /\ PrintedIsStored'
  BY <1>1, AlertsKept, PrintedKept DEF AlertsStep
<1>7. QED
  BY <1>1, <1>2, <1>3, <1>4, <1>5, <1>6, SessionsOnce DEF Inv, Holds

(* A worker's step; the sessions and the queue change at its job alone.    *)
LEMMA WorkerMoves ==
    ASSUME Inv, Recorded, RowsStep,
           NEW w \in Workers, NEW h \in Handler, proc' = [proc EXCEPT ![w] = h],
           NEW j \in JobIds,
           h.pc # "idle" => JobOf(w)' = j,
           ~Free(w) => JobOf(w) = j,
           Free(w) => pq[j] = "waiting",
           pq' \in [JobIds -> JobState], SessionType',
           \A i \in JobIds \ {j} : pq'[i] = pq[i] /\ session'[i] = session[i],
           Later => WorkerHolds(w)', Len(session'[j]) <= 1, RestType',
           Later => RouterKnown', printed' = printed, OneUnreadAlert',
           \A c \in Codes : j # <<"order", c>> => alert'[c] = alert[c]
    PROVE  Inv' /\ RowsStep
<1>1. VoucherType' /\ Rows' /\ Later /\ claimed' \subseteq Codes
  BY RowsKept DEF Inv, TypeOK, VoucherType
<1>2. TypeOK'
  BY <1>1 DEF Inv, TypeOK, VoucherType, SessionType, RestType, Procs
<1>3. j[2] \in claimed
  BY DEF Inv, Known, Holds, WorkerHolds, Free, At
<1>4. Known'
  BY <1>1, <1>3 DEF Inv, Known, Later, RouterKnown
<1>5. \A p \in Requests : RequestHolds(p)'
  <2>1. \A p \in Requests : proc'[p] = proc[p]
    BY AccessAssumption DEF Inv, TypeOK, Procs
  <2>2. QED
    BY <1>1, <2>1, RequestWaits DEF Inv, Holds
<1>6. ASSUME NEW x \in Workers, x # w, ~Free(x)
      PROVE  JobOf(x) # j /\ JobOf(x) \in JobIds
  BY <1>6 DEF Inv, Holds, OneWorkerPerJob, WorkerHolds, Free, At
<1>7. ASSUME NEW x \in Workers, x # w
      PROVE  WorkerHolds(x)'
  <2>1. proc'[x] = proc[x] /\ WorkerHolds(x)
    BY <1>7 DEF Inv, TypeOK, Holds, Procs
  <2>2. CASE Free(x)
    BY <2>1, <2>2 DEF WorkerHolds, Free, At
  <2>3. CASE ~Free(x)
    <3>1. JobOf(x) \in JobIds \ {j} /\ JobOf(x) = <<proc[x].kind, proc[x].code>>
      BY <1>6, <1>7, <2>3 DEF JobOf
    <3>2. proc[x].code \in Codes
      BY <3>1 DEF JobIds
    <3>3. proc[x].kind = "order" => alert'[proc[x].code] = alert[proc[x].code]
      BY <3>1, <3>2
    <3>4. QED
      BY <2>1, <3>1, <3>3, WorkerWaits
  <2>4. QED
    BY <2>2, <2>3
<1>8. OneWorkerPerJob'
  <2>1. \A x \in Workers \ {w} : proc'[x] = proc[x] /\ JobOf(x)' = JobOf(x)
    BY DEF Inv, TypeOK, Procs, JobOf
  <2>2. ~Free(w)' => JobOf(w)' = j
    BY DEF Inv, TypeOK, Procs, Free, At
  <2>3. QED
    BY <1>6, <2>1, <2>2 DEF Inv, Holds, OneWorkerPerJob, Free, At
<1>9. OneSessionPerJob'
  BY DEF Inv, OneSessionPerJob
<1>10. WorkerHolds(w)'
  BY <1>1
<1>11. PrintedIsStored'
  BY <1>1, PrintedKept DEF PrintedStep
<1>12. QED
  BY <1>1, <1>2, <1>4, <1>5, <1>7, <1>8, <1>9, <1>10, <1>11 DEF Inv, Holds

(* A step of nobody in particular.                                         *)
LEMMA SystemStep ==
    ASSUME Inv, Recorded, RowsStep, QueueStep, SessionsStep, proc' = proc,
           RestType', Later => RouterKnown', AlertsStep, printed' = printed
    PROVE  Inv' /\ RowsStep
<1>1. VoucherType' /\ Rows' /\ Later /\ claimed' \subseteq Codes
  BY RowsKept DEF Inv, TypeOK, VoucherType
<1>2. TypeOK'
  BY <1>1, SessionsOnce DEF Inv, TypeOK, VoucherType, SessionType, QueueStep, RestType
<1>3. Known'
  BY <1>1, QueueKnown DEF Inv, Known, RouterKnown
<1>4. \A p \in Requests : RequestHolds(p)'
  BY <1>1, RequestWaits DEF Inv, Holds
<1>5. (\A w \in Workers : WorkerHolds(w)') /\ OneWorkerPerJob'
  BY WorkersWait DEF Inv, TypeOK, SessionType
<1>6. OneUnreadAlert' /\ PrintedIsStored'
  BY <1>1, AlertsKept, PrintedKept DEF PrintedStep
<1>7. QED
  BY <1>1, <1>2, <1>3, <1>4, <1>5, <1>6, SessionsOnce DEF Inv, Holds

------------------------------------------------------------------------------
(* The requests.                                                           *)

(* What most of them leave alone.                                          *)
LEMMA Frame ==
    ASSUME Inv, UNCHANGED <<user, binding, script, alert, cleaning, enabled>>,
           printed' \in [Venues -> SUBSET Codes], faults' \in 0 .. MaxFaults
    PROVE  RestType'
BY DEF Inv, TypeOK, RestType

(* Nothing is added to what may be printed.                                *)
LEMMA PrintedStays == ASSUME printed' = printed PROVE PrintedStep
BY DEF PrintedStep

(* Faults are bounded.                                                     *)
LEMMA FaultType ==
    ASSUME Inv, Fault \/ faults' = faults
    PROVE  faults' \in 0 .. MaxFaults
BY AccessAssumption DEF Inv, TypeOK, Fault

(* A handler that moves on is a handler.                                   *)
LEMMA MovedType ==
    ASSUME NEW h \in Handler, NEW pc \in PC
    PROVE  [h EXCEPT !.pc = pc] \in Handler
BY DEF Handler

(* A request that returns leaves nothing behind.                           *)
LEMMA ReturnStep ==
    ASSUME Inv, Recorded, RowsStep, QueueStep, SessionsStep, NEW p \in Requests,
           Return(p), UNCHANGED <<user, binding, script, alert, cleaning, enabled>>,
           printed' \in [Venues -> SUBSET Codes], PrintedStep, faults' \in 0 .. MaxFaults
    PROVE  Inv' /\ RowsStep
<1>1. proc'[p] = Idle
  BY DEF Inv, TypeOK, Return, Procs
<1>2. RequestHolds(p)'
  BY <1>1 DEF RequestHolds, Idle
<1>3. QED
  BY <1>2, IdleType, RequestStep, Frame, PrintedStays DEF Return

(* A batch sweeps, and carries rows of its venue's stock.                  *)
LEMMA BatchStartStep ==
    ASSUME Inv, Recorded, UNCHANGED enabled, NEW p \in Requests, NEW s \in Venues,
           NEW want \in SUBSET Codes, NEW life \in {"none", "ahead"},
           BatchStart(p, s, want, life)
    PROVE  Inv' /\ RowsStep
<1> DEFINE row == [NoVoucher EXCEPT !.st = "ISSUED", !.venue = s, !.life = life]
           h == [Idle EXCEPT !.pc = "batch_read", !.want = want, !.row = row]
<1>1. RowsStep
  BY SweepRows DEF Inv, TypeOK, VoucherType, BatchStart
<1>2. row \in VoucherRow /\ row.st = "ISSUED" /\ row.venue = s /\ row.mac = None /\ ~row.paid
  BY NoVoucherType DEF VoucherRow, VoucherStatus, Life, NoVoucher
<1>3. h \in Handler /\ h.pc = "batch_read" /\ h.row = row
  BY <1>2, IdleType DEF Handler, PC, Idle
<1>4. proc' = [proc EXCEPT ![p] = h]
  BY DEF BatchStart
<1>5. RequestHolds(p)'
  <2>1. proc'[p] = h
    BY <1>4 DEF Inv, TypeOK, Procs
  <2>2. QED
    BY <1>2, <1>3, <2>1 DEF RequestHolds
<1>6. QED
  BY <1>1, <1>3, <1>4, <1>5, RequestStep, QueueStays, SessionsStay, Frame, PrintedStays
  DEF Inv, TypeOK, BatchStart, router

(* What it finds under its venue's name may be printed.                    *)
LEMMA BatchReadStep ==
    ASSUME Inv, Recorded, UNCHANGED enabled, NEW p \in Requests, BatchRead(p)
    PROVE  Inv' /\ RowsStep
<1> DEFINE want == proc[p].want
           fresh == {c \in want : ~Exists(c)}
           h == [proc[p] EXCEPT !.pc = "batch_insert", !.fresh = fresh]
<1>1. RowsStep /\ QueueStep /\ SessionsStep
  BY RowsStay, QueueStays, SessionsStay DEF Inv, TypeOK, VoucherType, BatchRead
<1>2. proc[p] \in Handler /\ want \in SUBSET Codes /\ RequestHolds(p) /\ At(p, "batch_read")
  BY DEF Inv, TypeOK, Handler, Procs, Holds, BatchRead
<1>3. CASE fresh = {}
  <2>1. Return(p) /\ printed' = [printed EXCEPT ![proc[p].row.venue] =
                                   @ \cup {c \in want : OwnedBy(c, proc[p].row.venue)}]
    BY <1>3 DEF BatchRead, Answer
  <2>2. printed' \in [Venues -> SUBSET Codes] /\ PrintedStep
    BY <1>2, <2>1 DEF Inv, TypeOK, PrintedStep, BatchRead, OwnedBy, Exists
  <2>3. QED
    BY <1>1, <2>1, <2>2, ReturnStep, PrintedStays DEF Inv, TypeOK, BatchRead, router
<1>4. CASE fresh # {}
  <2>1. h \in Handler /\ h.pc = "batch_insert" /\ h.row = proc[p].row
    BY <1>2 DEF Handler, PC
  <2>2. proc' = [proc EXCEPT ![p] = h] /\ printed' = printed
    BY <1>4 DEF BatchRead, Inv, TypeOK
  <2>3. RequestHolds(p)'
    <3>1. proc'[p] = h
      BY <2>2 DEF Inv, TypeOK, Procs
    <3>2. QED
      BY <1>2, <2>1, <3>1 DEF RequestHolds, At
  <2>4. QED
    BY <1>1, <2>1, <2>2, <2>3, RequestStep, Frame, PrintedStays DEF Inv, TypeOK, BatchRead, router
<1>5. QED
  BY <1>3, <1>4

(* So may what it inserts, unless it lost a race for any of it.            *)
LEMMA BatchInsertStep ==
    ASSUME Inv, Recorded, UNCHANGED enabled, NEW p \in Requests, BatchInsert(p)
    PROVE  Inv' /\ RowsStep
<1> DEFINE want == proc[p].want
           fresh == proc[p].fresh
           s == proc[p].row.venue
<1>1. QueueStep /\ SessionsStep
  BY QueueStays, SessionsStay DEF Inv, TypeOK, BatchInsert
<1>2. /\ proc[p] \in Handler /\ want \in SUBSET Codes /\ fresh \in SUBSET Codes
      /\ RequestHolds(p) /\ At(p, "batch_insert")
  BY DEF Inv, TypeOK, Handler, Procs, Holds, BatchInsert
<1>3. CASE /\ \A c \in fresh : ~Exists(c)
           /\ voucher' = [c \in Codes |-> IF c \in fresh THEN proc[p].row ELSE voucher[c]]
           /\ Answer(p, fresh \cup {c \in want : OwnedBy(c, s)})
  <2>1. proc[p].row \in VoucherRow /\ proc[p].row.st = "ISSUED" /\ ~proc[p].row.paid
    BY <1>2 DEF Handler, RequestHolds, At
  <2>2. \A c \in Codes : RowStep(voucher[c], voucher'[c])
    BY <1>3, <2>1, RowStays DEF Exists, RowStep, Inv, TypeOK
  <2>3. RowsStep
    BY <1>3, <2>1, <2>2 DEF RowsStep, Inv, TypeOK
  <2>4. /\ Return(p) /\ s \in Venues
        /\ printed' = [printed EXCEPT ![s] = @ \cup fresh \cup {c \in want : OwnedBy(c, s)}]
    BY <1>2, <1>3 DEF Answer, RequestHolds, At
  <2>5. ASSUME NEW c \in fresh \cup {d \in want : OwnedBy(d, s)}
        PROVE  voucher'[c].st # "NONE" /\ voucher'[c].venue = s
    <3>1. CASE c \in fresh
      BY <1>2, <1>3, <2>1, <3>1 DEF OwnedBy, Exists
    <3>2. CASE c \notin fresh
      BY <1>2, <1>3, <3>2 DEF OwnedBy, Exists
    <3>3. QED
      BY <3>1, <3>2
  <2>6. printed' \in [Venues -> SUBSET Codes] /\ PrintedStep
    BY <1>2, <2>4, <2>5 DEF Inv, TypeOK, PrintedStep, OwnedBy, Exists
  <2>7. QED
    BY <1>1, <2>3, <2>4, <2>6, ReturnStep, PrintedStays DEF Inv, TypeOK, BatchInsert, router
<1>4. CASE UNCHANGED <<voucher, printed>> /\ Return(p)
  BY <1>1, <1>4, RowsStay, ReturnStep, PrintedStays DEF Inv, TypeOK, VoucherType, BatchInsert, router
<1>5. CASE UNCHANGED <<voucher, printed>> /\ Goto(p, "batch_again")
  <2> DEFINE h == [proc[p] EXCEPT !.pc = "batch_again"]
  <2>1. h \in Handler /\ h.pc = "batch_again" /\ h.row = proc[p].row
    BY <1>2 DEF Handler, PC
  <2>2. proc' = [proc EXCEPT ![p] = h] /\ proc'[p] = h
    BY <1>5 DEF Goto, Inv, TypeOK, Procs
  <2>3. RequestHolds(p)'
    BY <1>2, <2>1, <2>2 DEF RequestHolds, At
  <2>4. RowsStep
    BY <1>5, RowsStay DEF Inv, TypeOK, VoucherType
  <2>5. QED
    BY <1>1, <1>5, <2>1, <2>2, <2>3, <2>4, RequestStep, Frame, PrintedStays
    DEF Inv, TypeOK, BatchInsert, router
<1>6. QED
  BY <1>3, <1>4, <1>5 DEF BatchInsert

(* What it finds the second time is there already.                         *)
LEMMA BatchAgainStep ==
    ASSUME Inv, Recorded, UNCHANGED enabled, NEW p \in Requests, BatchAgain(p)
    PROVE  Inv' /\ RowsStep
<1>1. RowsStep /\ QueueStep /\ SessionsStep
  BY RowsStay, QueueStays, SessionsStay DEF Inv, TypeOK, VoucherType, BatchAgain
<1>2. proc[p].want \in SUBSET Codes
  BY DEF Inv, TypeOK, Handler, Procs
<1>3. Return(p) /\ printed' \in [Venues -> SUBSET Codes] /\ PrintedStep
  BY <1>2 DEF BatchAgain, Answer, Inv, TypeOK, PrintedStep, OwnedBy, Exists
<1>4. QED
  BY <1>1, <1>3, ReturnStep, PrintedStays DEF Inv, TypeOK, BatchAgain, router

(* A synchronised item meets a row, or brings one that was never handed    *)
(* out.                                                                    *)
LEMMA SyncReadStep ==
    ASSUME Inv, Recorded, UNCHANGED enabled, NEW p \in Requests, NEW s \in Venues,
           NEW c \in Codes, NEW st \in {"ISSUED", "EXPIRED"},
           NEW life \in {"none", "ahead"}, SyncRead(p, s, c, st, life)
    PROVE  Inv' /\ RowsStep
<1> DEFINE row == IF Exists(c) THEN NoVoucher
                  ELSE [NoVoucher EXCEPT !.st = st, !.venue = s, !.life = life]
           pc == IF Exists(c) THEN "sync_expire" ELSE "sync_create"
           h == [Idle EXCEPT !.code = c, !.pc = pc, !.row = row]
<1>1. RowsStep /\ QueueStep /\ SessionsStep
  BY RowsStay, QueueStays, SessionsStay DEF Inv, TypeOK, VoucherType, SyncRead
<1>2. row \in VoucherRow /\ row.mac = None /\ ~row.paid
      /\ (~Exists(c) => row.st \in {"ISSUED", "EXPIRED"})
  BY NoVoucherType DEF VoucherRow, VoucherStatus, Life, NoVoucher
<1>3. pc \in PC /\ (Exists(c) => pc = "sync_expire") /\ (~Exists(c) => pc = "sync_create")
  BY DEF PC
<1>4. proc' = [proc EXCEPT ![p] = h] /\ proc'[p] = h
  BY DEF SyncRead, Inv, TypeOK, Procs
<1> HIDE DEF row, pc
<1>5. h \in Handler /\ h.code = c /\ h.row = row /\ h.pc = pc
  BY <1>2, <1>3, IdleType DEF Handler, Idle
<1> HIDE DEF h
<1>6. ASSUME Later PROVE RequestHolds(p)'
  <2>1. CASE Exists(c)
    BY <1>3, <1>4, <1>5, <1>6, <2>1 DEF RequestHolds, Later
  <2>2. CASE ~Exists(c)
    BY <1>2, <1>3, <1>4, <1>5, <2>2 DEF RequestHolds
  <2>3. QED
    BY <2>1, <2>2
<1>7. QED
  BY <1>1, <1>4, <1>5, <1>6, RequestStep, Frame, PrintedStays DEF Inv, TypeOK, SyncRead, router

(* The row it met is still there, in whatever state, and is closed.        *)
LEMMA SyncExpireStep ==
    ASSUME Inv, Recorded, UNCHANGED enabled, NEW p \in Requests, SyncExpire(p)
    PROVE  Inv' /\ RowsStep
<1> DEFINE c == proc[p].code
           w == [voucher[c] EXCEPT !.st = "EXPIRED"]
<1>1. c \in Codes /\ Exists(c)
  BY DEF SyncExpire, At, Inv, Holds, RequestHolds
<1>2. voucher[c] \in VoucherRow /\ voucher' = [voucher EXCEPT ![c] = w]
  BY <1>1 DEF SyncExpire, Inv, TypeOK
<1>3. RowStep(voucher[c], w)
  BY <1>1, <1>2 DEF RowStep, VoucherRow, VoucherStatus, Exists, Closed
<1>4. RowsStep
  BY <1>1, <1>2, <1>3, OneRow DEF Inv, TypeOK, VoucherType
<1>5. QueueStep /\ SessionsStep
  BY QueueStays, SessionsStay DEF Inv, TypeOK, SyncExpire
<1>6. QED
  BY <1>4, <1>5, ReturnStep, PrintedStays DEF Inv, TypeOK, SyncExpire, router

(* A row that came in between is left alone.                               *)
LEMMA SyncCreateStep ==
    ASSUME Inv, Recorded, UNCHANGED enabled, NEW p \in Requests, SyncCreate(p)
    PROVE  Inv' /\ RowsStep
<1> DEFINE c == proc[p].code
           w == IF voucher[c].st = "NONE" THEN proc[p].row ELSE voucher[c]
<1>1. c \in Codes /\ proc[p].row \in VoucherRow /\ ~proc[p].row.paid
      /\ proc[p].row.st \in {"ISSUED", "EXPIRED"} /\ proc[p].row.mac = None
  BY DEF SyncCreate, At, Inv, Holds, RequestHolds, TypeOK, Procs, Handler
<1>2. voucher[c] \in VoucherRow /\ voucher' = [voucher EXCEPT ![c] = w]
  BY <1>1 DEF SyncCreate, Inv, TypeOK
<1>3. RowStep(voucher[c], w)
  <2>1. CASE voucher[c].st = "NONE"
    BY <1>1, <2>1 DEF RowStep, Inv, Rows
  <2>2. CASE voucher[c].st # "NONE"
    BY <1>2, <2>2, RowStays
  <2>3. QED
    BY <2>1, <2>2
<1>4. RowsStep
  BY <1>1, <1>2, <1>3, OneRow DEF Inv, TypeOK, VoucherType
<1>5. QueueStep /\ SessionsStep
  BY QueueStays, SessionsStay DEF Inv, TypeOK, SyncCreate
<1>6. QED
  BY <1>4, <1>5, ReturnStep, PrintedStays DEF Inv, TypeOK, SyncCreate, router

(* Who finds an ACTIVE row finds one that was handed out.                  *)
LEMMA RedeemReadStep ==
    ASSUME Inv, Recorded, UNCHANGED enabled, NEW p \in Requests, NEW c \in Codes,
           NEW m \in Mac, NEW known \in BOOLEAN, RedeemRead(p, c, m, known)
    PROVE  Inv' /\ RowsStep
<1> DEFINE v == voucher[c]
           again == \/ m # None /\ v.mac = m /\ v.st \in Claimed
                    \/ m = None /\ ~known /\ v.st = "ACTIVE"
           row == IF again THEN NoVoucher ELSE [NoVoucher EXCEPT !.st = v.st, !.mac = v.mac]
           pc == IF again THEN "redeem_enqueue" ELSE "redeem_claim"
           h == [Idle EXCEPT !.code = c, !.mac = m, !.pc = pc, !.row = row]
<1>1. RowsStep /\ QueueStep /\ SessionsStep
  BY RowsStay, QueueStays, SessionsStay DEF Inv, TypeOK, VoucherType, RedeemRead
<1>2. v \in VoucherRow
  BY DEF Inv, TypeOK
<1>3. again \/ v.st \in {"ISSUED", "ACTIVE"}
  BY <1>2 DEF RedeemRead, Usable, Exists, Closed, VoucherRow, VoucherStatus
<1>4. again \/ v.st = "ACTIVE" => c \in claimed
  BY DEF Inv, Rows, Claimed
<1>5. row \in VoucherRow /\ (~again => row.st = v.st)
  BY <1>2, NoVoucherType DEF VoucherRow, NoVoucher
<1>6. pc \in PC /\ (again => pc = "redeem_enqueue") /\ (~again => pc = "redeem_claim")
  BY DEF PC
<1>7. proc' = [proc EXCEPT ![p] = h] /\ proc'[p] = h
  BY DEF RedeemRead, Inv, TypeOK, Procs
<1> HIDE DEF again, row, pc
<1>8. h \in Handler /\ h.code = c /\ h.row = row /\ h.pc = pc
  BY <1>5, <1>6, IdleType DEF Handler, Idle
<1> HIDE DEF h
<1>9. ASSUME Later PROVE RequestHolds(p)'
  <2>1. CASE again
    BY <1>4, <1>6, <1>7, <1>8, <1>9, <2>1 DEF RequestHolds, Later
  <2>2. CASE ~again
    BY <1>3, <1>4, <1>5, <1>6, <1>7, <1>8, <1>9, <2>2 DEF RequestHolds, Later
  <2>3. QED
    BY <2>1, <2>2
<1>10. QED
  BY <1>1, <1>7, <1>8, <1>9, RequestStep, Frame, PrintedStays DEF Inv, TypeOK, RedeemRead, router

(* The claim wins a row that is as it was read, or changes none.           *)
LEMMA RedeemClaimStep ==
    ASSUME Inv, Recorded, UNCHANGED enabled, NEW p \in Requests, RedeemClaim(p)
    PROVE  Inv' /\ RowsStep
<1> DEFINE c == proc[p].code
           was == proc[p].row
           m == proc[p].mac
           bound == CASE m # None -> m
                      [] m = None /\ was.st = "ACTIVE" -> was.mac
                      [] OTHER -> voucher[c].mac
           w == [voucher[c] EXCEPT !.st = "REDEEMED", !.mac = bound]
           h == [proc[p] EXCEPT !.pc = "redeem_enqueue", !.row = NoVoucher]
<1>1. /\ c \in Codes /\ was \in VoucherRow /\ m \in Mac /\ proc[p] \in Handler
      /\ was.st \in {"ISSUED", "ACTIVE"} /\ (was.st = "ACTIVE" => c \in claimed)
  BY DEF RedeemClaim, At, Inv, Holds, RequestHolds, TypeOK, Procs, Handler
<1>2. voucher[c] \in VoucherRow
  BY <1>1 DEF Inv, TypeOK
<1>3. bound \in Mac
  BY <1>1, <1>2 DEF VoucherRow
<1>4. QueueStep /\ SessionsStep
  BY QueueStays, SessionsStay DEF Inv, TypeOK, RedeemClaim
<1>5. h \in Handler /\ h.code = c /\ h.pc = "redeem_enqueue"
  BY <1>1, NoVoucherType DEF Handler, PC
<1>6. ASSUME c \in claimed', proc' = [proc EXCEPT ![p] = h]
      PROVE  RequestHolds(p)'
  <2>1. proc'[p] = h
    BY <1>6 DEF Inv, TypeOK, Procs
  <2>2. QED
    BY <1>1, <1>5, <1>6, <2>1 DEF RequestHolds
<1>7. CASE /\ voucher[c].st = was.st
           /\ voucher' = [voucher EXCEPT ![c] = w]
           /\ proc' = [proc EXCEPT ![p] = h]
  <2>1. w \in VoucherRow /\ w.st = "REDEEMED"
    BY <1>2, <1>3 DEF VoucherRow, VoucherStatus
  <2>2. RowStep(voucher[c], w)
    BY <1>1, <1>7, <2>1 DEF RowStep, Claimed
  <2>3. RowsStep
    BY <1>1, <1>7, <2>2, OneRow DEF Inv, TypeOK, VoucherType
  <2>4. c \in claimed'
    BY <1>1, <1>7, <2>1 DEF Recorded, Claimed, Inv, TypeOK
  <2>5. QED
    BY <1>4, <1>5, <1>6, <1>7, <2>3, <2>4, RequestStep, Frame, PrintedStays
    DEF Inv, TypeOK, RedeemClaim, router
<1>8. CASE voucher' = voucher /\ was.st = "ACTIVE" /\ proc' = [proc EXCEPT ![p] = h]
  <2>1. RowsStep /\ c \in claimed'
    BY <1>1, <1>8, RowsStay DEF Inv, TypeOK, VoucherType, Recorded
  <2>2. QED
    BY <1>4, <1>5, <1>6, <1>8, <2>1, RequestStep, Frame, PrintedStays
    DEF Inv, TypeOK, RedeemClaim, router
<1>9. CASE voucher' = voucher /\ Return(p)
  BY <1>4, <1>9, RowsStay, ReturnStep, PrintedStays DEF Inv, TypeOK, VoucherType, RedeemClaim, router
<1>10. [proc EXCEPT ![p].pc = "redeem_enqueue", ![p].row = NoVoucher] = [proc EXCEPT ![p] = h]
  BY DEF Inv, TypeOK, Procs
<1>11. [voucher EXCEPT ![c].st = "REDEEMED", ![c].mac = bound] = [voucher EXCEPT ![c] = w]
  BY <1>1 DEF Inv, TypeOK
<1> HIDE DEF w, h, bound
<1>12. \/ /\ voucher[c].st = was.st
          /\ voucher' = [voucher EXCEPT ![c].st = "REDEEMED", ![c].mac = bound]
          /\ proc' = [proc EXCEPT ![p].pc = "redeem_enqueue", ![p].row = NoVoucher]
       \/ /\ UNCHANGED voucher /\ was.st = "ACTIVE"
          /\ proc' = [proc EXCEPT ![p].pc = "redeem_enqueue", ![p].row = NoVoucher]
       \/ UNCHANGED voucher /\ Return(p)
  BY Zenon DEF RedeemClaim, bound
<1>13. QED
  BY <1>7, <1>8, <1>9, <1>10, <1>11, <1>12

(* Whoever comes to the queue has won or has the device that did.          *)
LEMMA RedeemEnqueueStep ==
    ASSUME Inv, Recorded, UNCHANGED enabled, NEW p \in Requests, RedeemEnqueue(p)
    PROVE  Inv' /\ RowsStep
<1> DEFINE j == <<"voucher", proc[p].code>>
<1>1. j \in JobIds /\ j[2] \in claimed'
  BY DEF RedeemEnqueue, At, Inv, Holds, RequestHolds, Recorded, JobIds
<1>2. RowsStep /\ QueueStep /\ SessionsStep
  BY <1>1, RowsStay, QueueGrows, SessionsStay DEF Inv, TypeOK, VoucherType, RedeemEnqueue
<1>3. QED
  BY <1>2, ReturnStep, PrintedStays DEF Inv, TypeOK, RedeemEnqueue, router

(* A code that is found is there to be bound.                              *)
LEMMA RetrieveReadStep ==
    ASSUME Inv, Recorded, UNCHANGED enabled, NEW p \in Requests, NEW c \in Codes,
           NEW m \in Devices, RetrieveRead(p, c, m)
    PROVE  Inv' /\ RowsStep
<1> DEFINE h == [Idle EXCEPT !.pc = "retrieve_bind", !.code = c, !.mac = m]
<1>1. RowsStep /\ QueueStep /\ SessionsStep
  BY RowsStay, QueueStays, SessionsStay DEF Inv, TypeOK, VoucherType, RetrieveRead
<1>2. h \in Handler /\ h.pc = "retrieve_bind" /\ h.code = c /\ h.mac = m
  BY IdleType DEF Handler, PC, Idle, Mac
<1>3. proc' = [proc EXCEPT ![p] = h] /\ proc'[p] = h
  BY DEF RetrieveRead, Inv, TypeOK, Procs
<1>4. ASSUME Later PROVE RequestHolds(p)'
  BY <1>2, <1>3, <1>4 DEF RetrieveRead, RequestHolds, Later
<1>5. QED
  BY <1>1, <1>2, <1>3, <1>4, RequestStep, Frame, PrintedStays DEF Inv, TypeOK, RetrieveRead, router

(* It is bound to a named device; a paid one was handed out.               *)
LEMMA RetrieveBindStep ==
    ASSUME Inv, Recorded, UNCHANGED enabled, NEW p \in Requests, RetrieveBind(p)
    PROVE  Inv' /\ RowsStep
<1> DEFINE c == proc[p].code
           w == [voucher[c] EXCEPT !.mac = proc[p].mac]
           h == [proc[p] EXCEPT !.pc = "retrieve_enqueue"]
<1>1. c \in Codes /\ Exists(c) /\ proc[p].mac \in Devices /\ proc[p] \in Handler
  BY DEF RetrieveBind, At, Inv, Holds, RequestHolds, TypeOK, Procs
<1>2. voucher[c] \in VoucherRow /\ voucher' = [voucher EXCEPT ![c] = w]
  BY <1>1 DEF RetrieveBind, Inv, TypeOK
<1>3. RowStep(voucher[c], w)
  BY <1>1, <1>2 DEF RowStep, VoucherRow, Exists, Mac
<1>4. RowsStep
  BY <1>1, <1>2, <1>3, OneRow DEF Inv, TypeOK, VoucherType
<1>5. QueueStep /\ SessionsStep
  BY QueueStays, SessionsStay DEF Inv, TypeOK, RetrieveBind
<1>6. CASE Return(p)
  BY <1>4, <1>5, <1>6, ReturnStep, PrintedStays DEF Inv, TypeOK, RetrieveBind, router
<1>7. CASE voucher[c].paid /\ Goto(p, "retrieve_enqueue")
  <2>1. h \in Handler /\ h.pc = "retrieve_enqueue" /\ h.code = c
    BY <1>1 DEF Handler, PC
  <2>2. proc' = [proc EXCEPT ![p] = h] /\ proc'[p] = h
    BY <1>7 DEF Goto, Inv, TypeOK, Procs
  <2>3. c \in claimed'
    BY <1>1, <1>7 DEF Recorded, Inv, Rows
  <2>4. RequestHolds(p)'
    BY <1>1, <2>1, <2>2, <2>3 DEF RequestHolds
  <2>5. QED
    BY <1>4, <1>5, <2>1, <2>2, <2>4, RequestStep, Frame, PrintedStays DEF Inv, TypeOK, RetrieveBind, router
<1>8. QED
  BY <1>6, <1>7 DEF RetrieveBind

(* Its order's job is of a code that was handed out.                       *)
LEMMA RetrieveEnqueueStep ==
    ASSUME Inv, Recorded, UNCHANGED enabled, NEW p \in Requests, RetrieveEnqueue(p)
    PROVE  Inv' /\ RowsStep
<1> DEFINE j == <<"order", proc[p].code>>
<1>1. j \in JobIds /\ j[2] \in claimed'
  BY DEF RetrieveEnqueue, At, Inv, Holds, RequestHolds, Recorded, JobIds
<1>2. RowsStep /\ QueueStep /\ SessionsStep
  BY <1>1, RowsStay, QueueGrows, SessionsStay DEF Inv, TypeOK, VoucherType, RetrieveEnqueue
<1>3. QED
  BY <1>2, ReturnStep, PrintedStays DEF Inv, TypeOK, RetrieveEnqueue, router

(* A disconnect is of a session that is there.                             *)
LEMMA DisconnectStep ==
    ASSUME Inv, Recorded, UNCHANGED enabled, NEW p \in Requests, NEW j \in JobIds,
           NEW i \in DOMAIN session[j], Disconnect(p, j, i)
    PROVE  Inv' /\ RowsStep
<1> DEFINE h == [Idle EXCEPT !.pc = "disconnect_write", !.kind = j[1], !.code = j[2]]
<1>1. RowsStep /\ QueueStep /\ SessionsStep
  BY RowsStay, QueueStays, SessionsStay DEF Inv, TypeOK, VoucherType, Disconnect
<1>2. j[1] \in {"order", "voucher"} /\ j[2] \in Codes /\ j = <<j[1], j[2]>>
  BY DEF JobIds
<1>3. h \in Handler /\ h.pc = "disconnect_write" /\ h.kind = j[1] /\ h.code = j[2]
  BY <1>2, IdleType DEF Handler, PC, Idle
<1>4. proc' = [proc EXCEPT ![p] = h] /\ proc'[p] = h
  BY DEF Disconnect, Inv, TypeOK, Procs
<1>5. RequestHolds(p)'
  BY <1>2, <1>3, <1>4 DEF RequestHolds, JobOf
<1>6. QED
  BY <1>1, <1>3, <1>4, <1>5, RequestStep, Frame, PrintedStays DEF Inv, TypeOK, Disconnect, router

(* A session of a list changes its state.                                  *)
LEMMA OneSession ==
    ASSUME SessionType, NEW j \in JobIds, NEW i \in DOMAIN session[j],
           NEW st \in SessionState, session' = [session EXCEPT ![j][i] = st]
    PROVE  SessionsStep
<1> DEFINE t == [session[j] EXCEPT ![i] = st]
<1>1. session[j] \in Seq(SessionState) /\ i \in 1 .. Len(session[j])
  BY DEF SessionType
<1>2. t \in Seq(SessionState) /\ Len(t) = Len(session[j])
  BY <1>1, ExceptSeq
<1>3. session' = [session EXCEPT ![j] = t]
  OBVIOUS
<1> HIDE DEF t
<1>4. QED
  BY <1>2, <1>3 DEF SessionType, SessionsStep

(* It ends one session and adds none.                                      *)
LEMMA DisconnectWriteStep ==
    ASSUME Inv, Recorded, UNCHANGED enabled, NEW p \in Requests, DisconnectWrite(p)
    PROVE  Inv' /\ RowsStep
<1>1. JobOf(p) \in JobIds
  BY DEF DisconnectWrite, At, Inv, Holds, RequestHolds
<1>2. PICK i \in DOMAIN session[JobOf(p)] :
         session' = [session EXCEPT ![JobOf(p)][i] = "ENDED"]
  BY DEF DisconnectWrite
<1>3. SessionsStep
  BY <1>1, <1>2, OneSession DEF Inv, TypeOK, SessionType, SessionState
<1>4. RowsStep /\ QueueStep
  BY RowsStay, QueueStays DEF Inv, TypeOK, VoucherType, DisconnectWrite
<1>5. QED
  BY <1>3, <1>4, ReturnStep, PrintedStays DEF Inv, TypeOK, DisconnectWrite, router

------------------------------------------------------------------------------
(* The workers.                                                            *)

(* Nobody else touches a worker's job: what a step of its leaves.          *)
LEMMA WorkerGoes ==
    ASSUME Inv, Recorded, NEW w \in Workers, NEW pc \in PC, Goto(w, pc), ~Free(w),
           pc \in {"push", "bind", "alert", "alert_write", "session", "commit"},
           pc = "commit" => session[JobOf(w)] = <<>>,
           pc \in {"alert", "alert_write"} => proc[w].kind = "order",
           pc = "alert_write" => alert[proc[w].code] = 0,
           UNCHANGED <<voucher, session, pq, alert, printed>>, RestType', RouterKnown'
    PROVE  Inv' /\ RowsStep
<1> DEFINE j == JobOf(w)
           h == [proc[w] EXCEPT !.pc = pc]
<1>1. proc[w] \in Handler /\ WorkerHolds(w)
  BY DEF Inv, TypeOK, Procs, Holds
<1>2. j \in JobIds /\ pq[j] = "active"
  BY <1>1 DEF WorkerHolds, Free, At
<1>3. h \in Handler /\ h.pc = pc /\ h.kind = proc[w].kind /\ h.code = proc[w].code
  BY <1>1, MovedType DEF Handler
<1>4. proc' = [proc EXCEPT ![w] = h] /\ proc'[w] = h
  BY DEF Goto, Inv, TypeOK, Procs
<1>5. JobOf(w)' = j
  BY <1>3, <1>4 DEF JobOf
<1>6. WorkerHolds(w)'
  BY <1>2, <1>3, <1>4, <1>5 DEF WorkerHolds
<1>7. RowsStep
  BY RowsStay DEF Inv, TypeOK, VoucherType
<1>8. /\ pq' \in [JobIds -> JobState] /\ SessionType' /\ Len(session'[j]) <= 1
      /\ \A i \in JobIds \ {j} : pq'[i] = pq[i] /\ session'[i] = session[i]
  BY <1>2 DEF Inv, TypeOK, SessionType, OneSessionPerJob
<1> HIDE DEF h, j
<1>9. ~Free(w) => JobOf(w) = j
  BY DEF j
<1>10. QED
  BY <1>2, <1>3, <1>4, <1>5, <1>6, <1>7, <1>8, <1>9, WorkerMoves DEF Inv, OneUnreadAlert

(* A waiting job is nobody's, so that its taker is alone with it.          *)
LEMMA TakeJobStep ==
    ASSUME Inv, Recorded, UNCHANGED enabled, NEW w \in Workers, NEW j \in JobIds,
           TakeJob(w, j)
    PROVE  Inv' /\ RowsStep
<1> DEFINE c == j[2]
           mac == IF j[1] = "order" THEN voucher[c].buyer ELSE voucher[c].mac
           h == [Idle EXCEPT !.pc = "push", !.kind = j[1], !.code = c, !.mac = mac]
<1>1. j[1] \in {"order", "voucher"} /\ c \in Codes /\ j = <<j[1], j[2]>>
  BY DEF JobIds
<1>2. mac \in Mac
  BY <1>1 DEF Inv, TypeOK, VoucherRow
<1>3. proc' = [proc EXCEPT ![w] = h] /\ proc'[w] = h
  BY DEF TakeJob, Inv, TypeOK, Procs
<1> HIDE DEF mac
<1>4. h \in Handler /\ h.pc = "push" /\ h.kind = j[1] /\ h.code = j[2]
  BY <1>1, <1>2, IdleType DEF Handler, PC, Idle
<1>5. pq[j] = "waiting" /\ Free(w) /\ pq' = [pq EXCEPT ![j] = "active"]
  BY DEF TakeJob
<1> HIDE DEF h
<1>6. JobOf(w)' = j /\ pq'[j] = "active"
  BY <1>1, <1>3, <1>4, <1>5 DEF JobOf, Inv, TypeOK
<1>7. WorkerHolds(w)'
  BY <1>3, <1>4, <1>6 DEF WorkerHolds
<1>8. RowsStep
  BY RowsStay DEF Inv, TypeOK, VoucherType, TakeJob
<1>9. /\ pq' \in [JobIds -> JobState] /\ SessionType' /\ Len(session'[j]) <= 1
      /\ \A i \in JobIds \ {j} : pq'[i] = pq[i] /\ session'[i] = session[i]
  BY <1>5 DEF TakeJob, Inv, TypeOK, SessionType, OneSessionPerJob, JobState
<1>10. RestType' /\ (Later => RouterKnown')
  BY Frame DEF TakeJob, Inv, TypeOK, Known, RouterKnown, Later, router
<1>11. QED
  BY <1>3, <1>4, <1>5, <1>6, <1>7, <1>8, <1>9, <1>10, WorkerMoves
  DEF TakeJob, Inv, OneUnreadAlert

(* The user that is made has the code of a job, which was handed out.      *)
LEMMA PushStep ==
    ASSUME Inv, Recorded, UNCHANGED enabled, NEW w \in Workers, Push(w)
    PROVE  Inv' /\ RowsStep
<1> DEFINE c == proc[w].code
<1>1. ~Free(w) /\ JobOf(w) \in JobIds /\ pq[JobOf(w)] = "active"
  BY DEF Push, At, Free, Inv, Holds, WorkerHolds
<1>2. c \in Codes /\ c \in claimed
  BY <1>1 DEF JobOf, JobIds, Inv, Known
<1>3. user' \in {user, [user EXCEPT ![c] = "live"]} /\ faults' \in 0 .. MaxFaults
  BY FaultType DEF Push
<1>4. /\ user' \in [Codes -> {"none", "live", "spent"}]
      /\ \A d \in Codes : user'[d] # "none" => d \in claimed
  BY <1>2, <1>3 DEF Inv, TypeOK, Known
<1>5. RestType'
  BY <1>3, <1>4 DEF Push, RestType, Inv, TypeOK
<1>6. RouterKnown'
  BY <1>4 DEF Push, RouterKnown, Inv, Known, Recorded
<1>7. PICK pc \in {"bind", "session", "alert"} :
         Goto(w, pc) /\ (pc = "alert" => proc[w].kind = "order")
  BY DEF Push
<1>8. QED
  BY <1>1, <1>5, <1>6, <1>7, WorkerGoes DEF Push, PC

(* The bypass is of the same code.                                         *)
LEMMA BindStep ==
    ASSUME Inv, Recorded, UNCHANGED enabled, NEW w \in Workers, Bind(w)
    PROVE  Inv' /\ RowsStep
<1> DEFINE m == proc[w].mac
           b == IF binding[m] = None THEN [tag |-> "WP", code |-> proc[w].code] ELSE binding[m]
<1>1. ~Free(w) /\ JobOf(w) \in JobIds
  BY DEF Bind, At, Free, Inv, Holds, WorkerHolds
<1>2. proc[w].code \in Codes
  BY <1>1 DEF JobOf, JobIds
<1>3. binding' \in [Devices -> Binding \cup {None}]
  <2>1. [tag |-> "WP", code |-> proc[w].code] \in Binding
    BY <1>2 DEF Binding
  <2>2. CASE binding' = [binding EXCEPT ![m] = b]
    BY <2>1, <2>2 DEF Inv, TypeOK
  <2>3. CASE binding' = binding
    BY <2>3 DEF Inv, TypeOK
  <2>4. QED
    BY <2>2, <2>3 DEF Bind
<1>4. RestType'
  BY <1>3, FaultType DEF Bind, RestType, Inv, TypeOK
<1>5. RouterKnown'
  BY DEF Bind, RouterKnown, Inv, Known, Recorded
<1>6. QED
  BY <1>1, <1>4, <1>5, WorkerGoes DEF Bind, PC

(* Only an order's job goes on to an alert, where there is none.           *)
LEMMA AlertReadStep ==
    ASSUME Inv, Recorded, UNCHANGED enabled, NEW w \in Workers, AlertRead(w)
    PROVE  Inv' /\ RowsStep
<1>1. ~Free(w) /\ proc[w].kind = "order" /\ proc[w].code \in Codes
  BY DEF AlertRead, At, Free, Inv, Holds, WorkerHolds, JobOf, JobIds
<1>2. RestType' /\ RouterKnown'
  BY Frame DEF AlertRead, RouterKnown, Inv, TypeOK, Known, Recorded, router
<1>3. PICK pc \in {"session", "alert_write"} :
         Goto(w, pc) /\ (pc = "alert_write" => alert[proc[w].code] = 0)
  BY <1>1 DEF AlertRead, Inv, TypeOK
<1>4. QED
  BY <1>1, <1>2, <1>3, WorkerGoes DEF AlertRead, PC

(* No other worker has the order's job, so there is none still.            *)
LEMMA AlertWriteStep ==
    ASSUME Inv, Recorded, UNCHANGED enabled, NEW w \in Workers, AlertWrite(w)
    PROVE  Inv' /\ RowsStep
<1> DEFINE c == proc[w].code
           j == <<"order", c>>
           h == [proc[w] EXCEPT !.pc = "session"]
<1>1. /\ ~Free(w) /\ JobOf(w) = j /\ j \in JobIds /\ c \in Codes
      /\ pq[j] = "active" /\ alert[c] = 0 /\ proc[w] \in Handler
  BY DEF AlertWrite, At, Free, Inv, Holds, WorkerHolds, JobOf, JobIds, TypeOK, Procs
<1>2. faults' \in 0 .. MaxFaults /\ alert' \in {alert, [alert EXCEPT ![c] = @ + 1]}
  BY FaultType DEF AlertWrite
<1>3. /\ alert' \in [Codes -> Nat] /\ OneUnreadAlert'
      /\ \A d \in Codes : j # <<"order", d>> => alert'[d] = alert[d]
  BY <1>1, <1>2 DEF Inv, TypeOK, OneUnreadAlert
<1>4. RestType' /\ (Later => RouterKnown')
  BY <1>2, <1>3 DEF AlertWrite, RestType, RouterKnown, Inv, TypeOK, Known, Later, router
<1>5. h \in Handler /\ h.pc = "session" /\ h.kind = proc[w].kind /\ h.code = c
  <2>1. "session" \in PC
    BY DEF PC
  <2>2. QED
    BY <1>1, <2>1, MovedType DEF Handler
<1>6. proc' = [proc EXCEPT ![w] = h] /\ proc'[w] = h
  BY DEF AlertWrite, Goto, Inv, TypeOK, Procs
<1> HIDE DEF h
<1>7. JobOf(w)' = j
  BY <1>1, <1>5, <1>6 DEF JobOf
<1>8. WorkerHolds(w)'
  BY <1>1, <1>5, <1>6, <1>7 DEF WorkerHolds, AlertWrite
<1>9. RowsStep
  BY RowsStay DEF AlertWrite, Inv, TypeOK, VoucherType
<1>10. /\ pq' \in [JobIds -> JobState] /\ SessionType' /\ Len(session'[j]) <= 1
       /\ \A i \in JobIds \ {j} : pq'[i] = pq[i] /\ session'[i] = session[i]
  BY <1>1 DEF AlertWrite, Inv, TypeOK, SessionType, OneSessionPerJob
<1> HIDE DEF j
<1>11. QED
  BY <1>1, <1>3, <1>4, <1>5, <1>6, <1>7, <1>8, <1>9, <1>10, WorkerMoves DEF AlertWrite

(* Stock that a voucher's job finds is activated.                          *)
LEMMA ActivatedRows ==
    ASSUME VoucherType, NEW c \in Codes, voucher' \in {voucher, Activated(c)}
    PROVE  RowsStep
<1> DEFINE w == [voucher[c] EXCEPT !.st = IF @ = "ISSUED" THEN "ACTIVE" ELSE @]
<1>1. voucher[c] \in VoucherRow
  BY DEF VoucherType
<1>2. RowStep(voucher[c], w)
  BY <1>1 DEF RowStep, VoucherRow, VoucherStatus
<1>3. CASE voucher' = Activated(c)
  <2>1. voucher' = [voucher EXCEPT ![c] = w]
    BY <1>3 DEF Activated
  <2>2. QED
    BY <1>2, <2>1, OneRow
<1>4. CASE voucher' = voucher
  BY <1>4, RowsStay
<1>5. QED
  BY <1>3, <1>4

(* A job is done: its worker is free, its id may be used again.            *)
LEMMA WorkerDone ==
    ASSUME Inv, Recorded, NEW w \in Workers, ~Free(w), Complete(w), RowsStep,
           SessionType',
           \A i \in JobIds \ {JobOf(w)} : session'[i] = session[i],
           JobOf(w) \in JobIds => Len(session'[JobOf(w)]) <= 1,
           UNCHANGED Rest
    PROVE  Inv' /\ RowsStep
<1> DEFINE j == JobOf(w)
<1>1. j \in JobIds
  BY DEF Inv, Holds, WorkerHolds, Free, At
<1>2. proc' = [proc EXCEPT ![w] = Idle] /\ proc'[w] = Idle
  BY DEF Complete, Return, Inv, TypeOK, Procs
<1>3. WorkerHolds(w)'
  BY <1>2 DEF WorkerHolds, Idle
<1>4. pq' = [pq EXCEPT ![j] = "none"]
  BY DEF Complete
<1>5. pq' \in [JobIds -> JobState] /\ \A i \in JobIds \ {j} : pq'[i] = pq[i]
  BY <1>1, <1>4 DEF Inv, TypeOK, JobState
<1>6. RestType' /\ (Later => RouterKnown')
  BY DEF RestType, RouterKnown, Rest, Inv, TypeOK, Known, Later
<1>7. Idle.pc = "idle"
  BY DEF Idle
<1> HIDE DEF j
<1>8. ~Free(w) => JobOf(w) = j
  BY DEF j
<1>9. QED
  BY <1>1, <1>2, <1>3, <1>5, <1>6, <1>7, <1>8, IdleType, WorkerMoves
  DEF j, Rest, Inv, OneUnreadAlert

(* A job that finds its session is done.                                   *)
LEMMA SessionFindStep ==
    ASSUME Inv, Recorded, UNCHANGED enabled, NEW w \in Workers, SessionFind(w)
    PROVE  Inv' /\ RowsStep
<1> DEFINE c == proc[w].code
<1>1. ~Free(w) /\ JobOf(w) \in JobIds
  BY DEF SessionFind, At, Free, Inv, Holds, WorkerHolds
<1>2. c \in Codes
  BY <1>1 DEF JobOf, JobIds
<1>3. CASE HasSession(w)
  <2>1. RowsStep
    BY <1>2, <1>3, ActivatedRows DEF SessionFind, Inv, TypeOK, VoucherType
  <2>2. SessionType' /\ Len(session'[JobOf(w)]) <= 1
    BY <1>1 DEF SessionFind, Inv, TypeOK, SessionType, OneSessionPerJob
  <2>3. QED
    BY <1>1, <1>3, <2>1, <2>2, WorkerDone DEF SessionFind, Rest, router
<1>4. CASE ~HasSession(w)
  <2>1. session[JobOf(w)] = <<>>
    BY <1>4 DEF HasSession
  <2>2. RestType' /\ RouterKnown'
    BY Frame DEF SessionFind, RouterKnown, Inv, TypeOK, Known, Recorded, router
  <2>3. QED
    BY <1>1, <1>4, <2>1, <2>2, WorkerGoes DEF SessionFind, PC
<1>5. QED
  BY <1>3, <1>4

(* No other worker has the job, so that its list is still empty.           *)
LEMMA SessionCommitStep ==
    ASSUME Inv, Recorded, UNCHANGED enabled, NEW w \in Workers, SessionCommit(w)
    PROVE  Inv' /\ RowsStep
<1> DEFINE c == proc[w].code
           j == JobOf(w)
<1>1. ~Free(w) /\ j \in JobIds /\ session[j] = <<>>
  BY DEF SessionCommit, At, Free, Inv, Holds, WorkerHolds
<1>2. c \in Codes
  BY <1>1 DEF JobOf, JobIds
<1>3. RowsStep
  BY <1>2, ActivatedRows DEF SessionCommit, Inv, TypeOK, VoucherType
<1>4. Append(session[j], "ACTIVE") = <<"ACTIVE">>
  BY <1>1
<1>5. session' = [session EXCEPT ![j] = <<"ACTIVE">>]
  BY <1>4 DEF SessionCommit
<1>6. <<"ACTIVE">> \in Seq(SessionState) /\ Len(<<"ACTIVE">>) = 1
  BY DEF SessionState
<1> HIDE DEF j
<1>7. /\ SessionType' /\ Len(session'[j]) <= 1
      /\ \A i \in JobIds \ {j} : session'[i] = session[i]
  BY <1>1, <1>5, <1>6 DEF SessionType, Inv, TypeOK
<1>8. Complete(w) /\ UNCHANGED Rest
  BY DEF SessionCommit, Rest, router
<1>9. QED
  BY <1>1, <1>3, <1>7, <1>8, WorkerDone DEF j

------------------------------------------------------------------------------
(* The rest: single statements, the timer, the router, faults.             *)

(* A step that changes rows, sessions or jobs and nothing else.            *)
LEMMA TableStep ==
    ASSUME Inv, Recorded, RowsStep, QueueStep, SessionsStep, proc' = proc,
           UNCHANGED <<user, binding, script, alert, printed, faults, enabled>>,
           cleaning' \in BOOLEAN
    PROVE  Inv' /\ RowsStep
<1>1. RestType' /\ (Later => RouterKnown')
  BY DEF RestType, RouterKnown, Inv, TypeOK, Known, Later
<1>2. QED
  BY <1>1, SystemStep DEF AlertsStep

(* A revocation closes a row that is there.                                *)
LEMMA RevokeStep ==
    ASSUME Inv, Recorded, UNCHANGED enabled, NEW c \in Codes, Revoke(c)
    PROVE  Inv' /\ RowsStep
<1> DEFINE w == [voucher[c] EXCEPT !.st = "REVOKED"]
<1>1. voucher[c] \in VoucherRow /\ voucher' = [voucher EXCEPT ![c] = w]
  BY DEF Revoke, Inv, TypeOK
<1>2. RowStep(voucher[c], w)
  BY <1>1 DEF Revoke, RowStep, VoucherRow, VoucherStatus, Exists, Closed
<1>3. RowsStep
  BY <1>1, <1>2, OneRow DEF Inv, TypeOK, VoucherType
<1>4. QED
  BY <1>3, TableStep, QueueStays, SessionsStay DEF Revoke, Inv, TypeOK, router

(* What is sold online is handed out with its sale.                        *)
LEMMA SellStep ==
    ASSUME Inv, Recorded, UNCHANGED enabled, NEW c \in Codes, NEW m \in Mac, Sell(c, m)
    PROVE  Inv' /\ RowsStep
<1> DEFINE w == [st |-> "ACTIVE", venue |-> Home, mac |-> m, life |-> "ahead",
                 paid |-> TRUE, buyer |-> m]
           j == <<"order", c>>
<1>1. w \in VoucherRow /\ voucher' = [voucher EXCEPT ![c] = w]
  BY HomeType DEF Sell, VoucherRow, VoucherStatus, Life
<1>2. RowStep(voucher[c], w)
  BY <1>1 DEF Sell, RowStep, Exists, Claimed
<1>3. RowsStep
  BY <1>1, <1>2, OneRow DEF Inv, TypeOK, VoucherType
<1>4. voucher'[c].st = "ACTIVE"
  BY <1>1 DEF Inv, TypeOK
<1>5. j \in JobIds /\ j[2] \in claimed'
  BY <1>4 DEF JobIds, Recorded, Claimed
<1>6. QueueStep
  BY <1>5, QueueStays, QueueGrows DEF Sell, Inv
<1>7. QED
  BY <1>3, <1>6, TableStep, SessionsStay DEF Sell, Inv, TypeOK, router

(* The sweep closes unsold stock.                                          *)
LEMMA SweepStep ==
    ASSUME Inv, Recorded, UNCHANGED enabled, Sweep
    PROVE  Inv' /\ RowsStep
BY SweepRows, TableStep, QueueStays, SessionsStay DEF Sweep, Inv, TypeOK, VoucherType, router

(* Time changes no status.                                                 *)
LEMMA VoucherLapsesStep ==
    ASSUME Inv, Recorded, UNCHANGED enabled, NEW c \in Codes, VoucherLapses(c)
    PROVE  Inv' /\ RowsStep
<1> DEFINE w == [voucher[c] EXCEPT !.life = "past"]
<1>1. voucher[c] \in VoucherRow /\ voucher' = [voucher EXCEPT ![c] = w]
  BY DEF VoucherLapses, Inv, TypeOK
<1>2. RowStep(voucher[c], w)
  BY <1>1 DEF RowStep, VoucherRow, Life
<1>3. RowsStep
  BY <1>1, <1>2, OneRow DEF Inv, TypeOK, VoucherType
<1>4. QED
  BY <1>3, TableStep, QueueStays, SessionsStay DEF VoucherLapses, Inv, TypeOK, router

(* Nor does it add a session.                                              *)
LEMMA SessionLapsesStep ==
    ASSUME Inv, Recorded, UNCHANGED enabled, NEW j \in JobIds,
           NEW i \in DOMAIN session[j], SessionLapses(j, i)
    PROVE  Inv' /\ RowsStep
<1>1. SessionsStep
  BY OneSession DEF SessionLapses, Inv, TypeOK, SessionType, SessionState
<1>2. QED
  BY <1>1, TableStep, RowsStay, QueueStays
  DEF SessionLapses, Inv, TypeOK, VoucherType, router

(* The timer changes every session list, and keeps its length.             *)
LEMMA CleanupSessionsStep ==
    ASSUME Inv, Recorded, UNCHANGED enabled, CleanupSessions
    PROVE  Inv' /\ RowsStep
<1> DEFINE Ended(s) == [i \in DOMAIN s |-> IF s[i] = "OVERDUE" THEN "EXPIRED" ELSE s[i]]
<1>1. ASSUME NEW s \in Seq(SessionState)
      PROVE  Ended(s) \in Seq(SessionState) /\ Len(Ended(s)) = Len(s)
  <2>1. DOMAIN s = 1 .. Len(s) /\ Len(s) \in Nat
    OBVIOUS
  <2>2. \A i \in 1 .. Len(s) : s[i] \in SessionState
    OBVIOUS
  <2>3. Ended(s) \in [1 .. Len(s) -> SessionState]
    BY <2>1, <2>2 DEF SessionState
  <2>4. QED
    BY <2>1, <2>3
<1>2. session' = [j \in JobIds |-> Ended(session[j])]
  BY DEF CleanupSessions
<1> HIDE DEF Ended
<1>3. SessionsStep
  BY <1>1, <1>2 DEF Inv, TypeOK, SessionType, SessionsStep
<1>4. QED
  BY <1>3, SweepRows, TableStep, QueueStays
  DEF CleanupSessions, Inv, TypeOK, VoucherType, router

(* A step that changes what the router or the owner has.                   *)
LEMMA RestStep ==
    ASSUME Inv, Recorded, UNCHANGED <<voucher, session, pq, proc, printed>>, RestType',
           Later => RouterKnown', AlertsStep
    PROVE  Inv' /\ RowsStep
BY SystemStep, RowsStay, QueueStays, SessionsStay DEF Inv, TypeOK, VoucherType

(* The owner reads.                                                        *)
LEMMA MarkAllReadStep ==
    ASSUME Inv, Recorded, UNCHANGED enabled, MarkAllRead
    PROVE  Inv' /\ RowsStep
<1>1. RestType' /\ (Later => RouterKnown')
  BY DEF MarkAllRead, RestType, RouterKnown, Inv, TypeOK, Known, Later, router
<1>2. QED
  BY <1>1, RestStep DEF MarkAllRead, AlertsStep

(* A user that is spent was there.                                         *)
LEMMA UserSpentStep ==
    ASSUME Inv, Recorded, UNCHANGED enabled, NEW c \in Codes, UserSpent(c)
    PROVE  Inv' /\ RowsStep
<1>1. RestType' /\ (Later => RouterKnown')
  BY DEF UserSpent, RestType, RouterKnown, Inv, TypeOK, Known, Later
<1>2. QED
  BY <1>1, RestStep DEF UserSpent, AlertsStep

(* The timer only removes users.                                           *)
LEMMA CleanupRouterStep ==
    ASSUME Inv, Recorded, UNCHANGED enabled, CleanupRouter
    PROVE  Inv' /\ RowsStep
<1>1. PICK gone \in SUBSET {c \in Codes : user[c] = "spent"} :
         user' = [c \in Codes |-> IF c \in gone THEN "none" ELSE user[c]]
  BY DEF CleanupRouter
<1>2. RestType' /\ (Later => RouterKnown')
  BY <1>1 DEF CleanupRouter, RestType, RouterKnown, Inv, TypeOK, Known, Later
<1>3. QED
  BY <1>2, RestStep DEF CleanupRouter, AlertsStep

(* The script lists what is claimed.                                       *)
LEMMA PullStep ==
    ASSUME Inv, Recorded, UNCHANGED enabled, Pull
    PROVE  Inv' /\ RowsStep
<1>1. PICK rows \in SUBSET Listed : Fetch(rows)
  BY DEF Pull
<1>2. \A c \in rows : c \in claimed /\ Row(c) \in ScriptRow /\ Row(c).code = c
  BY DEF Listed, Row, ScriptRow, Inv, Rows, TypeOK, VoucherRow
<1>3. script' = [held |-> TRUE, rows |-> {Row(c) : c \in rows}]
  BY <1>1 DEF Fetch
<1>4. /\ script' \in [held : BOOLEAN, rows : SUBSET ScriptRow]
      /\ \A r \in script'.rows : r.code \in claimed
  BY <1>2, <1>3
<1>5. RestType' /\ (Later => RouterKnown')
  BY <1>1, <1>4 DEF Fetch, RestType, RouterKnown, Inv, TypeOK, Known, Later
<1>6. QED
  BY <1>1, <1>5, SystemStep, SweepRows, QueueStays, SessionsStay
  DEF Fetch, Inv, TypeOK, VoucherType, AlertsStep

(* Its users are of codes that were handed out when it was fetched.        *)
LEMMA RunScriptStep ==
    ASSUME Inv, Recorded, UNCHANGED enabled, RunScript
    PROVE  Inv' /\ RowsStep
<1>1. /\ user' \in [Codes -> {"none", "live", "spent"}]
      /\ \A c \in Codes : user'[c] # "none" => c \in claimed
  BY DEF RunScript, WithScriptUsers, Inv, TypeOK, Known
<1>2. binding' \in [Devices -> Binding \cup {None}]
  BY DEF RunScript, Bindings
<1>3. RestType' /\ (Later => RouterKnown')
  BY <1>1, <1>2 DEF RunScript, NoScript, RestType, RouterKnown, Inv, TypeOK, Later
<1>4. QED
  BY <1>3, RestStep DEF RunScript, AlertsStep

(* A handler that throws leaves what it wrote; its job waits again.        *)
LEMMA HandlerThrowsStep ==
    ASSUME Inv, Recorded, UNCHANGED enabled, NEW p \in Procs, HandlerThrows(p)
    PROVE  Inv' /\ RowsStep
<1>1. faults' \in 0 .. MaxFaults
  BY FaultType DEF HandlerThrows
<1>2. RowsStep
  BY RowsStay DEF HandlerThrows, Inv, TypeOK, VoucherType
<1>3. CASE p \in Requests
  <2>1. pq' = pq
    BY <1>3, AccessAssumption DEF HandlerThrows
  <2>2. QED
    BY <1>1, <1>2, <1>3, <2>1, ReturnStep, PrintedStays, QueueStays, SessionsStay
    DEF HandlerThrows, Inv, TypeOK, router
<1>4. CASE p \in Workers
  <2> DEFINE j == JobOf(p)
  <2>1. ~Free(p) /\ j \in JobIds
    BY <1>4 DEF HandlerThrows, Inv, Holds, WorkerHolds, Free, At
  <2>2. proc' = [proc EXCEPT ![p] = Idle] /\ proc'[p] = Idle
    BY DEF HandlerThrows, Return, Inv, TypeOK
  <2>3. pq' = [pq EXCEPT ![j] = "waiting"]
    BY <1>4 DEF HandlerThrows
  <2>4. pq' \in [JobIds -> JobState] /\ \A i \in JobIds \ {j} : pq'[i] = pq[i]
    BY <2>1, <2>3 DEF Inv, TypeOK, JobState
  <2>5. WorkerHolds(p)' /\ Idle.pc = "idle"
    BY <2>2 DEF WorkerHolds, Idle
  <2>6. /\ SessionType' /\ Len(session'[j]) <= 1
        /\ \A i \in JobIds \ {j} : session'[i] = session[i]
    BY <2>1 DEF HandlerThrows, Inv, TypeOK, SessionType, OneSessionPerJob
  <2>7. RestType' /\ (Later => RouterKnown')
    BY <1>1, Frame DEF HandlerThrows, RouterKnown, Inv, TypeOK, Known, Later, router
  <2>8. JobOf(p) = j
    OBVIOUS
  <2> HIDE DEF j
  <2>9. QED
    BY <1>2, <1>4, <2>1, <2>2, <2>4, <2>5, <2>6, <2>7, <2>8, IdleType, WorkerMoves
    DEF HandlerThrows, Inv, OneUnreadAlert
<1>5. QED
  BY <1>3, <1>4 DEF Procs

(* After a crash nobody has anything in hand.                              *)
LEMMA CrashStep ==
    ASSUME Inv, Recorded, UNCHANGED enabled, Crash
    PROVE  Inv' /\ RowsStep
<1>1. VoucherType' /\ Rows' /\ Later /\ claimed' \subseteq Codes /\ RowsStep
  BY RowsStay, RowsKept DEF Crash, Inv, TypeOK, VoucherType
<1>2. faults' \in 0 .. MaxFaults
  BY FaultType DEF Crash
<1>3. proc' \in [Procs -> Handler] /\ \A p \in Procs : proc'[p] = Idle
  BY IdleType DEF Crash
<1>4. /\ pq' \in [JobIds -> JobState]
      /\ \A j \in JobIds : pq'[j] # "none" => pq[j] # "none"
  BY DEF Crash, Inv, TypeOK, JobState
<1>5. TypeOK'
  BY <1>1, <1>2, <1>3, <1>4 DEF Crash, Inv, TypeOK, VoucherType, router
<1>6. Known'
  BY <1>1, <1>4 DEF Crash, Inv, Known, Later, router
<1>7. Holds'
  <2>1. \A p \in Procs : RequestHolds(p)' /\ WorkerHolds(p)' /\ Free(p)'
    BY <1>3 DEF RequestHolds, WorkerHolds, Free, At, Idle
  <2>2. QED
    BY <2>1 DEF Holds, OneWorkerPerJob, Procs
<1>8. OneSessionPerJob' /\ OneUnreadAlert' /\ PrintedIsStored'
  BY <1>1, PrintedKept DEF Crash, Inv, OneSessionPerJob, OneUnreadAlert, PrintedStep
<1>9. QED
  BY <1>1, <1>5, <1>6, <1>7, <1>8 DEF Inv

------------------------------------------------------------------------------
(* The specification.                                                      *)

(* At first there is nothing.                                              *)
LEMMA InitInv == Init => Inv
<1> SUFFICES ASSUME Init PROVE Inv
  OBVIOUS
<1>1. NoScript \in [held : BOOLEAN, rows : SUBSET ScriptRow] /\ NoScript.rows = {}
  BY DEF NoScript
<1>2. voucher \in [Codes -> VoucherRow] /\ proc \in [Procs -> Handler]
  BY NoVoucherType, IdleType DEF Init, StoreInit
<1>3. session \in [JobIds -> Seq(SessionState)] /\ OneSessionPerJob
  BY DEF Init, StoreInit, OneSessionPerJob
<1>4. TypeOK
  <2>1. /\ alert \in [Codes -> Nat]
        /\ user \in [Codes -> {"none", "live", "spent"}]
        /\ binding \in [Devices -> Binding \cup {None}]
        /\ pq \in [JobIds -> JobState]
    BY DEF Init, StoreInit, JobState
  <2>2. script \in [held : BOOLEAN, rows : SUBSET ScriptRow] /\ cleaning \in BOOLEAN
    BY <1>1 DEF Init, StoreInit
  <2>3. /\ printed \in [Venues -> SUBSET Codes]
        /\ faults \in 0 .. MaxFaults
        /\ enabled \in Scenarios
    BY AccessAssumption DEF Init, StoreInit
  <2>4. QED
    BY <1>2, <1>3, <2>1, <2>2, <2>3 DEF TypeOK
<1>5. Rows /\ Known /\ OneUnreadAlert /\ PrintedIsStored
  BY <1>1 DEF Init, StoreInit, Rows, Known, NoVoucher, Claimed, OneUnreadAlert, PrintedIsStored
<1>6. Holds
  <2>1. \A p \in Procs : RequestHolds(p) /\ WorkerHolds(p) /\ Free(p)
    BY DEF Init, StoreInit, RequestHolds, WorkerHolds, Free, At, Idle
  <2>2. QED
    BY <2>1 DEF Holds, OneWorkerPerJob, Procs
<1>7. QED
  BY <1>3, <1>4, <1>5, <1>6 DEF Inv, Init

(* A request starts.                                                       *)
LEMMA RequestStarts ==
    ASSUME Inv, Recorded, UNCHANGED enabled, NEW p \in Requests, StartRequest(p)
    PROVE  Inv' /\ RowsStep
BY BatchStartStep, SyncReadStep, RedeemReadStep, RetrieveReadStep, DisconnectStep
DEF StartRequest

(* A request goes on.                                                      *)
LEMMA RequestGoesOn ==
    ASSUME Inv, Recorded, UNCHANGED enabled, NEW p \in Requests,
           VoucherStep(p) \/ DisconnectWrite(p)
    PROVE  Inv' /\ RowsStep
BY BatchReadStep, BatchInsertStep, BatchAgainStep, SyncExpireStep, SyncCreateStep,
   RedeemClaimStep, RedeemEnqueueStep, RetrieveBindStep, RetrieveEnqueueStep,
   DisconnectWriteStep
DEF VoucherStep

(* A worker takes a job or goes on with it.                                *)
LEMMA WorkerGoesOn ==
    ASSUME Inv, Recorded, UNCHANGED enabled, NEW w \in Workers, WorkerStep(w)
    PROVE  Inv' /\ RowsStep
BY TakeJobStep, PushStep, BindStep, AlertReadStep, AlertWriteStep, SessionFindStep,
   SessionCommitStep
DEF WorkerStep

(* The server's steps, the timer's and the faults.                         *)
LEMMA ServerGoesOn ==
    ASSUME Inv, Recorded, UNCHANGED enabled, Server
    PROVE  Inv' /\ RowsStep
BY RequestStarts, RequestGoesOn, WorkerGoesOn, RevokeStep, SellStep, SweepStep,
   MarkAllReadStep, CleanupRouterStep, CleanupSessionsStep, PullStep,
   HandlerThrowsStep, CrashStep
DEF Server

(* The router and time.                                                    *)
LEMMA ElsewhereGoesOn ==
    ASSUME Inv, Recorded, UNCHANGED enabled, Elsewhere
    PROVE  Inv' /\ RowsStep
BY RunScriptStep, UserSpentStep, VoucherLapsesStep, SessionLapsesStep DEF Elsewhere

(* Every step keeps the invariant and is a step of VoucherLife, or none.   *)
LEMMA NextInv ==
    ASSUME Inv, [Next]_vars
    PROVE  Inv' /\ [Promise!Next]_<<Claims, Holders>>
<1>1. CASE Next
  <2>1. (Server \/ Elsewhere) /\ Recorded /\ UNCHANGED enabled
    BY <1>1 DEF Next, Step, Recorded
  <2>2. Inv' /\ RowsStep
    BY <2>1, ServerGoesOn, ElsewhereGoesOn
  <2>3. QED
    BY <2>2, RowsLive DEF Inv, TypeOK, VoucherType
<1>2. CASE UNCHANGED vars
  <2>1. Inv'
    BY <1>2 DEF vars, store, Inv, TypeOK, Rows, Known, Holds, RequestHolds, WorkerHolds,
                OneWorkerPerJob, OneSessionPerJob, OneUnreadAlert, PrintedIsStored,
                JobOf, Free, At, Exists, OwnedBy
  <2>2. voucher' = voucher
    BY <1>2 DEF vars, store
  <2>3. QED
    BY <2>1, <2>2 DEF Claims, Holders
<1>3. QED
  BY <1>1, <1>2

(* The invariant holds throughout.                                         *)
LEMMA Invariance == Spec => []Inv
BY InitInv, NextInv, PTL DEF Spec

(* Rows, sessions, jobs, handlers and what the router holds are what they  *)
(* should be.                                                              *)
THEOREM TypeCorrect == Spec => []TypeOK
<1>1. Inv => TypeOK
  BY DEF Inv
<1>2. QED
  BY <1>1, Invariance, PTL

(* The router has a user only for a code that was sold or claimed, by push *)
(* and by pull, from however old a read.                                   *)
THEOREM NoStockOnRouter == Spec => []OnlyClaimedOnRouter
<1>1. Inv => OnlyClaimedOnRouter
  BY DEF Inv, Known, OnlyClaimedOnRouter
<1>2. QED
  BY <1>1, Invariance, PTL

(* A provisioning job records at most one session, however often it is     *)
(* queued, retried or taken for stalled, by any number of workers.         *)
THEOREM OneSessionEach == Spec => []OneSessionPerJob
<1>1. Inv => OneSessionPerJob
  BY DEF Inv
<1>2. QED
  BY <1>1, Invariance, PTL

(* notifyOnce leaves at most one unread alert of an order, though it looks *)
(* and then creates.                                                       *)
THEOREM OneAlertEach == Spec => []OneUnreadAlert
<1>1. Inv => OneUnreadAlert
  BY DEF Inv
<1>2. QED
  BY <1>1, Invariance, PTL

(* A venue is told to print only codes that are in the table under its     *)
(* name, and stay there.                                                   *)
THEOREM Printable == Spec => []PrintedIsStored
<1>1. Inv => PrintedIsStored
  BY DEF Inv
<1>2. QED
  BY <1>1, Invariance, PTL

(* The handlers implement VoucherLife: a code is claimed once, closed for  *)
(* good, and changes hands by its claim or by a named handover.            *)
THEOREM Implements == Spec => LifeSpec
<1>1. Init => \A c \in Codes : Claims[c] = "none"
  <2>1. ClaimOf("NONE") = "none"
    BY DEF ClaimOf, Closed
  <2>2. Init => \A c \in Codes : voucher[c].st = "NONE"
    BY DEF Init, StoreInit, NoVoucher
  <2>3. QED
    BY <2>1, <2>2 DEF Claims
<1>2. Inv /\ [Next]_vars => [Promise!Next]_<<Claims, Holders>>
  BY NextInv
<1>3. QED
  BY <1>1, <1>2, Invariance, PTL DEF Spec, LifeSpec, Promise!Spec
=============================================================================
