---------------------------- MODULE CheckoutTypes ----------------------------
(***************************************************************************)
(* What every handler of Checkout carries where it is, and whose job is    *)
(* whose, for any number of orders, references, vouchers, requests and     *)
(* workers: the types of the system, and what they rest on.                *)
(***************************************************************************)
EXTENDS Checkout, TLAPS

(* Where the handlers can be.                                              *)
MintingPC == {"init_payment", "init_gateway", "reinit_gateway", "reinit_write"}
HookPC == {"hook_find", "hook_record", "hook_recheck", "hook_enqueue", "rev_find",
           "rev_revoke"}
FulfilPC == {"ful_verify", "ful_load", "ful_underpaid", "ful_read", "ful_commit"}
VerifyPC == {"land_verify", "land_commit", "ret_verify", "ret_commit", "adm_verify",
             "adm_commit"}
ApprovePC == {"apr_prior", "apr_payment", "apr_voucher"}
OrderPC == {"prov_voucher", "prov_mint", "prov_push", "prov_session", "prov_commit"}
VoucherPC == {"vprov_push", "vprov_session", "vprov_commit"}

(* Where a handler has a reference, and where it has an order, in hand.    *)
RefPC == MintingPC \cup HookPC \cup FulfilPC \cup VerifyPC
HeldPC == MintingPC \cup VerifyPC \cup ApprovePC \cup OrderPC
             \cup {"rev_revoke", "ful_underpaid", "ful_read", "ful_commit", "enqueue"}

(* A handler of p may be as h is.                                          *)
Fits(p, h) ==
    /\ h.pc \in RefPC => h.r \in Refs
    /\ h.pc \in HeldPC => h.o \in Orders
    /\ h.pc \in VoucherPC \cup {"redeem_enqueue"} => h.v \in Vouchers
    /\ h.pc \in HookPC => h.ev \in EventType
    /\ p \in Requests => h.pc \notin OrderPC \cup VoucherPC
    /\ p \in FulfilWorkers => /\ h.pc \in FulfilPC \cup {"idle", "enqueue"}
                              /\ h.pc # "idle" => h.r \in Refs
    /\ p \in ProvisionWorkers => h.pc \in OrderPC \cup VoucherPC \cup {"idle"}

(* Where the order in hand has a payment row.                              *)
RowPC == VerifyPC \cup {"rev_revoke", "ful_underpaid", "ful_read", "ful_commit"}
HasRow(h) == h.pc \in RowPC => payment[h.o].st # "NONE"

Handlers == \A p \in Procs : Fits(p, proc[p]) /\ HasRow(proc[p])

(* A job that waits or runs has an attempt left; one that runs is one      *)
(* worker's alone.                                                         *)
Live(job) == job.st \in {"waiting", "active"} => job.left > 0

FulfilJobs ==
    /\ \A r \in Refs : Live(fq[r])
    /\ \A w \in FulfilWorkers : ~Free(w) => fq[proc[w].r].st = "active"
    /\ \A w, x \in FulfilWorkers :
          ~Free(w) /\ ~Free(x) /\ w # x => proc[w].r # proc[x].r

ProvisionJobs ==
    /\ \A j \in Orders \cup Vouchers : Live(pq[j])
    /\ \A w \in ProvisionWorkers : ~Free(w) => pq[JobOf(w)].st = "active"
    /\ \A w, x \in ProvisionWorkers :
          ~Free(w) /\ ~Free(x) /\ w # x => JobOf(w) # JobOf(x)

(* A row that is there has a reference, but for an approval's.             *)
PaymentRows ==
    \A o \in Orders :
        /\ payment[o].st = "NONE" => payment[o] = NoPayment
        /\ payment[o].st # "NONE" /\ ~payment[o].manual => payment[o].ref \in Refs
        /\ payment[o].st = "PENDING" => payment[o].ref \in Refs

(* The tables, the gateway and the faults are typed.                       *)
RowsOK ==
    /\ order \in [Orders -> OrderStatus]
    /\ payment \in [Orders -> PaymentRow]
    /\ voucher \in [Vouchers -> VoucherRow]
    /\ session \in [Sessions -> SessionRow]
    /\ recorded \subseteq Event
    /\ charge \in [Refs -> Charge]
    /\ sent \subseteq Event
    /\ acked \subseteq Event
    /\ faults \in 0 .. MaxFaults

Sane == /\ TypeOK
        /\ Handlers
        /\ FulfilJobs
        /\ ProvisionJobs
        /\ PaymentRows

------------------------------------------------------------------------------
(* Rows.                                                                   *)

(* The parts of TypeOK.                                                    *)
LEMMA Parts ==
    TypeOK <=> /\ RowsOK
               /\ fq \in [Refs -> FulfilJob]
               /\ pq \in [Orders \cup Vouchers -> ProvisionJob]
               /\ proc \in [Procs -> Handler]
BY DEF TypeOK, RowsOK

(* A fault counts up to its bound.                                         *)
LEMMA FaultType ==
    ASSUME faults \in 0 .. MaxFaults, Fault
    PROVE  faults' \in 0 .. MaxFaults
BY CheckoutAssumption DEF Fault

(* A step that writes no row keeps the rows typed.                         *)
LEMMA RowsStay ==
    ASSUME RowsOK, PaymentRows, UNCHANGED <<order, payment, voucher, session, recorded>>,
           UNCHANGED gateway, faults' = faults \/ Fault
    PROVE  RowsOK' /\ PaymentRows'
<1>1. faults' \in 0 .. MaxFaults
  BY FaultType DEF RowsOK
<1>2. QED
  BY <1>1 DEF RowsOK, PaymentRows, gateway

(* A step that leaves the payments alone keeps what is said of them.       *)
LEMMA PaymentsStay ==
    ASSUME PaymentRows, payment' = payment
    PROVE  PaymentRows'
BY DEF PaymentRows

------------------------------------------------------------------------------
(* Handlers.                                                               *)

(* An idle handler.                                                        *)
LEMMA IdleType ==
    /\ Idle \in Handler
    /\ Idle.pc = "idle" /\ Idle.o = None /\ Idle.r = None /\ Idle.v = None
    /\ Idle.ev = None /\ Idle.todo = {} /\ Idle.flag = FALSE
BY DEF Idle, Handler, PC

(* An idle handler fits everywhere.                                        *)
LEMMA IdleFits == ASSUME NEW p PROVE Fits(p, Idle) /\ HasRow(Idle) /\ HasRow(Idle)'
BY IdleType DEF Fits, HasRow, RowPC, RefPC, HeldPC, VoucherPC, OrderPC, MintingPC, HookPC,
   FulfilPC, VerifyPC, ApprovePC

(* A handler that starts.                                                  *)
Fresh(pc, o, r) == [Idle EXCEPT !.pc = pc, !.o = o, !.r = r]

(* It is typed, and fits where nothing is in hand.                         *)
LEMMA FreshType ==
    ASSUME NEW pc \in PC, NEW o \in Orders \cup {None}, NEW r \in Refs \cup {None}
    PROVE  /\ Fresh(pc, o, r) \in Handler
           /\ Fresh(pc, o, r).pc = pc /\ Fresh(pc, o, r).o = o /\ Fresh(pc, o, r).r = r
           /\ Fresh(pc, o, r).v = None /\ Fresh(pc, o, r).ev = None
           /\ Fresh(pc, o, r).todo = {} /\ Fresh(pc, o, r).flag = FALSE
BY DEF Fresh, Idle, Handler

(* A handler that goes on to pc.                                           *)
On(h, pc) == [h EXCEPT !.pc = pc]

(* It is a handler still, and carries what it carried.                     *)
LEMMA OnType ==
    ASSUME NEW h \in Handler, NEW pc \in PC
    PROVE  /\ On(h, pc) \in Handler
           /\ On(h, pc).pc = pc /\ On(h, pc).o = h.o /\ On(h, pc).r = h.r
           /\ On(h, pc).v = h.v /\ On(h, pc).ev = h.ev
           /\ On(h, pc).todo = h.todo /\ On(h, pc).flag = h.flag
BY DEF On, Handler

(* One handler moves and the others stay.                                  *)
LEMMA OneMoves ==
    ASSUME proc \in [Procs -> Handler], NEW p \in Procs, NEW h \in Handler,
           proc' = [proc EXCEPT ![p] = h]
    PROVE  /\ proc' \in [Procs -> Handler]
           /\ proc'[p] = h
           /\ \A q \in Procs \ {p} : proc'[q] = proc[q]
           /\ \A q \in Procs : proc'[q] = IF q = p THEN h ELSE proc[q]
OBVIOUS

(* Who is what.                                                            *)
LEMMA Kinds ==
    /\ Requests \subseteq Procs /\ FulfilWorkers \subseteq Procs
    /\ ProvisionWorkers \subseteq Procs
    /\ \A p \in Requests : p \notin FulfilWorkers /\ p \notin ProvisionWorkers
    /\ \A p \in FulfilWorkers : p \notin Requests /\ p \notin ProvisionWorkers
    /\ \A p \in ProvisionWorkers : p \notin Requests /\ p \notin FulfilWorkers
BY CheckoutAssumption DEF Procs

------------------------------------------------------------------------------
(* Jobs.                                                                   *)

(* The jobs the queues begin with, add and retry are typed.                *)
LEMMA NoJobType == NoJob \in FulfilJob /\ NoJob \in ProvisionJob /\ Live(NoJob)
BY CheckoutAssumption DEF NoJob, FulfilJob, ProvisionJob, JobState, Live

(* A job just added is a job, with an attempt left.                        *)
LEMMA NewJobType ==
    /\ NewJob(FulfilAttempts) \in FulfilJob /\ Live(NewJob(FulfilAttempts))
    /\ NewJob(ProvisionAttempts) \in ProvisionJob /\ Live(NewJob(ProvisionAttempts))
BY CheckoutAssumption DEF NewJob, FulfilJob, ProvisionJob, JobState, Live

(* An attempt that failed, of a job that had one left.                     *)
LEMMA RetriedRow ==
    ASSUME NEW n \in Nat,
           NEW job \in [st : JobState, left : 0 .. n, stalled : BOOLEAN], job.left > 0
    PROVE  /\ Retried(job) \in [st : JobState, left : 0 .. n, stalled : BOOLEAN]
           /\ Live(Retried(job))
           /\ Retried(job).st # "none"
<1> DEFINE st == IF job.left > 1 THEN "waiting" ELSE "failed"
           left == job.left - 1
<1>1. st \in JobState /\ left \in 0 .. n /\ (st = "waiting" => left > 0) /\ st # "active"
  BY DEF JobState
<1>2. Retried(job) = [job EXCEPT !.st = st, !.left = left]
  BY DEF Retried
<1>3. st # "none"
  OBVIOUS
<1> HIDE DEF st, left
<1>4. /\ Retried(job) \in [st : JobState, left : 0 .. n, stalled : BOOLEAN]
      /\ Retried(job).st = st /\ Retried(job).left = left
  BY <1>1, <1>2
<1>5. QED
  BY <1>1, <1>3, <1>4 DEF Live

(* A job whose attempt failed is a job of its queue still.                 *)
LEMMA RetriedType ==
    /\ \A job \in FulfilJob : job.st = "active" /\ Live(job) =>
          Retried(job) \in FulfilJob /\ Live(Retried(job)) /\ Retried(job).st # "none"
    /\ \A job \in ProvisionJob : job.st = "active" /\ Live(job) =>
          Retried(job) \in ProvisionJob /\ Live(Retried(job)) /\ Retried(job).st # "none"
BY RetriedRow, CheckoutAssumption DEF FulfilJob, ProvisionJob, Live

(* A job taken for stalled.                                                *)
LEMMA StalledType ==
    /\ \A job \in FulfilJob : Live(job) => Stalled(job) \in FulfilJob /\ Live(Stalled(job))
    /\ \A job \in ProvisionJob :
          Live(job) => Stalled(job) \in ProvisionJob /\ Live(Stalled(job))
BY DEF Stalled, FulfilJob, ProvisionJob, JobState, Live

(* A job taken up.                                                         *)
LEMMA TakenType ==
    /\ \A job \in FulfilJob : job.st = "waiting" /\ Live(job) =>
          LET t == [job EXCEPT !.st = "active"] IN
          t \in FulfilJob /\ Live(t) /\ t.st = "active"
    /\ \A job \in ProvisionJob : job.st = "waiting" /\ Live(job) =>
          LET t == [job EXCEPT !.st = "active"] IN
          t \in ProvisionJob /\ Live(t) /\ t.st = "active"
BY DEF FulfilJob, ProvisionJob, JobState, Live

(* A fulfilment job is untouched by other handlers, and by its own while   *)
(* it goes on.                                                             *)
LEMMA FulfilKept ==
    ASSUME Sane, NEW p \in Procs, NEW h \in Handler, proc' = [proc EXCEPT ![p] = h],
           fq' = fq,
           p \in FulfilWorkers => ~Free(p) /\ h.pc # "idle" /\ h.r = proc[p].r
    PROVE  FulfilJobs'
<1>1. \A q \in Procs : proc'[q] = IF q = p THEN h ELSE proc[q]
  BY OneMoves, Parts DEF Sane
<1>2. \A w \in FulfilWorkers : /\ proc'[w].pc = "idle" <=> Free(w)
                               /\ ~Free(w) => proc'[w].r = proc[w].r
  BY <1>1, Kinds DEF Free, At
<1>3. QED
  BY <1>2 DEF Sane, FulfilJobs, Free, At

(* The handler returns: its job is gone, and nobody else's.                *)
LEMMA FulfilReturned ==
    ASSUME Sane, NEW p \in Procs, p \in FulfilWorkers => ~Free(p), Return(p)
    PROVE  FulfilJobs' /\ fq' \in [Refs -> FulfilJob]
<1>1. fq \in [Refs -> FulfilJob] /\ proc \in [Procs -> Handler]
  BY Parts DEF Sane
<1>2. \A q \in Procs : proc'[q] = IF q = p THEN Idle ELSE proc[q]
  BY <1>1, IdleType, OneMoves DEF Return
<1>3. CASE p \in FulfilWorkers
  <2>1. fq' = [fq EXCEPT ![proc[p].r] = NoJob]
    BY <1>3 DEF Return
  <2>2. fq' \in [Refs -> FulfilJob]
    BY <1>1, <2>1, NoJobType
  <2>3. \A r \in Refs : Live(fq'[r])
    BY <1>1, <2>1, NoJobType DEF Sane, FulfilJobs
  <2>4. ASSUME NEW w \in FulfilWorkers, proc'[w].pc # "idle"
        PROVE  /\ proc'[w] = proc[w] /\ proc[w].pc # "idle"
               /\ fq'[proc[w].r].st = "active"
    <3>1. w # p /\ w \in Procs
      BY <1>2, <2>4, IdleType, Kinds
    <3>2. proc'[w] = proc[w] /\ proc[w].pc # "idle"
      BY <1>2, <2>4, <3>1
    <3>3. /\ fq[proc[w].r].st = "active"
          /\ proc[w].r # proc[p].r
      BY <1>3, <3>1, <3>2 DEF Sane, FulfilJobs, Free, At
    <3>4. proc[w].r \in Refs
      BY <3>1, <3>2 DEF Sane, Handlers, Fits
    <3>5. QED
      BY <1>1, <2>1, <3>2, <3>3, <3>4
  <2>5. QED
    BY <2>2, <2>3, <2>4 DEF Sane, FulfilJobs, Free, At
<1>4. CASE p \notin FulfilWorkers
  <2>1. fq' = fq
    BY <1>4 DEF Return
  <2>2. QED
    BY <1>1, <1>4, <2>1, IdleType, FulfilKept DEF Return
<1>5. QED
  BY <1>3, <1>4

(* A job is added by somebody else.                                        *)
LEMMA FulfilAdded ==
    ASSUME Sane, NEW p \in Procs, NEW h \in Handler, proc' = [proc EXCEPT ![p] = h],
           p \notin FulfilWorkers, NEW r \in Refs, fq' = FulfilAdd(r)
    PROVE  FulfilJobs' /\ fq' \in [Refs -> FulfilJob]
<1>1. fq \in [Refs -> FulfilJob] /\ proc \in [Procs -> Handler]
  BY Parts DEF Sane
<1>2. \A w \in FulfilWorkers : proc'[w] = proc[w]
  BY <1>1, OneMoves, Kinds
<1>3. CASE fq[r].st = "none"
  <2>1. fq' = [fq EXCEPT ![r] = NewJob(FulfilAttempts)]
    BY <1>3 DEF FulfilAdd
  <2>2. /\ fq' \in [Refs -> FulfilJob]
        /\ \A s \in Refs : s # r => fq'[s] = fq[s]
        /\ \A s \in Refs : Live(fq'[s])
    BY <1>1, <2>1, NewJobType DEF Sane, FulfilJobs
  <2>3. \A w \in FulfilWorkers : ~Free(w) => proc[w].r # r /\ proc[w].r \in Refs
    BY <1>3, Kinds DEF Sane, FulfilJobs, Handlers, Fits, Free, At
  <2>4. \A w \in FulfilWorkers : ~Free(w) => fq'[proc[w].r].st = "active"
    BY <2>2, <2>3 DEF Sane, FulfilJobs
  <2>5. QED
    BY <1>2, <2>2, <2>4 DEF Sane, FulfilJobs, Free, At
<1>4. CASE fq[r].st # "none"
  BY <1>1, <1>2, <1>4 DEF FulfilAdd, Sane, FulfilJobs, Free, At
<1>5. QED
  BY <1>3, <1>4

(* A worker that is not idle has a job in hand.                            *)
LEMMA JobType ==
    ASSUME Sane, NEW w \in ProvisionWorkers, ~Free(w)
    PROVE  /\ JobOf(w) \in Orders \cup Vouchers
           /\ pq[JobOf(w)].st = "active"
           /\ proc[w].pc \in OrderPC => JobOf(w) = proc[w].o
           /\ proc[w].pc \in VoucherPC => JobOf(w) = proc[w].v
           /\ proc[w].pc \in OrderPC \/ proc[w].pc \in VoucherPC
<1>1. Fits(w, proc[w])
  BY Kinds DEF Sane, Handlers
<1>2. proc[w].pc \in OrderPC \/ proc[w].pc \in VoucherPC
  BY <1>1 DEF Fits, Free, At
<1>3. proc[w].pc \in OrderPC => JobOf(w) = proc[w].o /\ proc[w].o \in Orders
  BY <1>1 DEF Fits, JobOf, OrderPC, HeldPC
<1>4. proc[w].pc \in VoucherPC => JobOf(w) = proc[w].v /\ proc[w].v \in Vouchers
  BY <1>1 DEF Fits, JobOf, VoucherPC
<1>5. QED
  BY <1>2, <1>3, <1>4 DEF Sane, ProvisionJobs

(* A provisioning job is untouched by other handlers, and by its own while *)
(* it goes on with the same order or voucher.                              *)
LEMMA ProvisionKept ==
    ASSUME Sane, NEW p \in Procs, NEW h \in Handler, proc' = [proc EXCEPT ![p] = h],
           pq' = pq,
           p \in ProvisionWorkers =>
               /\ ~Free(p)
               /\ \/ h.pc \in OrderPC /\ proc[p].pc \in OrderPC /\ h.o = proc[p].o
                  \/ h.pc \in VoucherPC /\ proc[p].pc \in VoucherPC /\ h.v = proc[p].v
    PROVE  ProvisionJobs'
<1>1. \A q \in Procs : proc'[q] = IF q = p THEN h ELSE proc[q]
  BY OneMoves, Parts DEF Sane
<1>2. ASSUME NEW w \in ProvisionWorkers
      PROVE  (proc'[w].pc = "idle" <=> Free(w)) /\ (~Free(w) => JobOf(w)' = JobOf(w))
  <2>1. CASE w # p
    BY <1>1, <2>1, Kinds DEF Free, At, JobOf
  <2>2. CASE w = p
    BY <1>1, <2>2, Kinds DEF Free, At, JobOf, OrderPC, VoucherPC
  <2>3. QED
    BY <2>1, <2>2
<1>3. QED
  BY <1>2 DEF Sane, ProvisionJobs, Free, At

(* A job is added by somebody else, or by nobody that runs.                *)
LEMMA ProvisionAdded ==
    ASSUME Sane, NEW j \in Orders \cup Vouchers, pq' = ProvisionAdd(j),
           \A w \in ProvisionWorkers : proc'[w] = proc[w]
    PROVE  ProvisionJobs' /\ pq' \in [Orders \cup Vouchers -> ProvisionJob]
<1>1. pq \in [Orders \cup Vouchers -> ProvisionJob]
  BY Parts DEF Sane
<1>2. \A w \in ProvisionWorkers : JobOf(w)' = JobOf(w) /\ (Free(w)' <=> Free(w))
  BY DEF JobOf, Free, At
<1>3. CASE pq[j].st = "none"
  <2>1. pq' = [pq EXCEPT ![j] = NewJob(ProvisionAttempts)]
    BY <1>3 DEF ProvisionAdd
  <2>2. /\ pq' \in [Orders \cup Vouchers -> ProvisionJob]
        /\ \A s \in Orders \cup Vouchers : s # j => pq'[s] = pq[s]
        /\ \A s \in Orders \cup Vouchers : Live(pq'[s])
    BY <1>1, <2>1, NewJobType DEF Sane, ProvisionJobs
  <2>3. \A w \in ProvisionWorkers : ~Free(w) => JobOf(w) # j /\ JobOf(w) \in Orders \cup Vouchers
    BY <1>3, JobType
  <2>4. \A w \in ProvisionWorkers : ~Free(w) => pq'[JobOf(w)].st = "active"
    BY <2>2, <2>3, JobType
  <2>5. QED
    BY <1>2, <2>2, <2>4 DEF Sane, ProvisionJobs
<1>4. CASE pq[j].st # "none"
  BY <1>1, <1>2, <1>4 DEF ProvisionAdd, Sane, ProvisionJobs
<1>5. QED
  BY <1>3, <1>4

(* The worker is done: its job is gone, and nobody else's.                 *)
LEMMA ProvisionCompleted ==
    ASSUME Sane, NEW p \in ProvisionWorkers, ~Free(p), Complete(p)
    PROVE  ProvisionJobs' /\ pq' \in [Orders \cup Vouchers -> ProvisionJob]
<1>1. pq \in [Orders \cup Vouchers -> ProvisionJob] /\ proc \in [Procs -> Handler]
      /\ p \in Procs
  BY Parts, Kinds DEF Sane
<1>2. \A q \in Procs : proc'[q] = IF q = p THEN Idle ELSE proc[q]
  BY <1>1, IdleType, OneMoves DEF Complete
<1>3. pq' = [pq EXCEPT ![JobOf(p)] = NoJob]
  BY DEF Complete
<1>4. pq' \in [Orders \cup Vouchers -> ProvisionJob]
  BY <1>1, <1>3, NoJobType
<1>5. \A j \in Orders \cup Vouchers : Live(pq'[j])
  BY <1>1, <1>3, NoJobType DEF Sane, ProvisionJobs
<1>6. ASSUME NEW w \in ProvisionWorkers, ~Free(w)'
      PROVE  ~Free(w) /\ JobOf(w)' = JobOf(w) /\ pq'[JobOf(w)].st = "active"
  <2>1. w # p /\ w \in Procs
    BY <1>2, <1>6, IdleType, Kinds DEF Free, At
  <2>2. ~Free(w) /\ JobOf(w)' = JobOf(w)
    BY <1>2, <1>6, <2>1 DEF Free, At, JobOf
  <2>3. JobOf(w) # JobOf(p)
    BY <2>1, <2>2 DEF Sane, ProvisionJobs
  <2>4. QED
    BY <1>1, <1>3, <2>2, <2>3, JobType
<1>7. QED
  BY <1>4, <1>5, <1>6 DEF Sane, ProvisionJobs

------------------------------------------------------------------------------
(* Turns.                                                                  *)

(* A request or a fulfilment worker goes on.                               *)
Turn(p, h) ==
    /\ h \in Handler
    /\ Fits(p, h)
    /\ HasRow(h)
    /\ proc' = [proc EXCEPT ![p] = h]
    /\ p \in FulfilWorkers => ~Free(p) /\ h.pc # "idle" /\ h.r = proc[p].r

(* A payment row that is there stays there.                                *)
RowsLast == \A o \in Orders : payment[o].st # "NONE" => payment'[o].st # "NONE"

(* What the rows and the provisioning queue may do meanwhile.              *)
Around ==
    /\ RowsOK'
    /\ PaymentRows'
    /\ RowsLast
    /\ pq' = pq \/ \E j \in Orders \cup Vouchers : pq' = ProvisionAdd(j)

(* A turn of one handler that at most adds a job keeps Sane.               *)
LEMMA TurnSane ==
    ASSUME Sane, NEW p \in Requests \cup FulfilWorkers, NEW h, Turn(p, h), Around,
           \/ fq' = fq
           \/ p \in Requests /\ \E r \in Refs : fq' = FulfilAdd(r)
    PROVE  Sane'
<1>1. p \in Procs /\ p \notin ProvisionWorkers /\ (p \in Requests => p \notin FulfilWorkers)
  BY Kinds
<1>2. /\ proc \in [Procs -> Handler] /\ fq \in [Refs -> FulfilJob]
      /\ pq \in [Orders \cup Vouchers -> ProvisionJob]
  BY Parts DEF Sane
<1>3. h \in Handler /\ proc' = [proc EXCEPT ![p] = h]
  BY DEF Turn
<1>4. proc' \in [Procs -> Handler] /\ \A q \in Procs : proc'[q] = IF q = p THEN h ELSE proc[q]
  BY <1>1, <1>2, <1>3, OneMoves
<1>5. Handlers'
  <2>1. ASSUME NEW q \in Procs PROVE Fits(q, proc[q])'
    BY <1>4 DEF Sane, Handlers, Fits, Turn
  <2>2. ASSUME NEW q \in Procs PROVE HasRow(proc[q])'
    <3>1. Fits(q, proc[q])' /\ (proc'[q].pc \in RowPC => payment[proc'[q].o].st # "NONE")
      BY <1>4, <2>1 DEF Sane, Handlers, HasRow, Turn
    <3>2. proc'[q].pc \in RowPC => proc'[q].o \in Orders
      BY <3>1 DEF Fits, RowPC, HeldPC
    <3>3. QED
      BY <3>1, <3>2 DEF HasRow, Around, RowsLast
  <2>3. QED
    BY <2>1, <2>2 DEF Handlers
<1>6. FulfilJobs' /\ fq' \in [Refs -> FulfilJob]
  <2>1. CASE fq' = fq
    BY <1>1, <1>2, <1>3, <2>1, FulfilKept DEF Turn
  <2>2. CASE p \in Requests /\ \E r \in Refs : fq' = FulfilAdd(r)
    BY <1>1, <1>3, <2>2, FulfilAdded
  <2>3. QED
    BY <2>1, <2>2
<1>7. ProvisionJobs' /\ pq' \in [Orders \cup Vouchers -> ProvisionJob]
  <2>1. CASE pq' = pq
    BY <1>1, <1>2, <1>3, <2>1, ProvisionKept
  <2>2. CASE \E j \in Orders \cup Vouchers : pq' = ProvisionAdd(j)
    <3>1. \A w \in ProvisionWorkers : proc'[w] = proc[w]
      BY <1>1, <1>4, Kinds
    <3>2. QED
      BY <2>2, <3>1, ProvisionAdded
  <2>3. QED
    BY <2>1, <2>2 DEF Around
<1>8. TypeOK'
  BY <1>4, <1>6, <1>7 DEF Around, TypeOK, RowsOK
<1>9. QED
  BY <1>5, <1>6, <1>7, <1>8 DEF Sane, Around

(* It returns.                                                             *)
LEMMA ReturnSane ==
    ASSUME Sane, NEW p \in Requests \cup FulfilWorkers, ~Free(p), Return(p), Around
    PROVE  Sane'
<1>1. p \in Procs /\ p \notin ProvisionWorkers
  BY Kinds
<1>2. /\ proc \in [Procs -> Handler] /\ proc' = [proc EXCEPT ![p] = Idle]
      /\ pq \in [Orders \cup Vouchers -> ProvisionJob]
  BY Parts DEF Sane, Return
<1>3. proc' \in [Procs -> Handler] /\ \A q \in Procs : proc'[q] = IF q = p THEN Idle ELSE proc[q]
  BY <1>1, <1>2, IdleType, OneMoves
<1>4. Handlers'
  <2>1. ASSUME NEW q \in Procs PROVE Fits(q, proc[q])'
    BY <1>3, IdleFits DEF Sane, Handlers, Fits
  <2>2. ASSUME NEW q \in Procs PROVE HasRow(proc[q])'
    BY <1>3, IdleFits DEF Sane, Handlers, HasRow, RowPC, Fits, HeldPC, Around, RowsLast
  <2>3. QED
    BY <2>1, <2>2 DEF Handlers
<1>5. FulfilJobs' /\ fq' \in [Refs -> FulfilJob]
  BY <1>1, FulfilReturned
<1>6. ProvisionJobs' /\ pq' \in [Orders \cup Vouchers -> ProvisionJob]
  <2>1. CASE pq' = pq
    BY <1>1, <1>2, <2>1, IdleType, ProvisionKept
  <2>2. CASE \E j \in Orders \cup Vouchers : pq' = ProvisionAdd(j)
    <3>1. \A w \in ProvisionWorkers : proc'[w] = proc[w]
      BY <1>1, <1>3, Kinds
    <3>2. QED
      BY <2>2, <3>1, ProvisionAdded
  <2>3. QED
    BY <2>1, <2>2 DEF Around
<1>7. TypeOK'
  BY <1>3, <1>5, <1>6 DEF Around, TypeOK, RowsOK
<1>8. QED
  BY <1>4, <1>5, <1>6, <1>7 DEF Sane, Around

(* A request is answered: it has no job to remove.                         *)
LEMMA Answered ==
    ASSUME Sane, NEW p \in Requests, proc' = [proc EXCEPT ![p] = Idle], fq' = fq
    PROVE  Return(p)
BY Kinds DEF Return

(* A step of nobody that runs.                                             *)
LEMMA OutsideSane ==
    ASSUME Sane, proc' = proc, fq' = fq, Around
    PROVE  Sane'
<1>1. FulfilJobs' /\ Handlers'
  <2>1. FulfilJobs' /\ \A p \in Procs : Fits(p, proc[p])'
    BY DEF Sane, FulfilJobs, Handlers, Free, At, Fits
  <2>2. \A p \in Procs : proc[p].pc \in RowPC => proc[p].o \in Orders
    BY DEF Sane, Handlers, Fits, RowPC, HeldPC
  <2>3. \A p \in Procs : HasRow(proc[p])'
    BY <2>2 DEF Sane, Handlers, HasRow, Around, RowsLast
  <2>4. QED
    BY <2>1, <2>3 DEF Handlers
<1>2. ProvisionJobs' /\ pq' \in [Orders \cup Vouchers -> ProvisionJob]
  <2>1. CASE pq' = pq
    BY <2>1 DEF Sane, ProvisionJobs, Free, At, JobOf, TypeOK
  <2>2. CASE \E j \in Orders \cup Vouchers : pq' = ProvisionAdd(j)
    BY <2>2, ProvisionAdded
  <2>3. QED
    BY <2>1, <2>2 DEF Around
<1>3. TypeOK'
  BY <1>2 DEF Around, TypeOK, RowsOK, Sane
<1>4. QED
  BY <1>1, <1>2, <1>3 DEF Sane, Around

(* A provisioning worker goes on with its job, or is done with it.         *)
LEMMA WorkerSane ==
    ASSUME Sane, NEW w \in ProvisionWorkers, ~Free(w), RowsOK', payment' = payment, fq' = fq,
           \/ Complete(w)
           \/ /\ pq' = pq
              /\ \E h \in Handler :
                    /\ proc' = [proc EXCEPT ![w] = h]
                    /\ Fits(w, h)
                    /\ \/ h.pc \in OrderPC /\ proc[w].pc \in OrderPC /\ h.o = proc[w].o
                       \/ h.pc \in VoucherPC /\ proc[w].pc \in VoucherPC /\ h.v = proc[w].v
    PROVE  Sane'
<1>1. w \in Procs /\ w \notin FulfilWorkers
  BY Kinds
<1>2. /\ proc \in [Procs -> Handler] /\ fq \in [Refs -> FulfilJob]
      /\ pq \in [Orders \cup Vouchers -> ProvisionJob]
  BY Parts DEF Sane
<1>3. PICK h \in Handler : proc' = [proc EXCEPT ![w] = h] /\ Fits(w, h)
  BY IdleType, IdleFits DEF Complete
<1>4. proc' \in [Procs -> Handler] /\ \A q \in Procs : proc'[q] = IF q = w THEN h ELSE proc[q]
  BY <1>1, <1>2, <1>3, OneMoves
<1>5. Handlers'
  <2>1. Fits(w, h) => HasRow(h)
    BY Kinds DEF Fits, HasRow, RowPC, OrderPC, VoucherPC, VerifyPC
  <2>2. \A q \in Procs : Fits(q, proc[q])'
    BY <1>3, <1>4 DEF Sane, Handlers, Fits
  <2>3. \A q \in Procs : HasRow(proc[q])'
    BY <1>3, <1>4, <2>1 DEF Sane, Handlers, HasRow
  <2>4. QED
    BY <2>2, <2>3 DEF Handlers
<1>6. FulfilJobs' /\ fq' \in [Refs -> FulfilJob]
  BY <1>1, <1>2, <1>3, FulfilKept
<1>7. ProvisionJobs' /\ pq' \in [Orders \cup Vouchers -> ProvisionJob]
  <2>1. CASE Complete(w)
    BY <2>1, ProvisionCompleted
  <2>2. CASE ~Complete(w)
    BY <1>1, <1>2, <2>2, ProvisionKept
  <2>3. QED
    BY <2>1, <2>2
<1>8. TypeOK'
  BY <1>4, <1>6, <1>7 DEF TypeOK, RowsOK
<1>9. QED
  BY <1>5, <1>6, <1>7, <1>8, PaymentsStay DEF Sane

(* A request starts.                                                       *)
LEMMA StartTurn ==
    ASSUME Sane, NEW p \in Requests, NEW pc \in PC,
           NEW o \in Orders \cup {None}, NEW r \in Refs \cup {None}, Start(p, pc, o, r),
           pc \in RefPC => r \in Refs,
           pc \in HeldPC => o \in Orders,
           pc \in RowPC => payment[o].st # "NONE",
           pc \notin VoucherPC \cup OrderPC \cup HookPC \cup {"redeem_enqueue"}
    PROVE  Turn(p, Fresh(pc, o, r))
<1>1. PICK h : h = Fresh(pc, o, r)
  OBVIOUS
<1>2. proc' = [proc EXCEPT ![p] = h] /\ h \in Handler /\ h.pc = pc /\ h.o = o /\ h.r = r
  BY <1>1 DEF Start, Fresh, Idle, Handler
<1>3. p \notin FulfilWorkers /\ p \notin ProvisionWorkers
  BY Kinds
<1>4. Fits(p, h) /\ HasRow(h)
  BY <1>2, <1>3 DEF Fits, HasRow
<1>5. Turn(p, h)
  BY <1>2, <1>3, <1>4 DEF Turn
<1>6. QED
  BY <1>1, <1>5

(* A handler goes on, with what it has in hand.                            *)
LEMMA GotoTurn ==
    ASSUME Sane, NEW p \in Requests \cup FulfilWorkers, ~Free(p), NEW pc \in PC, Goto(p, pc),
           pc \in RefPC => proc[p].r \in Refs,
           pc \in HeldPC => proc[p].o \in Orders,
           pc \in HookPC => proc[p].ev \in EventType,
           pc \in RowPC => payment[proc[p].o].st # "NONE",
           pc \notin VoucherPC \cup OrderPC \cup {"redeem_enqueue", "idle"},
           p \in FulfilWorkers => pc \in FulfilPC \cup {"enqueue"}
    PROVE  Turn(p, On(proc[p], pc))
<1>1. proc[p] \in Handler /\ Fits(p, proc[p]) /\ p \notin ProvisionWorkers
  BY Parts, Kinds DEF Sane, Handlers
<1>2. proc' = [proc EXCEPT ![p] = On(proc[p], pc)]
  BY DEF Goto, On
<1>3. p \in FulfilWorkers => proc[p].r \in Refs
  BY <1>1 DEF Fits, Free, At
<1>4. Fits(p, On(proc[p], pc)) /\ HasRow(On(proc[p], pc))
  BY <1>1, <1>3, OnType, Kinds DEF Fits, HasRow
<1>5. QED
  BY <1>1, <1>2, <1>4, OnType DEF Turn

(* A step that writes no row.                                              *)
LEMMA QuietAround ==
    ASSUME Sane, UNCHANGED <<order, payment, voucher, session, recorded>>,
           UNCHANGED gateway, faults' = faults \/ Fault,
           pq' = pq \/ \E j \in Orders \cup Vouchers : pq' = ProvisionAdd(j)
    PROVE  Around
BY RowsStay, Parts DEF Sane, Around, RowsLast

(* A step that writes no row.                                              *)
LEMMA QuietSane ==
    ASSUME Sane, NEW p \in Requests \cup FulfilWorkers,
           UNCHANGED <<order, payment, voucher, session, recorded>>, UNCHANGED gateway,
           faults' = faults \/ Fault,
           pq' = pq \/ \E j \in Orders \cup Vouchers : pq' = ProvisionAdd(j),
           \/ fq' = fq /\ \E h \in Handler : Turn(p, h)
           \/ ~Free(p) /\ Return(p)
    PROVE  Sane'
BY QuietAround, TurnSane, ReturnSane

(* What a handler has in hand.                                             *)
LEMMA InHand ==
    ASSUME Sane, NEW p \in Procs
    PROVE  /\ proc[p] \in Handler
           /\ proc[p].pc \in RefPC => proc[p].r \in Refs
           /\ proc[p].pc \in HeldPC => proc[p].o \in Orders
           /\ proc[p].pc \in VoucherPC \cup {"redeem_enqueue"} => proc[p].v \in Vouchers
           /\ proc[p].pc \in HookPC => proc[p].ev \in EventType /\ proc[p].r \in Refs
           /\ proc[p].pc \in RowPC => payment[proc[p].o].st # "NONE"
           /\ p \in FulfilWorkers => /\ proc[p].pc \in FulfilPC \cup {"idle", "enqueue"}
                                     /\ ~Free(p) => proc[p].r \in Refs
BY Parts DEF Sane, Handlers, Fits, HasRow, RefPC, Free, At

(* The locals of a handler that goes on to pc.                             *)
LEMMA OnTurn ==
    ASSUME Sane, NEW p \in Requests \cup FulfilWorkers, NEW pc \in PC,
           NEW h \in Handler, proc' = [proc EXCEPT ![p] = h], h.pc = pc, h.r = proc[p].r,
           ~Free(p), pc \in RefPC => h.r \in Refs,
           pc \in HeldPC => h.o \in Orders,
           pc \in HookPC => h.ev \in EventType,
           pc \in RowPC => payment[h.o].st # "NONE",
           pc \notin VoucherPC \cup OrderPC \cup {"redeem_enqueue", "idle"},
           p \in FulfilWorkers => pc \in FulfilPC \cup {"enqueue"}
    PROVE  Turn(p, h)
<1>1. p \in FulfilWorkers => proc[p].r \in Refs
  BY InHand, Kinds
<1>2. QED
  BY <1>1, Kinds DEF Turn, Fits, HasRow

(* A new voucher, or a change of one's status, is a row.                   *)
LEMMA VoucherRows ==
    ASSUME RowsOK, NEW v \in Vouchers
    PROVE  /\ \A o \in Orders \cup {None} :
                 [voucher EXCEPT ![v] = [st |-> "ACTIVE", pay |-> o]] \in [Vouchers -> VoucherRow]
           /\ \A st \in VoucherStatus :
                 [voucher EXCEPT ![v].st = st] \in [Vouchers -> VoucherRow]
BY DEF RowsOK, VoucherRow, VoucherStatus

(* A payment settled, or its settlement taken back, is a row.              *)
LEMMA PaymentSettled ==
    ASSUME RowsOK, PaymentRows, NEW o \in Orders, payment[o].st # "NONE",
           NEW st \in PaymentStatus \ {"NONE", "PENDING"}, NEW tx \in Refs \cup {None},
           \/ payment' = [payment EXCEPT ![o].st = st, ![o].tx = tx]
           \/ payment' = [payment EXCEPT ![o].st = st]
    PROVE  payment' \in [Orders -> PaymentRow] /\ PaymentRows' /\ RowsLast
<1>1. payment \in [Orders -> PaymentRow] /\ payment[o] \in PaymentRow
  BY DEF RowsOK
<1>2. /\ payment' \in [Orders -> PaymentRow]
      /\ payment'[o].st = st /\ payment'[o].ref = payment[o].ref
      /\ payment'[o].manual = payment[o].manual
      /\ \A u \in Orders : u # o => payment'[u] = payment[u]
  BY <1>1 DEF PaymentRow
<1>3. QED
  BY <1>2 DEF PaymentRows, RowsLast

------------------------------------------------------------------------------
(* The fulfilment handler.                                                 *)

(* The places of a handler, by what they carry.                            *)
LEMMA FulfilPlaces ==
    /\ \A pc \in FulfilPC : pc \in PC /\ pc \in RefPC /\ pc \notin HookPC
    /\ \A pc \in FulfilPC \cup {"enqueue"} :
          pc \notin VoucherPC \cup OrderPC \cup {"redeem_enqueue", "idle"}
    /\ "enqueue" \in PC /\ "enqueue" \in HeldPC /\ "enqueue" \notin RefPC
    /\ "enqueue" \notin HookPC /\ "enqueue" \notin RowPC
    /\ \A pc \in {"ful_verify", "ful_load"} : pc \notin HeldPC /\ pc \notin RowPC
    /\ \A pc \in {"ful_underpaid", "ful_read", "ful_commit"} : pc \in HeldPC /\ pc \in RowPC
BY DEF FulfilPC, PC, RefPC, HookPC, VoucherPC, OrderPC, HeldPC, RowPC, MintingPC, VerifyPC,
   ApprovePC

(* A worker takes a job, which is nobody's yet.                            *)
LEMMA TakeFulfilJobSane ==
    ASSUME Sane, NEW w \in FulfilWorkers, NEW r \in Refs, TakeFulfilJob(w, r)
    PROVE  Sane'
<1>1. PICK h : h = Fresh("ful_verify", None, r)
  OBVIOUS
<1>2. /\ proc' = [proc EXCEPT ![w] = h] /\ h \in Handler
      /\ h.pc = "ful_verify" /\ h.r = r
  BY <1>1 DEF TakeFulfilJob, Start, Fresh, Idle, Handler, PC
<1>3. /\ proc \in [Procs -> Handler] /\ fq \in [Refs -> FulfilJob]
      /\ w \in Procs /\ w \notin Requests /\ w \notin ProvisionWorkers
  BY Parts, Kinds DEF Sane
<1>4. proc' \in [Procs -> Handler] /\ \A q \in Procs : proc'[q] = IF q = w THEN h ELSE proc[q]
  BY <1>2, <1>3, OneMoves
<1>5. fq[r] \in FulfilJob /\ fq[r].st = "waiting" /\ Live(fq[r])
  BY <1>3 DEF TakeFulfilJob, Sane, FulfilJobs
<1>6. PICK t \in FulfilJob : fq' = [fq EXCEPT ![r] = t] /\ Live(t) /\ t.st = "active"
  BY <1>5, TakenType DEF TakeFulfilJob
<1>7. /\ fq' \in [Refs -> FulfilJob] /\ \A s \in Refs : Live(fq'[s])
      /\ fq'[r].st = "active" /\ \A s \in Refs : s # r => fq'[s] = fq[s]
  BY <1>3, <1>6 DEF Sane, FulfilJobs
<1>8. \A x \in FulfilWorkers : ~Free(x) => x # w /\ proc[x].r \in Refs /\ proc[x].r # r
  BY <1>5, InHand, Kinds DEF Sane, FulfilJobs, TakeFulfilJob
<1>9. FulfilJobs'
  <2>1. \A x \in FulfilWorkers : x # w => proc'[x] = proc[x]
    BY <1>4, Kinds
  <2>2. proc'[w].r = r /\ ~Free(w)'
    BY <1>2, <1>3, <1>4 DEF Free, At
  <2>3. \A x \in FulfilWorkers : ~Free(x)' => fq'[proc'[x].r].st = "active"
    BY <1>7, <1>8, <2>1, <2>2 DEF Sane, FulfilJobs, Free, At
  <2>4. \A x, y \in FulfilWorkers :
           ~Free(x)' /\ ~Free(y)' /\ x # y => proc'[x].r # proc'[y].r
    BY <1>8, <2>1, <2>2 DEF Sane, FulfilJobs, Free, At
  <2>5. QED
    BY <1>7, <2>3, <2>4 DEF FulfilJobs
<1>10. Handlers'
  <2>1. Fits(w, h) /\ HasRow(h)'
    BY <1>2, <1>3, FulfilPlaces DEF Fits, HasRow, FulfilPC
  <2>2. QED
    BY <1>4, <2>1 DEF Sane, Handlers, Fits, HasRow, TakeFulfilJob
<1>11. ProvisionJobs'
  BY <1>4, Kinds DEF Sane, ProvisionJobs, Free, At, JobOf, TakeFulfilJob
<1>12. TypeOK'
  BY <1>4, <1>7 DEF TypeOK, Sane, TakeFulfilJob, gateway
<1>13. QED
  BY <1>9, <1>10, <1>11, <1>12, PaymentsStay DEF Sane, TakeFulfilJob

(* The poll and the worker: fulfill(), await by await.                     *)
LEMMA PollStatusSane ==
    ASSUME Sane, NEW p \in Requests, NEW o \in Orders, PollStatus(p, o)
    PROVE  Sane'
<1>1. payment[o].ref \in Refs
  BY Parts DEF PollStatus, Sane, RowsOK, PaymentRow
<1>2. Turn(p, Fresh("ful_verify", None, payment[o].ref))
  BY <1>1, StartTurn, FulfilPlaces DEF PollStatus, FulfilPC
<1>3. QED
  BY <1>2, QuietSane DEF PollStatus, Turn

(* fulfill asks the gateway about the reference.                           *)
LEMMA FulfilVerifySane ==
    ASSUME Sane, NEW p \in Requests \cup FulfilWorkers, FulfilVerify(p)
    PROVE  Sane'
<1>1. CASE Succeeded(proc[p].r)
  <2> DEFINE f == charge[proc[p].r].st = "short"
  <2>1. PICK h : h = [proc[p] EXCEPT !.pc = "ful_load", !.flag = f]
    OBVIOUS
  <2>2. p \in Procs /\ proc[p] \in Handler /\ proc[p].r \in Refs /\ ~Free(p)
    BY Kinds, InHand, FulfilPlaces DEF FulfilVerify, At, FulfilPC, Free
  <2>3. f \in BOOLEAN
    OBVIOUS
  <2>4. proc' = [proc EXCEPT ![p] = h]
    BY <1>1, <2>1 DEF FulfilVerify
  <2> HIDE DEF f
  <2>5. h \in Handler /\ h.pc = "ful_load" /\ h.r = proc[p].r
    BY <2>1, <2>2, <2>3 DEF Handler, PC
  <2>6. Turn(p, h)
    BY <2>2, <2>4, <2>5, OnTurn, FulfilPlaces DEF FulfilPC
  <2>7. QED
    BY <1>1, <2>5, <2>6, QuietSane DEF FulfilVerify
<1>2. CASE ~Succeeded(proc[p].r)
  BY <1>2, QuietSane DEF FulfilVerify, Free, At
<1>3. QED
  BY <1>1, <1>2

(* fulfill loads the payment of the reference.                             *)
LEMMA FulfilLoadSane ==
    ASSUME Sane, NEW p \in Requests \cup FulfilWorkers, FulfilLoad(p)
    PROVE  Sane'
<1>1. p \in Procs /\ proc[p] \in Handler /\ proc[p].r \in Refs /\ ~Free(p)
  BY Kinds, InHand, FulfilPlaces DEF FulfilLoad, At, FulfilPC, Free
<1>2. CASE Return(p)
  BY <1>1, <1>2, QuietSane DEF FulfilLoad
<1>3. CASE ~Return(p)
  <2> DEFINE pc == IF proc[p].flag THEN "ful_underpaid" ELSE "ful_read"
  <2>1. PICK o \in PaymentOrders(proc[p].r) :
            proc' = [proc EXCEPT ![p].o = o, ![p].pc = pc] /\ fq' = fq
    BY <1>3 DEF FulfilLoad
  <2>2. PICK h : h = [proc[p] EXCEPT !.o = o, !.pc = pc]
    OBVIOUS
  <2>3. proc' = [proc EXCEPT ![p] = h]
    BY <2>1, <2>2
  <2>4. pc \in {"ful_underpaid", "ful_read"}
    OBVIOUS
  <2>5. o \in Orders /\ payment[o].st # "NONE"
    BY DEF PaymentOrders
  <2> HIDE DEF pc
  <2>6. pc \in PC /\ pc \in FulfilPC
    BY <2>4 DEF PC, FulfilPC
  <2>7. h \in Handler /\ h.pc = pc /\ h.r = proc[p].r /\ h.o = o
    BY <1>1, <2>2, <2>5, <2>6 DEF Handler
  <2>8. Turn(p, h)
    BY <1>1, <2>3, <2>5, <2>6, <2>7, OnTurn, FulfilPlaces
  <2>9. QED
    BY <2>1, <2>7, <2>8, QuietSane DEF FulfilLoad
<1>4. QED
  BY <1>2, <1>3

(* fulfill marks an underpaid order for a refund.                          *)
LEMMA FulfilUnderpaidSane ==
    ASSUME Sane, NEW p \in Requests \cup FulfilWorkers, FulfilUnderpaid(p)
    PROVE  Sane'
<1>1. p \in Procs /\ proc[p].o \in Orders /\ ~Free(p)
  BY Kinds, InHand, FulfilPlaces DEF FulfilUnderpaid, At, Free
<1>2. order' \in [Orders -> OrderStatus]
  BY <1>1, Parts DEF FulfilUnderpaid, Sane, RowsOK, OrderStatus
<1>3. Around
  BY <1>2, Parts DEF Sane, RowsOK, FulfilUnderpaid, gateway, Around, PaymentRows, RowsLast
<1>4. QED
  BY <1>1, <1>3, ReturnSane DEF FulfilUnderpaid

(* The transaction of fulfill reads its row again.                         *)
LEMMA FulfilReadSane ==
    ASSUME Sane, NEW p \in Requests \cup FulfilWorkers, FulfilRead(p)
    PROVE  Sane'
<1>1. /\ p \in Procs /\ proc[p] \in Handler /\ proc[p].o \in Orders /\ proc[p].r \in Refs
      /\ payment[proc[p].o].st # "NONE" /\ ~Free(p)
  BY Kinds, InHand, FulfilPlaces DEF FulfilRead, At, Free, FulfilPC
<1>2. CASE Return(p)
  BY <1>1, <1>2, QuietSane DEF FulfilRead
<1>3. CASE ~Return(p)
  <2>1. Goto(p, "ful_commit") /\ fq' = fq
    BY <1>3 DEF FulfilRead
  <2>2. Turn(p, On(proc[p], "ful_commit"))
    BY <1>1, <2>1, GotoTurn, FulfilPlaces DEF FulfilPC
  <2>3. QED
    BY <2>1, <2>2, QuietSane DEF FulfilRead, Turn
<1>4. QED
  BY <1>2, <1>3

(* A handler settles the payment of its order and gives it a voucher.      *)
LEMMA SettleAround ==
    ASSUME Sane, NEW o \in Orders, payment[o].st # "NONE",
           NEW tx \in Refs \cup {None},
           \/ payment' = [payment EXCEPT ![o].st = "FULFILLED", ![o].tx = tx]
           \/ payment' = [payment EXCEPT ![o].st = "FULFILLED"],
           NEW st \in OrderStatus, order' = [order EXCEPT ![o] = st],
           \E v \in FreshVouchers : NewVoucher(v, o),
           UNCHANGED <<session, recorded, gateway, pq, faults>>
    PROVE  Around
<1>1. RowsOK /\ PaymentRows
  BY Parts DEF Sane
<1>2. payment' \in [Orders -> PaymentRow] /\ PaymentRows' /\ RowsLast
  BY <1>1, PaymentSettled DEF PaymentStatus
<1>3. order' \in [Orders -> OrderStatus]
  BY <1>1 DEF RowsOK
<1>4. voucher' \in [Vouchers -> VoucherRow]
  BY <1>1, VoucherRows DEF NewVoucher, FreshVouchers
<1>5. QED
  BY <1>1, <1>2, <1>3, <1>4 DEF Around, RowsOK, gateway

(* The transaction of fulfill writes payment, voucher and order.           *)
LEMMA FulfilCommitSane ==
    ASSUME Sane, NEW p \in Requests \cup FulfilWorkers, FulfilCommit(p)
    PROVE  Sane'
<1>1. /\ p \in Procs /\ proc[p].o \in Orders /\ proc[p].r \in Refs
      /\ payment[proc[p].o].st # "NONE" /\ ~Free(p)
  BY Kinds, InHand, FulfilPlaces DEF FulfilCommit, At, Free, FulfilPC
<1>2. Around
  BY <1>1, SettleAround DEF FulfilCommit, OrderStatus
<1>3. Turn(p, On(proc[p], "enqueue"))
  BY <1>1, GotoTurn, FulfilPlaces DEF FulfilCommit
<1>4. QED
  BY <1>2, <1>3, TurnSane DEF FulfilCommit

(* The hand-off to the provisioning queue.                                 *)
LEMMA EnqueueProvisioningSane ==
    ASSUME Sane, NEW p \in Requests \cup FulfilWorkers, EnqueueProvisioning(p)
    PROVE  Sane'
<1>1. p \in Procs /\ proc[p].o \in Orders /\ ~Free(p)
  BY Kinds, InHand, FulfilPlaces DEF EnqueueProvisioning, At, Free
<1>2. pq' = pq \/ \E j \in Orders \cup Vouchers : pq' = ProvisionAdd(j)
  BY <1>1 DEF EnqueueProvisioning
<1>3. QED
  BY <1>1, <1>2, QuietSane DEF EnqueueProvisioning

------------------------------------------------------------------------------
(* Opening a transaction, and the gateway.                                 *)

(* Orders and the opening of a transaction.                                *)
LEMMA CreateOrderSane ==
    ASSUME Sane, NEW o \in Orders, CreateOrder(o)
    PROVE  Sane'
<1>1. order' \in [Orders -> OrderStatus]
  BY Parts DEF CreateOrder, Sane, RowsOK, OrderStatus
<1>2. Around
  BY <1>1, Parts DEF Sane, RowsOK, CreateOrder, gateway, Around, PaymentRows, RowsLast
<1>3. QED
  BY <1>2, OutsideSane DEF CreateOrder

(* The places of a handler that opens a transaction.                       *)
LEMMA MintingPlaces ==
    \A pc \in MintingPC :
        /\ pc \in PC /\ pc \in RefPC /\ pc \in HeldPC /\ pc \notin HookPC /\ pc \notin RowPC
        /\ pc \notin VoucherPC \cup OrderPC \cup {"redeem_enqueue", "idle"}
BY DEF MintingPC, PC, RefPC, HookPC, VoucherPC, OrderPC, HeldPC, RowPC, VerifyPC

(* initialize reads the order's payment.                                   *)
LEMMA InitializeReadSane ==
    ASSUME Sane, NEW p \in Requests, NEW o \in Orders, InitializeRead(p, o)
    PROVE  Sane'
<1> DEFINE f == payment[o].st # "NONE"
<1>1. PICK r \in Refs : proc' = [proc EXCEPT ![p] = [Idle EXCEPT
                 !.pc = "reinit_gateway", !.o = o, !.r = r, !.flag = f]]
  BY DEF InitializeRead, FreshRefs
<1>2. f \in BOOLEAN
  OBVIOUS
<1> HIDE DEF f
<1>3. PICK h : h = [Idle EXCEPT !.pc = "reinit_gateway", !.o = o, !.r = r, !.flag = f]
  OBVIOUS
<1>4. h \in Handler /\ h.pc = "reinit_gateway" /\ h.r = r /\ h.o = o
  BY <1>2, <1>3 DEF Idle, Handler, PC
<1>5. Turn(p, h)
  BY <1>1, <1>3, <1>4, Kinds, MintingPlaces DEF Turn, Fits, HasRow, MintingPC
<1>6. QED
  BY <1>4, <1>5, QuietSane DEF InitializeRead

(* A transaction changes.                                                  *)
LEMMA ChargeAround ==
    ASSUME Sane, charge' \in [Refs -> Charge], sent' \subseteq Event, acked' \subseteq Event,
           UNCHANGED <<order, payment, voucher, session, recorded, pq, faults>>
    PROVE  Around
BY Parts DEF Sane, RowsOK, Around, PaymentRows, RowsLast

(* initialize opens a transaction at the gateway.                          *)
LEMMA InitializeGatewaySane ==
    ASSUME Sane, NEW p \in Requests, InitializeGateway(p)
    PROVE  Sane'
<1>1. p \in Procs /\ proc[p].o \in Orders /\ proc[p].r \in Refs /\ ~Free(p)
  BY Kinds, InHand, MintingPlaces DEF InitializeGateway, At, Free, MintingPC
<1>2. charge' \in [Refs -> Charge]
  BY <1>1, Parts DEF InitializeGateway, Sane, RowsOK, Charge, ChargeState
<1>3. Around
  BY <1>2, Parts, ChargeAround DEF InitializeGateway, Sane, RowsOK
<1>4. Turn(p, On(proc[p], "reinit_write"))
  BY <1>1, Kinds, GotoTurn, MintingPlaces DEF InitializeGateway, MintingPC
<1>5. QED
  BY <1>3, <1>4, TurnSane DEF InitializeGateway

(* initialize writes the new reference to the row.                         *)
LEMMA InitializeWriteSane ==
    ASSUME Sane, NEW p \in Requests, InitializeWrite(p)
    PROVE  Sane'
<1> DEFINE o == proc[p].o
           r == proc[p].r
<1>1. p \in Procs /\ o \in Orders /\ r \in Refs /\ ~Free(p)
  BY Kinds, InHand, MintingPlaces DEF InitializeWrite, At, Free, MintingPC
<1>2. CASE payment' = payment /\ charge' = charge
  BY <1>1, <1>2, QuietSane DEF InitializeWrite, gateway
<1>3. CASE ~(payment' = payment /\ charge' = charge)
  <2>1. /\ payment' = [payment EXCEPT ![o].st = "PENDING", ![o].ref = r]
        /\ charge' = [charge EXCEPT ![r].st = "open"]
    BY <1>3 DEF InitializeWrite
  <2>2. /\ payment \in [Orders -> PaymentRow] /\ payment[o] \in PaymentRow
        /\ charge \in [Refs -> Charge] /\ charge[r] \in Charge
    BY <1>1, Parts DEF Sane, RowsOK
  <2> HIDE DEF o, r
  <2>3. charge' \in [Refs -> Charge]
    BY <1>1, <2>1, <2>2 DEF Charge, ChargeState
  <2>4. /\ payment' \in [Orders -> PaymentRow]
        /\ payment'[o].st = "PENDING" /\ payment'[o].ref = r
        /\ \A u \in Orders : u # o => payment'[u] = payment[u]
    BY <1>1, <2>1, <2>2 DEF PaymentRow, PaymentStatus
  <2>5. PaymentRows' /\ RowsLast
    BY <1>1, <2>4 DEF Sane, PaymentRows, RowsLast
  <2>6. Around
    BY <2>3, <2>4, <2>5, Parts DEF Around, Sane, RowsOK, InitializeWrite
  <2>7. QED
    BY <1>1, <2>6, ReturnSane DEF InitializeWrite
<1>4. QED
  BY <1>2, <1>3

(* The gateway: its transactions and events, nothing of the tables.        *)
LEMMA GatewaySuccessSane ==
    ASSUME Sane, NEW r \in Refs, GatewaySuccess(r)
    PROVE  Sane'
<1>1. charge' \in [Refs -> Charge]
  BY Parts DEF GatewaySuccess, Sane, RowsOK, Charge, ChargeState
<1>2. sent' \subseteq Event
  BY Parts DEF GatewaySuccess, Sane, RowsOK, Event, EventType
<1>3. Around
  BY <1>1, <1>2, Parts, ChargeAround DEF GatewaySuccess, Sane, RowsOK
<1>4. QED
  BY <1>3, OutsideSane DEF GatewaySuccess

(* The gateway reports a refund or a dispute.                              *)
LEMMA GatewayReversalSane ==
    ASSUME Sane, NEW r \in Refs, GatewayReversal(r)
    PROVE  Sane'
<1>1. charge' \in [Refs -> Charge]
  BY Parts DEF GatewayReversal, Sane, RowsOK, Charge, ChargeState
<1>2. sent' \subseteq Event
  BY Parts, CheckoutAssumption DEF GatewayReversal, Sane, RowsOK, Event, EventType
<1>3. Around
  BY <1>1, <1>2, Parts, ChargeAround DEF GatewayReversal, Sane, RowsOK
<1>4. QED
  BY <1>3, OutsideSane DEF GatewayReversal

------------------------------------------------------------------------------
(* The webhook.                                                            *)

(* The places of the webhook and of the reversal it calls.                 *)
LEMMA HookPlaces ==
    /\ \A pc \in HookPC :
          /\ pc \in PC /\ pc \in RefPC
          /\ pc \notin VoucherPC \cup OrderPC \cup {"redeem_enqueue", "idle"}
    /\ \A pc \in HookPC \ {"rev_revoke"} : pc \notin HeldPC /\ pc \notin RowPC
    /\ "rev_revoke" \in HeldPC /\ "rev_revoke" \in RowPC
BY DEF HookPC, PC, RefPC, HeldPC, RowPC, MintingPC, VerifyPC, ApprovePC, VoucherPC, OrderPC

(* The webhook.                                                            *)
LEMMA DeliverSane ==
    ASSUME Sane, NEW p \in Requests, NEW e \in sent, Deliver(p, e)
    PROVE  Sane'
<1>1. e[1] \in EventType /\ e[2] \in Refs
  BY Parts DEF Sane, RowsOK, Event
<1>2. PICK h : h = [Idle EXCEPT !.pc = "hook_find", !.ev = e[1], !.r = e[2]]
  OBVIOUS
<1>3. h \in Handler /\ h.pc = "hook_find" /\ h.ev = e[1] /\ h.r = e[2]
  BY <1>1, <1>2 DEF Idle, Handler, PC
<1>4. Turn(p, h)
  BY <1>1, <1>2, <1>3, Kinds, HookPlaces DEF Deliver, Turn, Fits, HasRow, HookPC
<1>5. QED
  BY <1>3, <1>4, QuietSane DEF Deliver

(* What the webhook has in hand.                                           *)
LEMMA HookInHand ==
    ASSUME Sane, NEW p \in Requests, proc[p].pc \in HookPC
    PROVE  /\ p \in Procs /\ p \notin FulfilWorkers /\ ~Free(p)
           /\ proc[p] \in Handler /\ proc[p].r \in Refs /\ proc[p].ev \in EventType
           /\ TheEvent(p) \in Event
           /\ At(p, "rev_revoke") => proc[p].o \in Orders /\ payment[proc[p].o].st # "NONE"
BY Kinds, InHand, HookPlaces DEF Free, At, TheEvent, Event

(* The webhook answers 200.                                                *)
LEMMA AcknowledgeSane ==
    ASSUME Sane, NEW p \in Requests, proc[p].pc \in HookPC, Acknowledge(p),
           payment' \in [Orders -> PaymentRow], PaymentRows', RowsLast,
           UNCHANGED <<order, voucher, session, recorded, charge, sent, pq, faults>>,
           fq' = fq \/ \E r \in Refs : fq' = FulfilAdd(r)
    PROVE  Sane'
<1>1. TheEvent(p) \in Event
  BY HookInHand
<1>2. Around
  BY <1>1, Parts DEF Sane, RowsOK, Around, Acknowledge
<1>3. Turn(p, Idle)
  BY Kinds, IdleType, IdleFits DEF Turn, Acknowledge
<1>4. QED
  BY <1>2, <1>3, TurnSane

(* The webhook goes on.                                                    *)
LEMMA HookGoesSane ==
    ASSUME Sane, NEW p \in Requests, proc[p].pc \in HookPC,
           NEW pc \in HookPC \ {"rev_revoke"}, Goto(p, pc), recorded' \subseteq Event,
           UNCHANGED <<order, payment, voucher, session, gateway, fq, pq, faults>>
    PROVE  Sane'
<1>1. Around
  BY Parts DEF Sane, RowsOK, Around, PaymentRows, RowsLast, gateway
<1>2. Turn(p, On(proc[p], pc))
  BY HookInHand, GotoTurn, HookPlaces
<1>3. QED
  BY <1>1, <1>2, TurnSane

(* The webhook looks for its event.                                        *)
LEMMA HookFindSane ==
    ASSUME Sane, NEW p \in Requests, HookFind(p)
    PROVE  Sane'
<1>1. proc[p].pc \in HookPC /\ recorded \subseteq Event
  BY Parts DEF HookFind, At, HookPC, Sane, RowsOK
<1>2. CASE Acknowledge(p)
  BY <1>1, <1>2, Parts, AcknowledgeSane DEF HookFind, Sane, RowsOK, PaymentRows, RowsLast
<1>3. CASE ~Acknowledge(p)
  <2>1. PICK pc \in {"hook_record", "hook_recheck"} : Goto(p, pc) /\ acked' = acked
    BY <1>3 DEF HookFind
  <2>2. pc \in HookPC \ {"rev_revoke"}
    BY DEF HookPC
  <2>3. QED
    BY <1>1, <2>1, <2>2, HookGoesSane DEF HookFind, gateway
<1>4. QED
  BY <1>2, <1>3

(* The webhook records its event.                                          *)
LEMMA HookRecordSane ==
    ASSUME Sane, NEW p \in Requests, HookRecord(p)
    PROVE  Sane'
<1>1. proc[p].pc \in HookPC
  BY DEF HookRecord, At, HookPC
<1>2. recorded' \subseteq Event
  BY <1>1, HookInHand, Parts DEF HookRecord, Sane, RowsOK
<1>3. CASE proc' = [proc EXCEPT ![p] = Idle]
  <2>1. Around
    BY <1>2, Parts DEF Sane, RowsOK, Around, PaymentRows, RowsLast, gateway, HookRecord
  <2>2. Turn(p, Idle)
    BY <1>3, Kinds, IdleType, IdleFits DEF Turn
  <2>3. QED
    BY <2>1, <2>2, TurnSane DEF HookRecord
<1>4. CASE proc' # [proc EXCEPT ![p] = Idle]
  <2>1. PICK pc \in {"hook_enqueue", "rev_find"} : Goto(p, pc)
    BY <1>4 DEF HookRecord
  <2>2. pc \in HookPC \ {"rev_revoke"}
    BY DEF HookPC
  <2>3. QED
    BY <1>1, <1>2, <2>1, <2>2, HookGoesSane DEF HookRecord
<1>5. QED
  BY <1>3, <1>4

(* The webhook looks at the payment of a duplicate.                        *)
LEMMA HookRecheckSane ==
    ASSUME Sane, NEW p \in Requests, HookRecheck(p)
    PROVE  Sane'
<1>1. proc[p].pc \in HookPC /\ recorded \subseteq Event
  BY Parts DEF HookRecheck, At, HookPC, Sane, RowsOK
<1>2. CASE Acknowledge(p)
  BY <1>1, <1>2, Parts, AcknowledgeSane DEF HookRecheck, Sane, RowsOK, PaymentRows, RowsLast
<1>3. CASE ~Acknowledge(p)
  <2>1. Goto(p, "hook_enqueue") /\ acked' = acked
    BY <1>3 DEF HookRecheck
  <2>2. "hook_enqueue" \in HookPC \ {"rev_revoke"}
    BY DEF HookPC
  <2>3. QED
    BY <1>1, <2>1, <2>2, HookGoesSane DEF HookRecheck, gateway
<1>4. QED
  BY <1>2, <1>3

(* A job is added for the reference in hand.                               *)
LEMMA HookEnqueueSane ==
    ASSUME Sane, NEW p \in Requests, HookEnqueue(p)
    PROVE  Sane'
<1>1. proc[p].pc \in HookPC
  BY DEF HookEnqueue, At, HookPC
<1>2. proc[p].r \in Refs
  BY <1>1, HookInHand
<1>3. QED
  BY <1>1, <1>2, Parts, AcknowledgeSane
     DEF HookEnqueue, Sane, RowsOK, PaymentRows, RowsLast

(* The reversal: its snapshot is of rows that are there.                   *)
LEMMA ReversalFindSane ==
    ASSUME Sane, NEW p \in Requests, ReversalFind(p)
    PROVE  Sane'
<1>1. proc[p].pc \in HookPC
  BY DEF ReversalFind, At, HookPC
<1>2. CASE Acknowledge(p)
  BY <1>1, <1>2, Parts, AcknowledgeSane DEF ReversalFind, Sane, RowsOK, PaymentRows, RowsLast
<1>3. CASE ~Acknowledge(p)
  <2>1. PICK o \in Orders :
            /\ payment[o].st # "NONE"
            /\ proc' = [proc EXCEPT ![p].pc = "rev_revoke", ![p].o = o,
                    ![p].todo = {v \in VouchersOf(o) : voucher[v].st = "ACTIVE"}]
            /\ acked' = acked
    BY <1>3 DEF ReversalFind
  <2>2. PICK t \in SUBSET Vouchers : t = {v \in VouchersOf(o) : voucher[v].st = "ACTIVE"}
    BY DEF VouchersOf
  <2>3. PICK h : h = [proc[p] EXCEPT !.pc = "rev_revoke", !.o = o, !.todo = t]
    OBVIOUS
  <2>4. proc' = [proc EXCEPT ![p] = h]
    BY <2>1, <2>2, <2>3
  <2>5. proc[p] \in Handler /\ proc[p].r \in Refs /\ proc[p].ev \in EventType
    BY <1>1, HookInHand
  <2>6. /\ h \in Handler /\ h.pc = "rev_revoke" /\ h.r = proc[p].r /\ h.o = o
        /\ h.ev = proc[p].ev
    BY <2>3, <2>5 DEF Handler, PC
  <2>7. Turn(p, h)
    BY <1>1, <2>1, <2>4, <2>5, <2>6, HookInHand, HookPlaces, OnTurn DEF HookPC
  <2>8. QED
    BY <2>1, <2>6, <2>7, QuietSane DEF ReversalFind, gateway
<1>4. QED
  BY <1>2, <1>3

(* A reversal revokes a voucher of its snapshot.                           *)
LEMMA ReversalRevokeSane ==
    ASSUME Sane, NEW p \in Requests, ReversalRevoke(p)
    PROVE  Sane'
<1>1. proc[p].pc = "rev_revoke" /\ proc[p].pc \in HookPC
  BY DEF ReversalRevoke, At, HookPC
<1>2. PICK v \in proc[p].todo :
          /\ voucher' = [voucher EXCEPT ![v].st = "REVOKED"]
          /\ proc' = [proc EXCEPT ![p].todo = @ \ {v}]
  BY DEF ReversalRevoke
<1>3. /\ proc[p] \in Handler /\ proc[p].r \in Refs /\ proc[p].ev \in EventType
      /\ proc[p].o \in Orders /\ payment[proc[p].o].st # "NONE"
  BY <1>1, HookInHand DEF At
<1>4. v \in Vouchers /\ proc[p].todo \ {v} \subseteq Vouchers
  BY <1>3 DEF Handler
<1>5. PICK h : h = [proc[p] EXCEPT !.todo = @ \ {v}]
  OBVIOUS
<1>6. /\ h \in Handler /\ h.pc = "rev_revoke" /\ h.r = proc[p].r /\ h.o = proc[p].o
      /\ h.ev = proc[p].ev /\ proc' = [proc EXCEPT ![p] = h]
  BY <1>1, <1>2, <1>3, <1>4, <1>5 DEF Handler
<1>7. Turn(p, h)
  BY <1>1, <1>3, <1>6, HookInHand, HookPlaces, OnTurn
<1>8. voucher' \in [Vouchers -> VoucherRow]
  BY <1>2, <1>4, Parts, VoucherRows DEF Sane, VoucherStatus
<1>9. Around
  BY <1>8, Parts DEF Sane, RowsOK, Around, PaymentRows, RowsLast, gateway, ReversalRevoke
<1>10. QED
  BY <1>7, <1>9, TurnSane DEF ReversalRevoke

(* A reversal marks the payment.                                           *)
LEMMA ReversalMarkSane ==
    ASSUME Sane, NEW p \in Requests, ReversalMark(p)
    PROVE  Sane'
<1>1. proc[p].pc \in HookPC /\ proc[p].o \in Orders /\ payment[proc[p].o].st # "NONE"
  BY HookInHand DEF ReversalMark, At, HookPC
<1>2. RowsOK /\ PaymentRows
  BY Parts DEF Sane
<1>3. PICK st \in PaymentStatus \ {"NONE", "PENDING"} :
          payment' = [payment EXCEPT ![proc[p].o].st = st]
  <2> DEFINE s == IF IsRefund(proc[p].ev) THEN "REFUNDED" ELSE "REVERSED"
  <2>1. s \in PaymentStatus \ {"NONE", "PENDING"}
    BY DEF PaymentStatus
  <2>2. payment' = [payment EXCEPT ![proc[p].o].st = s]
    BY DEF ReversalMark
  <2> HIDE DEF s
  <2>3. QED
    BY <2>1, <2>2
<1>4. payment' \in [Orders -> PaymentRow] /\ PaymentRows' /\ RowsLast
  <2>1. PICK o \in Orders : o = proc[p].o
    BY <1>1
  <2>2. QED
    BY <1>1, <1>2, <1>3, <2>1, PaymentSettled
<1>5. QED
  BY <1>1, <1>4, AcknowledgeSane DEF ReversalMark

------------------------------------------------------------------------------
(* The portal.                                                             *)

(* The places of the portal's, the owner's and the administrator's         *)
(* handlers.                                                               *)
LEMMA PortalPlaces ==
    /\ \A pc \in VerifyPC : pc \in PC /\ pc \in RefPC /\ pc \in HeldPC /\ pc \notin HookPC
    /\ \A pc \in ApprovePC :
          /\ pc \in PC /\ pc \in HeldPC /\ pc \notin RefPC /\ pc \notin HookPC
          /\ pc \notin RowPC
    /\ \A pc \in VerifyPC : pc \in RowPC
    /\ \A pc \in VerifyPC \cup ApprovePC :
          pc \notin VoucherPC \cup OrderPC \cup {"redeem_enqueue", "idle"}
BY DEF HookPC, PC, RefPC, HeldPC, RowPC, MintingPC, VerifyPC, ApprovePC, VoucherPC, OrderPC,
   FulfilPC

(* What a handler of the portal has in hand.                               *)
LEMMA PortalInHand ==
    ASSUME Sane, NEW p \in Requests, proc[p].pc \in MintingPC \cup VerifyPC \cup ApprovePC
    PROVE  /\ p \in Procs /\ p \notin FulfilWorkers /\ p \notin ProvisionWorkers /\ ~Free(p)
           /\ proc[p] \in Handler /\ proc[p].o \in Orders
           /\ proc[p].pc \in MintingPC \cup VerifyPC => proc[p].r \in Refs
           /\ proc[p].pc \in VerifyPC => payment[proc[p].o].st # "NONE"
BY Kinds, InHand, PortalPlaces, MintingPlaces DEF Free, At

(* initPayment takes a fresh reference.                                    *)
LEMMA InitPaymentSane ==
    ASSUME Sane, NEW p \in Requests, NEW o \in Orders, InitPayment(p, o)
    PROVE  Sane'
<1>1. PICK r \in Refs : Start(p, "init_payment", o, r)
  BY DEF InitPayment, FreshRefs
<1>2. Turn(p, Fresh("init_payment", o, r))
  BY <1>1, StartTurn, MintingPlaces DEF MintingPC
<1>3. order' \in [Orders -> OrderStatus]
  BY Parts DEF InitPayment, Sane, RowsOK, OrderStatus
<1>4. Around
  BY <1>3, Parts DEF Sane, RowsOK, InitPayment, gateway, Around, PaymentRows, RowsLast
<1>5. QED
  BY <1>2, <1>4, TurnSane DEF InitPayment

(* A payment row is created.                                               *)
LEMMA PaymentCreated ==
    ASSUME Sane, NEW o \in Orders, NEW row \in PaymentRow,
           payment' = [payment EXCEPT ![o] = row],
           \/ row.st = "PENDING" /\ row.ref \in Refs
           \/ row.st = "FULFILLED" /\ row.manual,
           UNCHANGED <<order, voucher, session, recorded, gateway, pq, faults>>
    PROVE  Around
<1>1. /\ payment' \in [Orders -> PaymentRow] /\ payment'[o] = row
      /\ \A u \in Orders : u # o => payment'[u] = payment[u]
  BY Parts DEF Sane, RowsOK
<1>2. PaymentRows' /\ RowsLast
  BY <1>1 DEF Sane, PaymentRows, RowsLast
<1>3. QED
  BY <1>1, <1>2, Parts DEF Sane, RowsOK, Around, gateway

(* initPayment writes the payment's row.                                   *)
LEMMA InitPaymentRowSane ==
    ASSUME Sane, NEW p \in Requests, InitPaymentRow(p)
    PROVE  Sane'
<1>1. At(p, "init_payment") /\ proc[p].pc \in MintingPC
  BY DEF InitPaymentRow, At, MintingPC
<1>2. CASE payment[proc[p].o].st = "NONE"
  <2>1. PICK row : row = [st |-> "PENDING", ref |-> proc[p].r, tx |-> None, manual |-> FALSE]
    OBVIOUS
  <2>2. row \in PaymentRow /\ row.st = "PENDING" /\ row.ref \in Refs
    BY <1>1, <2>1, PortalInHand DEF PaymentRow, PaymentStatus
  <2>3. payment' = [payment EXCEPT ![proc[p].o] = row]
    BY <1>2, <2>1 DEF InitPaymentRow
  <2>4. Around
    BY <1>1, <2>2, <2>3, PortalInHand, PaymentCreated DEF InitPaymentRow
  <2>5. Turn(p, On(proc[p], "init_gateway"))
    BY <1>1, <1>2, PortalInHand, GotoTurn, MintingPlaces DEF InitPaymentRow, MintingPC
  <2>6. QED
    BY <2>4, <2>5, TurnSane DEF InitPaymentRow
<1>3. CASE payment[proc[p].o].st # "NONE"
  <2>1. Turn(p, Idle)
    BY <1>1, <1>3, PortalInHand, IdleType, IdleFits DEF InitPaymentRow, Turn
  <2>2. QED
    BY <1>3, <2>1, IdleType, QuietSane DEF InitPaymentRow
<1>4. QED
  BY <1>2, <1>3

(* initPayment opens the transaction.                                      *)
LEMMA InitPaymentGatewaySane ==
    ASSUME Sane, NEW p \in Requests, InitPaymentGateway(p)
    PROVE  Sane'
<1>1. At(p, "init_gateway") /\ proc[p].pc \in MintingPC
  BY DEF InitPaymentGateway, At, MintingPC
<1>2. charge' \in [Refs -> Charge]
  BY <1>1, PortalInHand, Parts DEF InitPaymentGateway, Sane, RowsOK, Charge, ChargeState
<1>3. Around
  BY <1>2, Parts, ChargeAround DEF InitPaymentGateway, Sane, RowsOK
<1>4. QED
  BY <1>1, <1>3, PortalInHand, ReturnSane DEF InitPaymentGateway

(* A request that verifies starts.                                         *)
LEMMA StartVerifySane ==
    ASSUME Sane, NEW p \in Requests, NEW o \in Orders,
           NEW pc \in VerifyPC, Start(p, pc, o, payment[o].ref),
           payment[o].st # "NONE", payment[o].ref \in Refs,
           UNCHANGED <<order, payment, voucher, session, recorded, gateway, fq, pq, faults>>
    PROVE  Sane'
<1>1. pc \notin HookPC /\ pc \in PC
  BY PortalPlaces
<1>2. Turn(p, Fresh(pc, o, payment[o].ref))
  BY <1>1, StartTurn, PortalPlaces
<1>3. QED
  BY <1>2, QuietSane DEF Turn

(* The three handlers that verify a reference first.                       *)
LEMMA LandingSane ==
    ASSUME Sane, NEW p \in Requests, NEW o \in Orders, Landing(p, o)
    PROVE  Sane'
<1>1. payment[o].ref \in Refs /\ "land_verify" \in VerifyPC
  BY DEF Landing, Sane, PaymentRows, VerifyPC
<1>2. QED
  BY <1>1, StartVerifySane DEF Landing

(* verifyReference starts.                                                 *)
LEMMA AdminVerifySane ==
    ASSUME Sane, NEW p \in Requests, NEW o \in Orders, AdminVerify(p, o)
    PROVE  Sane'
<1>1. payment[o].ref \in Refs /\ "adm_verify" \in VerifyPC /\ payment[o].st # "NONE"
  BY Parts DEF AdminVerify, Sane, RowsOK, PaymentRow, VerifyPC
<1>2. QED
  BY <1>1, StartVerifySane DEF AdminVerify

(* The gateway's answer: the handler goes on to commit, or returns.        *)
LEMMA VerifyAnswerSane ==
    ASSUME Sane, NEW p \in Requests, proc[p].pc \in VerifyPC,
           \/ \E pc \in VerifyPC : Goto(p, pc) /\ UNCHANGED fq
           \/ Return(p),
           UNCHANGED <<order, payment, voucher, session, recorded, gateway, pq, faults>>
    PROVE  Sane'
<1>1. CASE Return(p)
  BY <1>1, PortalInHand, QuietSane
<1>2. CASE ~Return(p)
  <2>1. PICK pc \in VerifyPC : Goto(p, pc) /\ fq' = fq
    BY <1>2
  <2>2. Turn(p, On(proc[p], pc))
    BY <2>1, PortalInHand, PortalPlaces, GotoTurn
  <2>3. QED
    BY <2>1, <2>2, QuietSane DEF Turn
<1>3. QED
  BY <1>1, <1>2

(* The landing page asks the gateway.                                      *)
LEMMA LandingVerifySane ==
    ASSUME Sane, NEW p \in Requests, LandingVerify(p)
    PROVE  Sane'
<1>1. "land_commit" \in VerifyPC /\ proc[p].pc \in VerifyPC
  BY DEF VerifyPC, LandingVerify, At
<1>2. QED
  BY <1>1, VerifyAnswerSane DEF LandingVerify

(* verifyReference asks the gateway.                                       *)
LEMMA AdminVerifyAnswerSane ==
    ASSUME Sane, NEW p \in Requests, AdminVerifyAnswer(p)
    PROVE  Sane'
<1>1. "adm_commit" \in VerifyPC /\ proc[p].pc \in VerifyPC
  BY DEF VerifyPC, AdminVerifyAnswer, At
<1>2. QED
  BY <1>1, VerifyAnswerSane DEF AdminVerifyAnswer

(* retrieveVoucher asks the gateway.                                       *)
LEMMA RetrieveVerifySane ==
    ASSUME Sane, NEW p \in Requests, RetrieveVerify(p)
    PROVE  Sane'
<1>1. "ret_commit" \in VerifyPC /\ proc[p].pc \in VerifyPC
  BY DEF VerifyPC, RetrieveVerify, At
<1>2. QED
  BY <1>1, VerifyAnswerSane DEF RetrieveVerify

(* The landing page, or verifyReference, settles the payment.              *)
LEMMA VerifiedCommitSane ==
    ASSUME Sane, NEW p \in Requests, VerifiedCommit(p)
    PROVE  Sane'
<1>1. proc[p].pc \in VerifyPC
  BY DEF VerifyPC, VerifiedCommit
<1>2. /\ p \in Procs /\ p \notin FulfilWorkers /\ ~Free(p) /\ proc[p].o \in Orders
      /\ proc[p].r \in Refs /\ payment[proc[p].o].st # "NONE"
  BY <1>1, PortalInHand
<1>3. Around
  BY <1>2, SettleAround DEF VerifiedCommit, OrderStatus
<1>4. Turn(p, On(proc[p], "enqueue"))
  BY <1>2, GotoTurn, FulfilPlaces DEF VerifiedCommit
<1>5. QED
  BY <1>3, <1>4, TurnSane DEF VerifiedCommit

(* The retrieval of a voucher.                                             *)
LEMMA RetrieveSane ==
    ASSUME Sane, NEW p \in Requests, NEW o \in Orders, Retrieve(p, o)
    PROVE  Sane'
<1>1. CASE Start(p, "enqueue", o, None)
  <2>1. Turn(p, Fresh("enqueue", o, None))
    BY <1>1, StartTurn, FulfilPlaces
  <2>2. QED
    BY <2>1, QuietSane DEF Turn, Retrieve
<1>2. CASE ~Start(p, "enqueue", o, None)
  <2>1. payment[o].ref \in Refs /\ "ret_verify" \in VerifyPC
    BY <1>2 DEF Retrieve, Sane, PaymentRows, VerifyPC
  <2>2. QED
    BY <1>2, <2>1, StartVerifySane DEF Retrieve
<1>3. QED
  BY <1>1, <1>2

(* retrieveVoucher settles the payment.                                    *)
LEMMA RetrieveCommitSane ==
    ASSUME Sane, NEW p \in Requests, RetrieveCommit(p)
    PROVE  Sane'
<1>1. proc[p].pc \in VerifyPC
  BY DEF VerifyPC, RetrieveCommit, At
<1>2. /\ p \in Procs /\ p \notin FulfilWorkers /\ ~Free(p) /\ proc[p].o \in Orders
      /\ proc[p].r \in Refs /\ payment[proc[p].o].st # "NONE"
  BY <1>1, PortalInHand
<1>3. Around
  BY <1>2, SettleAround DEF RetrieveCommit, OrderStatus
<1>4. Turn(p, On(proc[p], "enqueue"))
  BY <1>2, GotoTurn, FulfilPlaces DEF RetrieveCommit
<1>5. QED
  BY <1>3, <1>4, TurnSane DEF RetrieveCommit

(* The bank transfer and its approval.                                     *)
LEMMA SubmitTransferSane ==
    ASSUME Sane, NEW o \in Orders, SubmitTransfer(o)
    PROVE  Sane'
<1>1. order' \in [Orders -> OrderStatus]
  BY Parts DEF SubmitTransfer, Sane, RowsOK, OrderStatus
<1>2. Around
  BY <1>1, Parts DEF Sane, RowsOK, SubmitTransfer, gateway, Around, PaymentRows, RowsLast
<1>3. QED
  BY <1>2, OutsideSane DEF SubmitTransfer

(* approveAccess marks the order PAID.                                     *)
LEMMA ApproveSane ==
    ASSUME Sane, NEW p \in Requests, NEW o \in Orders, Approve(p, o)
    PROVE  Sane'
<1>1. order' \in [Orders -> OrderStatus]
  BY Parts DEF Approve, Sane, RowsOK, OrderStatus
<1>2. Around
  BY <1>1, Parts DEF Sane, RowsOK, Approve, gateway, Around, PaymentRows, RowsLast
<1>3. CASE Start(p, "apr_prior", o, None)
  <2>1. Turn(p, Fresh("apr_prior", o, None))
    BY <1>3, StartTurn, PortalPlaces DEF ApprovePC
  <2>2. QED
    BY <1>2, <2>1, TurnSane DEF Approve
<1>4. CASE proc' = proc
  BY <1>2, <1>4, OutsideSane DEF Approve
<1>5. QED
  BY <1>3, <1>4 DEF Approve

(* approveAccess reads the payment there is.                               *)
LEMMA ApprovePriorSane ==
    ASSUME Sane, NEW p \in Requests, ApprovePrior(p)
    PROVE  Sane'
<1>1. proc[p].pc \in ApprovePC
  BY DEF ApprovePC, ApprovePrior, At
<1>2. CASE Return(p)
  BY <1>1, <1>2, PortalInHand, QuietSane DEF ApprovePrior
<1>3. CASE ~Return(p)
  <2>1. Goto(p, "apr_payment") /\ fq' = fq
    BY <1>3 DEF ApprovePrior
  <2>2. Turn(p, On(proc[p], "apr_payment"))
    BY <1>1, <2>1, PortalInHand, PortalPlaces, GotoTurn DEF ApprovePC
  <2>3. QED
    BY <2>1, <2>2, QuietSane DEF Turn, ApprovePrior
<1>4. QED
  BY <1>2, <1>3

(* approveAccess writes the payment.                                       *)
LEMMA ApprovePaymentSane ==
    ASSUME Sane, NEW p \in Requests, ApprovePayment(p)
    PROVE  Sane'
<1>1. proc[p].pc \in ApprovePC
  BY DEF ApprovePC, ApprovePayment, At
<1>2. CASE payment[proc[p].o].st = "NONE"
  <2>1. PICK row : row = [st |-> "FULFILLED", ref |-> None, tx |-> None, manual |-> TRUE]
    OBVIOUS
  <2>2. row \in PaymentRow /\ row.st = "FULFILLED" /\ row.manual
    BY <2>1 DEF PaymentRow, PaymentStatus
  <2>3. payment' = [payment EXCEPT ![proc[p].o] = row]
    BY <1>2, <2>1 DEF ApprovePayment
  <2>4. Around
    BY <1>1, <2>2, <2>3, PortalInHand, PaymentCreated DEF ApprovePayment
  <2>5. Turn(p, On(proc[p], "apr_voucher"))
    BY <1>1, <1>2, PortalInHand, GotoTurn, PortalPlaces DEF ApprovePayment, ApprovePC
  <2>6. QED
    BY <1>2, <2>4, <2>5, TurnSane DEF ApprovePayment
<1>3. CASE payment[proc[p].o].st # "NONE"
  BY <1>1, <1>3, PortalInHand, QuietSane DEF ApprovePayment
<1>4. QED
  BY <1>2, <1>3

(* approveAccess writes the voucher.                                       *)
LEMMA ApproveVoucherSane ==
    ASSUME Sane, NEW p \in Requests, ApproveVoucher(p)
    PROVE  Sane'
<1>1. proc[p].pc \in ApprovePC
  BY DEF ApprovePC, ApproveVoucher, At
<1>2. voucher' \in [Vouchers -> VoucherRow]
  BY <1>1, PortalInHand, Parts, VoucherRows DEF ApproveVoucher, NewVoucher, FreshVouchers, Sane
<1>3. Around
  BY <1>2, Parts DEF Sane, RowsOK, ApproveVoucher, gateway, Around, PaymentRows, RowsLast
<1>4. Turn(p, On(proc[p], "enqueue"))
  BY <1>1, PortalInHand, GotoTurn, FulfilPlaces DEF ApproveVoucher
<1>5. QED
  BY <1>3, <1>4, TurnSane DEF ApproveVoucher

(* The first use of a code.                                                *)
LEMMA RedeemSane ==
    ASSUME Sane, NEW p \in Requests, NEW v \in Vouchers, Redeem(p, v)
    PROVE  Sane'
<1>1. voucher' \in [Vouchers -> VoucherRow]
  BY Parts, VoucherRows DEF Redeem, Sane, RowsOK, VoucherStatus
<1>2. Around
  BY <1>1, Parts DEF Sane, RowsOK, Redeem, gateway, Around, PaymentRows, RowsLast
<1>3. PICK h : h = [Idle EXCEPT !.pc = "redeem_enqueue", !.v = v]
  OBVIOUS
<1>4. h \in Handler /\ h.pc = "redeem_enqueue" /\ h.v = v
  BY <1>3 DEF Idle, Handler, PC
<1>5. Turn(p, h)
  BY <1>3, <1>4, Kinds
     DEF Redeem, Turn, Fits, HasRow, RefPC, HeldPC, HookPC, RowPC, MintingPC, FulfilPC,
         VerifyPC, ApprovePC, OrderPC, VoucherPC
<1>6. QED
  BY <1>2, <1>5, TurnSane DEF Redeem

(* redeem queues the voucher's provisioning.                               *)
LEMMA RedeemEnqueueSane ==
    ASSUME Sane, NEW p \in Requests, RedeemEnqueue(p)
    PROVE  Sane'
<1>1. p \in Procs /\ proc[p].v \in Vouchers /\ ~Free(p)
  BY Kinds, InHand DEF RedeemEnqueue, At, Free
<1>2. \E j \in Orders \cup Vouchers : pq' = ProvisionAdd(j)
  BY <1>1 DEF RedeemEnqueue
<1>3. QED
  BY <1>1, <1>2, QuietSane DEF RedeemEnqueue

------------------------------------------------------------------------------
(* Provisioning.                                                           *)

(* The places of a provisioning worker.                                    *)
LEMMA ProvisionPlaces ==
    /\ \A pc \in OrderPC :
          /\ pc \in PC /\ pc \in HeldPC /\ pc \notin VoucherPC
          /\ pc \notin RefPC \cup HookPC \cup RowPC \cup FulfilPC \cup {"redeem_enqueue", "idle"}
    /\ \A pc \in VoucherPC :
          /\ pc \in PC /\ pc \notin HeldPC /\ pc \notin OrderPC
          /\ pc \notin RefPC \cup HookPC \cup RowPC \cup FulfilPC \cup {"redeem_enqueue", "idle"}
BY DEF HookPC, PC, RefPC, HeldPC, RowPC, MintingPC, VerifyPC, ApprovePC, VoucherPC, OrderPC,
   FulfilPC

(* A worker fits its order, or its voucher.                                *)
LEMMA WorkerFits ==
    ASSUME NEW w \in ProvisionWorkers, NEW h,
           \/ h.pc \in OrderPC /\ h.o \in Orders
           \/ h.pc \in VoucherPC /\ h.v \in Vouchers
    PROVE  Fits(w, h) /\ HasRow(h)'
BY Kinds, ProvisionPlaces DEF Fits, HasRow

(* A worker takes a job, which is nobody's yet.                            *)
LEMMA TakeJobSane ==
    ASSUME Sane, NEW w \in ProvisionWorkers, Free(w), NEW j \in Orders \cup Vouchers,
           NEW h \in Handler, proc' = [proc EXCEPT ![w] = h],
           pq[j].st = "waiting", pq' = [pq EXCEPT ![j].st = "active"],
           \/ h.pc \in OrderPC /\ h.o = j /\ j \in Orders
           \/ h.pc \in VoucherPC /\ h.v = j /\ j \in Vouchers,
           UNCHANGED <<order, payment, voucher, session, recorded, gateway, fq, faults>>
    PROVE  Sane'
<1>1. /\ proc \in [Procs -> Handler] /\ pq \in [Orders \cup Vouchers -> ProvisionJob]
      /\ w \in Procs /\ w \notin Requests /\ w \notin FulfilWorkers
  BY Parts, Kinds DEF Sane
<1>2. proc' \in [Procs -> Handler] /\ \A q \in Procs : proc'[q] = IF q = w THEN h ELSE proc[q]
  BY <1>1, OneMoves
<1>3. PICK t \in ProvisionJob : pq' = [pq EXCEPT ![j] = t] /\ Live(t) /\ t.st = "active"
  <2>1. pq[j] \in ProvisionJob /\ Live(pq[j])
    BY <1>1 DEF Sane, ProvisionJobs
  <2>2. QED
    BY <2>1, TakenType
<1>4. /\ pq' \in [Orders \cup Vouchers -> ProvisionJob]
      /\ \A i \in Orders \cup Vouchers : Live(pq'[i])
      /\ pq'[j].st = "active" /\ \A i \in Orders \cup Vouchers : i # j => pq'[i] = pq[i]
  BY <1>1, <1>3 DEF Sane, ProvisionJobs
<1>5. \A x \in ProvisionWorkers :
         ~Free(x) => x # w /\ JobOf(x) \in Orders \cup Vouchers /\ JobOf(x) # j
  BY JobType
<1>6. JobOf(w)' = j /\ ~Free(w)'
  <2>1. proc'[w] = h
    BY <1>1, <1>2
  <2>2. h.pc \in OrderPC => h.pc \notin VoucherPC /\ h.pc # "idle"
    BY ProvisionPlaces
  <2>3. h.pc \in VoucherPC => h.pc # "idle"
    BY ProvisionPlaces
  <2>4. QED
    BY <2>1, <2>2, <2>3 DEF JobOf, Free, At, VoucherPC
<1>7. \A x \in ProvisionWorkers :
         x # w => (Free(x)' <=> Free(x)) /\ JobOf(x)' = JobOf(x)
  BY <1>2, Kinds DEF Free, At, JobOf
<1>8. ProvisionJobs'
  <2>1. \A x \in ProvisionWorkers : ~Free(x)' => pq'[JobOf(x)'].st = "active"
    BY <1>4, <1>5, <1>6, <1>7, JobType
  <2>2. \A x, y \in ProvisionWorkers :
           ~Free(x)' /\ ~Free(y)' /\ x # y => JobOf(x)' # JobOf(y)'
    <3>1. SUFFICES ASSUME NEW x \in ProvisionWorkers, NEW y \in ProvisionWorkers,
                          ~Free(x)', ~Free(y)', x # y
                   PROVE  JobOf(x)' # JobOf(y)'
      OBVIOUS
    <3>2. CASE x = w
      BY <1>5, <1>6, <1>7, <3>1, <3>2
    <3>3. CASE y = w
      BY <1>5, <1>6, <1>7, <3>1, <3>3
    <3>4. CASE x # w /\ y # w
      BY <1>7, <3>1, <3>4 DEF Sane, ProvisionJobs
    <3>5. QED
      BY <3>2, <3>3, <3>4
  <2>3. QED
    BY <1>4, <2>1, <2>2 DEF ProvisionJobs
<1>9. Handlers'
  <2>1. Fits(w, h) /\ HasRow(h)'
    BY WorkerFits
  <2>2. QED
    BY <1>2, <2>1 DEF Sane, Handlers, Fits, HasRow
<1>10. FulfilJobs'
  BY <1>2, Kinds DEF Sane, FulfilJobs, Free, At
<1>11. TypeOK'
  BY <1>2, <1>4 DEF TypeOK, Sane, gateway
<1>12. QED
  BY <1>8, <1>9, <1>10, <1>11, PaymentsStay DEF Sane

(* The provisioning worker.                                                *)
LEMMA TakeOrderJobSane ==
    ASSUME Sane, NEW w \in ProvisionWorkers, NEW o \in Orders, TakeOrderJob(w, o)
    PROVE  Sane'
<1>1. PICK h : h = Fresh("prov_voucher", o, None)
  OBVIOUS
<1>2. proc' = [proc EXCEPT ![w] = h] /\ h \in Handler /\ h.pc = "prov_voucher" /\ h.o = o
  BY <1>1 DEF TakeOrderJob, Start, Fresh, Idle, Handler, PC
<1>3. "prov_voucher" \in OrderPC
  BY DEF OrderPC
<1>4. QED
  BY <1>2, <1>3, TakeJobSane DEF TakeOrderJob

(* A worker takes a voucher's job.                                         *)
LEMMA TakeVoucherJobSane ==
    ASSUME Sane, NEW w \in ProvisionWorkers, NEW v \in Vouchers, TakeVoucherJob(w, v)
    PROVE  Sane'
<1>1. PICK h : h = [Idle EXCEPT !.pc = "vprov_push", !.v = v]
  OBVIOUS
<1>2. proc' = [proc EXCEPT ![w] = h] /\ h \in Handler /\ h.pc = "vprov_push" /\ h.v = v
  BY <1>1 DEF TakeVoucherJob, Idle, Handler, PC
<1>3. /\ h.pc \in VoucherPC /\ v \in Orders \cup Vouchers /\ Free(w)
      /\ pq[v].st = "waiting" /\ pq' = [pq EXCEPT ![v].st = "active"]
      /\ UNCHANGED <<order, payment, voucher, session, recorded, gateway, fq, faults>>
  BY <1>2 DEF VoucherPC, TakeVoucherJob
<1>4. QED
  BY <1>2, <1>3, TakeJobSane

(* What a provisioning worker has in hand.                                 *)
LEMMA WorkerInHand ==
    ASSUME Sane, NEW w \in ProvisionWorkers, proc[w].pc \in OrderPC \cup VoucherPC
    PROVE  /\ w \in Procs /\ ~Free(w) /\ proc[w] \in Handler
           /\ proc[w].pc \in OrderPC => proc[w].o \in Orders
           /\ proc[w].pc \in VoucherPC => proc[w].v \in Vouchers
BY Kinds, InHand, ProvisionPlaces DEF Free, At

(* A worker goes on with its order.                                        *)
LEMMA OrderWorkSane ==
    ASSUME Sane, NEW w \in ProvisionWorkers, proc[w].pc \in OrderPC, RowsOK',
           UNCHANGED <<payment, fq, pq>>,
           NEW h \in Handler, proc' = [proc EXCEPT ![w] = h], h.pc \in OrderPC,
           h.o = proc[w].o
    PROVE  Sane'
BY WorkerInHand, WorkerFits, WorkerSane

(* A worker goes on.                                                       *)
LEMMA WorkerGoesSane ==
    ASSUME Sane, NEW w \in ProvisionWorkers, NEW pc, Goto(w, pc),
           \/ proc[w].pc \in OrderPC /\ pc \in OrderPC
           \/ proc[w].pc \in VoucherPC /\ pc \in VoucherPC,
           UNCHANGED <<order, payment, voucher, session, recorded, gateway, fq, pq, faults>>
    PROVE  Sane'
<1>1. pc \in PC /\ proc[w] \in Handler /\ ~Free(w)
  BY WorkerInHand, ProvisionPlaces
<1>2. PICK h : h = On(proc[w], pc)
  OBVIOUS
<1>3. /\ h \in Handler /\ h.pc = pc /\ h.o = proc[w].o /\ h.v = proc[w].v
      /\ proc' = [proc EXCEPT ![w] = h]
  BY <1>1, <1>2, OnType DEF Goto, On
<1>4. Fits(w, h)
  BY <1>3, WorkerInHand, WorkerFits
<1>5. RowsOK'
  BY Parts DEF Sane, RowsOK, gateway
<1>6. QED
  BY <1>1, <1>3, <1>4, <1>5, WorkerSane

(* The worker looks for the order's voucher.                               *)
LEMMA ProvisionVoucherSane ==
    ASSUME Sane, NEW w \in ProvisionWorkers, ProvisionVoucher(w)
    PROVE  Sane'
<1>1. proc[w].pc \in OrderPC
  BY DEF ProvisionVoucher, At, OrderPC
<1>2. proc[w] \in Handler
  BY <1>1, WorkerInHand
<1>3. PICK pc \in {"prov_mint", "prov_push"}, v \in Vouchers \cup {None}, f \in BOOLEAN :
          proc' = [proc EXCEPT ![w] = [proc[w] EXCEPT !.pc = pc, !.v = v, !.flag = f]]
  <2> DEFINE f == payment[proc[w].o].st # "NONE"
  <2>1. /\ f \in BOOLEAN
        /\ \/ proc' = [proc EXCEPT ![w].pc = "prov_mint", ![w].flag = f]
           \/ \E v \in Vouchers : proc' = [proc EXCEPT ![w].pc = "prov_push", ![w].v = v]
    BY DEF ProvisionVoucher, VouchersOf
  <2> HIDE DEF f
  <2>2. CASE proc' = [proc EXCEPT ![w].pc = "prov_mint", ![w].flag = f]
    <3>1. proc[w].v \in Vouchers \cup {None}
      BY <1>2 DEF Handler
    <3>2. [proc[w] EXCEPT !.pc = "prov_mint", !.flag = f]
             = [proc[w] EXCEPT !.pc = "prov_mint", !.v = proc[w].v, !.flag = f]
      BY <1>2 DEF Handler
    <3>3. proc' = [proc EXCEPT ![w] = [proc[w] EXCEPT !.pc = "prov_mint", !.flag = f]]
      BY <2>2
    <3>4. QED
      BY <2>1, <3>1, <3>2, <3>3
  <2>3. CASE \E v \in Vouchers : proc' = [proc EXCEPT ![w].pc = "prov_push", ![w].v = v]
    <3>1. PICK v \in Vouchers : proc' = [proc EXCEPT ![w].pc = "prov_push", ![w].v = v]
      BY <2>3
    <3>2. proc[w].flag \in BOOLEAN
      BY <1>2 DEF Handler
    <3>3. [proc[w] EXCEPT !.pc = "prov_push", !.v = v]
             = [proc[w] EXCEPT !.pc = "prov_push", !.v = v, !.flag = proc[w].flag]
      BY <1>2 DEF Handler
    <3>4. proc' = [proc EXCEPT ![w] = [proc[w] EXCEPT !.pc = "prov_push", !.v = v]]
      BY <3>1
    <3>5. QED
      BY <3>2, <3>3, <3>4
  <2>4. QED
    BY <2>1, <2>2, <2>3
<1>4. PICK h : h = [proc[w] EXCEPT !.pc = pc, !.v = v, !.flag = f]
  OBVIOUS
<1>5. pc \in PC /\ pc \in OrderPC
  BY DEF PC, OrderPC
<1>6. h \in Handler /\ h.pc \in OrderPC /\ h.o = proc[w].o /\ proc' = [proc EXCEPT ![w] = h]
  BY <1>2, <1>3, <1>4, <1>5 DEF Handler
<1>7. RowsOK'
  BY Parts DEF ProvisionVoucher, Sane, RowsOK, gateway
<1>8. QED
  BY <1>1, <1>6, <1>7, OrderWorkSane DEF ProvisionVoucher

(* The worker mints a missing voucher.                                     *)
LEMMA ProvisionMintSane ==
    ASSUME Sane, NEW w \in ProvisionWorkers, ProvisionMint(w)
    PROVE  Sane'
<1>1. proc[w].pc \in OrderPC
  BY DEF ProvisionMint, At, OrderPC
<1>2. proc[w] \in Handler /\ proc[w].o \in Orders
  BY <1>1, WorkerInHand
<1>3. PICK v \in Vouchers :
          /\ NewVoucher(v, IF proc[w].flag THEN proc[w].o ELSE None)
          /\ proc' = [proc EXCEPT ![w].pc = "prov_push", ![w].v = v]
  BY DEF ProvisionMint, FreshVouchers
<1>4. PICK o \in Orders \cup {None} : o = IF proc[w].flag THEN proc[w].o ELSE None
  BY <1>2
<1>5. voucher' \in [Vouchers -> VoucherRow]
  BY <1>3, <1>4, Parts, VoucherRows DEF Sane, NewVoucher
<1>6. PICK h : h = [proc[w] EXCEPT !.pc = "prov_push", !.v = v]
  OBVIOUS
<1>7. /\ h \in Handler /\ h.pc \in OrderPC /\ h.o = proc[w].o
      /\ proc' = [proc EXCEPT ![w] = h]
  BY <1>2, <1>3, <1>6 DEF Handler, PC, OrderPC
<1>8. RowsOK'
  BY <1>5, Parts DEF ProvisionMint, Sane, RowsOK, gateway
<1>9. QED
  BY <1>1, <1>7, <1>8, OrderWorkSane DEF ProvisionMint

(* A worker is done, having written orders or sessions or nothing.         *)
LEMMA WorkerDoneSane ==
    ASSUME Sane, NEW w \in ProvisionWorkers, proc[w].pc \in OrderPC \cup VoucherPC,
           Complete(w),
           \/ order' = order
           \/ \E o \in Orders : order' = [order EXCEPT ![o] = "ACTIVE"],
           \/ session' = session
           \/ \E s \in Sessions, row \in SessionRow : session' = [session EXCEPT ![s] = row],
           UNCHANGED <<payment, voucher, recorded, gateway, fq, faults>>
    PROVE  Sane'
<1>1. order' \in [Orders -> OrderStatus]
  BY Parts DEF Sane, RowsOK, OrderStatus
<1>2. session' \in [Sessions -> SessionRow]
  BY Parts DEF Sane, RowsOK
<1>3. RowsOK'
  BY <1>1, <1>2, Parts DEF Sane, RowsOK, gateway
<1>4. QED
  BY <1>3, WorkerInHand, WorkerSane

(* The push to the router, or its degraded form.                           *)
LEMMA ProvisionPushSane ==
    ASSUME Sane, NEW w \in ProvisionWorkers, ProvisionPush(w)
    PROVE  Sane'
<1>1. proc[w].pc \in OrderPC /\ "prov_session" \in OrderPC
  BY DEF ProvisionPush, At, OrderPC
<1>2. CASE HasRouter
  BY <1>1, <1>2, WorkerGoesSane DEF ProvisionPush
<1>3. CASE ~HasRouter
  BY <1>1, <1>3, WorkerInHand, WorkerDoneSane DEF ProvisionPush
<1>4. QED
  BY <1>2, <1>3

(* The worker looks for the order's session.                               *)
LEMMA ProvisionSessionSane ==
    ASSUME Sane, NEW w \in ProvisionWorkers, ProvisionSession(w)
    PROVE  Sane'
<1>1. proc[w].pc \in OrderPC /\ "prov_commit" \in OrderPC
  BY DEF ProvisionSession, At, OrderPC
<1>2. CASE Complete(w)
  BY <1>1, <1>2, WorkerInHand, WorkerDoneSane DEF ProvisionSession
<1>3. CASE ~Complete(w)
  BY <1>1, <1>3, WorkerGoesSane DEF ProvisionSession
<1>4. QED
  BY <1>2, <1>3

(* The worker writes the session and the order.                            *)
LEMMA ProvisionCommitSane ==
    ASSUME Sane, NEW w \in ProvisionWorkers, ProvisionCommit(w)
    PROVE  Sane'
<1>1. proc[w].pc \in OrderPC
  BY DEF ProvisionCommit, At, OrderPC
<1>2. proc[w] \in Handler /\ proc[w].o \in Orders
  BY <1>1, WorkerInHand
<1>3. [st |-> "ACTIVE", order |-> proc[w].o, voucher |-> proc[w].v] \in SessionRow
  BY <1>2 DEF SessionRow, Handler
<1>4. QED
  BY <1>1, <1>2, <1>3, WorkerDoneSane DEF ProvisionCommit

(* The push of a voucher.                                                  *)
LEMMA VoucherPushSane ==
    ASSUME Sane, NEW w \in ProvisionWorkers, VoucherPush(w)
    PROVE  Sane'
<1>1. proc[w].pc \in VoucherPC /\ "vprov_session" \in VoucherPC
  BY DEF VoucherPush, At, VoucherPC
<1>2. CASE HasRouter
  BY <1>1, <1>2, WorkerGoesSane DEF VoucherPush
<1>3. CASE ~HasRouter
  BY <1>1, <1>3, WorkerDoneSane DEF VoucherPush
<1>4. QED
  BY <1>2, <1>3

(* The worker looks for the voucher's session.                             *)
LEMMA VoucherSessionSane ==
    ASSUME Sane, NEW w \in ProvisionWorkers, VoucherSession(w)
    PROVE  Sane'
<1>1. proc[w].pc \in VoucherPC /\ "vprov_commit" \in VoucherPC
  BY DEF VoucherSession, At, VoucherPC
<1>2. CASE Complete(w)
  BY <1>1, <1>2, WorkerDoneSane DEF VoucherSession
<1>3. CASE ~Complete(w)
  BY <1>1, <1>3, WorkerGoesSane DEF VoucherSession
<1>4. QED
  BY <1>2, <1>3

(* The worker writes the voucher's session.                                *)
LEMMA VoucherCommitSane ==
    ASSUME Sane, NEW w \in ProvisionWorkers, VoucherCommit(w)
    PROVE  Sane'
<1>1. proc[w].pc \in VoucherPC
  BY DEF VoucherCommit, At, VoucherPC
<1>2. proc[w].v \in Vouchers
  BY <1>1, WorkerInHand
<1>3. [st |-> "ACTIVE", order |-> None, voucher |-> proc[w].v] \in SessionRow
  BY <1>2 DEF SessionRow
<1>4. QED
  BY <1>1, <1>3, WorkerDoneSane DEF VoucherCommit

(* The reconcile begins.                                                   *)
LEMMA ReconcileSane ==
    ASSUME Sane, NEW p \in Requests, NEW o \in Orders, Reconcile(p, o)
    PROVE  Sane'
<1>1. Start(p, "enqueue", o, None) /\ Free(p)
  BY DEF Reconcile
<1>2. Turn(p, Fresh("enqueue", o, None))
  BY <1>1, StartTurn, FulfilPlaces
<1>3. QED
  BY <1>2, QuietSane DEF Turn, Reconcile

------------------------------------------------------------------------------
(* Faults.                                                                 *)

LEMMA HandlerThrowsSane ==
    ASSUME Sane, NEW p \in Procs, HandlerThrows(p)
    PROVE  Sane'
<1>1. /\ proc \in [Procs -> Handler] /\ fq \in [Refs -> FulfilJob]
      /\ pq \in [Orders \cup Vouchers -> ProvisionJob] /\ RowsOK /\ PaymentRows
  BY Parts DEF Sane
<1>2. proc' = [proc EXCEPT ![p] = Idle] /\ ~Free(p)
  BY DEF HandlerThrows
<1>3. proc' \in [Procs -> Handler] /\ \A q \in Procs : proc'[q] = IF q = p THEN Idle ELSE proc[q]
  BY <1>1, <1>2, IdleType, OneMoves
<1>4. RowsOK' /\ PaymentRows' /\ payment' = payment
  BY <1>1, RowsStay DEF HandlerThrows
<1>5. Handlers'
  BY <1>3, <1>4, IdleFits DEF Sane, Handlers, Fits, HasRow
<1>6. FulfilJobs' /\ fq' \in [Refs -> FulfilJob]
  <2>1. CASE p \in FulfilWorkers
    <3>1. PICK r \in Refs : r = proc[p].r
      BY <2>1, <1>2, InHand
    <3>2. fq[r] \in FulfilJob /\ fq[r].st = "active" /\ Live(fq[r])
      BY <1>1, <1>2, <2>1, <3>1 DEF Sane, FulfilJobs
    <3>3. PICK t \in FulfilJob : t = Retried(fq[r]) /\ Live(t)
      BY <3>2, RetriedType
    <3>4. fq' = [fq EXCEPT ![r] = t]
      BY <2>1, <3>1, <3>3 DEF HandlerThrows
    <3>5. /\ fq' \in [Refs -> FulfilJob] /\ \A s \in Refs : Live(fq'[s])
          /\ \A s \in Refs : s # r => fq'[s] = fq[s]
      BY <1>1, <3>3, <3>4 DEF Sane, FulfilJobs
    <3>6. \A x \in FulfilWorkers :
             ~Free(x)' => /\ proc'[x] = proc[x] /\ ~Free(x)
                          /\ proc[x].r # r /\ proc[x].r \in Refs
      BY <1>2, <1>3, <2>1, <3>1, IdleType, InHand, Kinds DEF Sane, FulfilJobs, Free, At
    <3>7. QED
      BY <3>5, <3>6 DEF Sane, FulfilJobs
  <2>2. CASE p \notin FulfilWorkers
    BY <1>1, <1>2, <2>2, IdleType, FulfilKept DEF HandlerThrows
  <2>3. QED
    BY <2>1, <2>2
<1>7. ProvisionJobs' /\ pq' \in [Orders \cup Vouchers -> ProvisionJob]
  <2>1. CASE p \in ProvisionWorkers
    <3>1. PICK j \in Orders \cup Vouchers : j = JobOf(p) /\ pq[j].st = "active"
      BY <2>1, <1>2, JobType
    <3>2. pq[j] \in ProvisionJob /\ Live(pq[j])
      BY <1>1, <3>1 DEF Sane, ProvisionJobs
    <3>3. PICK t \in ProvisionJob : t = Retried(pq[j]) /\ Live(t)
      BY <3>1, <3>2, RetriedType
    <3>4. pq' = [pq EXCEPT ![j] = t]
      BY <2>1, <3>1, <3>3 DEF HandlerThrows
    <3>5. /\ pq' \in [Orders \cup Vouchers -> ProvisionJob]
          /\ \A s \in Orders \cup Vouchers : Live(pq'[s])
          /\ \A s \in Orders \cup Vouchers : s # j => pq'[s] = pq[s]
      BY <1>1, <3>3, <3>4 DEF Sane, ProvisionJobs
    <3>6. ASSUME NEW x \in ProvisionWorkers, ~Free(x)'
          PROVE  /\ JobOf(x)' = JobOf(x) /\ ~Free(x)
                 /\ JobOf(x) # j /\ pq'[JobOf(x)].st = "active"
      <4>1. x # p /\ x \in Procs
        BY <1>3, <3>6, IdleType, Kinds DEF Free, At
      <4>2. JobOf(x)' = JobOf(x) /\ ~Free(x)
        BY <1>3, <3>6, <4>1 DEF Free, At, JobOf
      <4>3. JobOf(x) # j
        BY <1>2, <2>1, <3>1, <4>1, <4>2 DEF Sane, ProvisionJobs
      <4>4. QED
        BY <3>5, <4>2, <4>3, JobType
    <3>7. QED
      BY <3>5, <3>6 DEF Sane, ProvisionJobs
  <2>2. CASE p \notin ProvisionWorkers
    BY <1>1, <1>2, <2>2, IdleType, ProvisionKept DEF HandlerThrows
  <2>3. QED
    BY <2>1, <2>2
<1>8. TypeOK'
  BY <1>3, <1>4, <1>6, <1>7, Parts DEF RowsOK, TypeOK
<1>9. QED
  BY <1>4, <1>5, <1>6, <1>7, <1>8 DEF Sane

(* The process dies: every handler is gone, active jobs are stalled.       *)
LEMMA CrashSane ==
    ASSUME Sane, Crash
    PROVE  Sane'
<1>1. /\ fq \in [Refs -> FulfilJob] /\ pq \in [Orders \cup Vouchers -> ProvisionJob]
      /\ RowsOK /\ PaymentRows
  BY Parts DEF Sane
<1>2. RowsOK' /\ PaymentRows'
  BY <1>1, RowsStay DEF Crash
<1>3. \A p \in Procs : proc'[p] = Idle /\ Free(p)'
  BY IdleType DEF Crash, Free, At
<1>4. proc' \in [Procs -> Handler]
  BY IdleType DEF Crash
<1>5. Handlers'
  BY <1>3, IdleFits DEF Handlers, Fits, HasRow
<1>6. FulfilJobs' /\ fq' \in [Refs -> FulfilJob]
  BY <1>1, <1>3, StalledType, Kinds DEF Sane, FulfilJobs, Crash
<1>7. ProvisionJobs' /\ pq' \in [Orders \cup Vouchers -> ProvisionJob]
  BY <1>1, <1>3, StalledType, Kinds DEF Sane, ProvisionJobs, Crash
<1>8. TypeOK'
  BY <1>2, <1>4, <1>6, <1>7 DEF RowsOK, TypeOK
<1>9. QED
  BY <1>2, <1>5, <1>6, <1>7, <1>8 DEF Sane

------------------------------------------------------------------------------
(* Every step.                                                             *)

(* All together.                                                           *)
LEMMA InitSane == Init => Sane
<1> SUFFICES ASSUME Init PROVE Sane
  OBVIOUS
<1>1. TypeOK
  BY CheckoutAssumption, IdleType, NoJobType
     DEF Init, TypeOK, OrderStatus, NoPayment, PaymentRow, PaymentStatus, NoVoucher, VoucherRow,
         VoucherStatus, NoSession, SessionRow, NoCharge, Charge, ChargeState
<1>2. \A p \in Procs : Free(p) /\ proc[p] = Idle
  BY IdleType DEF Init, Free, At
<1>3. Handlers
  BY <1>2, IdleFits DEF Handlers
<1>4. FulfilJobs /\ ProvisionJobs
  BY <1>2, NoJobType, Kinds DEF FulfilJobs, ProvisionJobs, Init
<1>5. PaymentRows
  BY DEF PaymentRows, Init, NoPayment
<1>6. QED
  BY <1>1, <1>3, <1>4, <1>5 DEF Sane

(* A handler's step, of a request or of a worker.                          *)
LEMMA FulfilStepSane ==
    ASSUME Sane, NEW p \in Requests \cup FulfilWorkers, FulfilStep(p)
    PROVE  Sane'
BY FulfilVerifySane, FulfilLoadSane, FulfilUnderpaidSane, FulfilReadSane, FulfilCommitSane,
   EnqueueProvisioningSane DEF FulfilStep

(* A request goes on.                                                      *)
LEMMA RequestStepSane ==
    ASSUME Sane, NEW p \in Requests, RequestStep(p)
    PROVE  Sane'
<1>1. CASE FulfilStep(p)
  BY <1>1, FulfilStepSane
<1>2. CASE InitializeStep(p)
  BY <1>2, InitializeGatewaySane, InitializeWriteSane DEF InitializeStep
<1>3. CASE HookStep(p)
  BY <1>3, HookFindSane, HookRecordSane, HookRecheckSane, HookEnqueueSane, ReversalFindSane,
     ReversalRevokeSane, ReversalMarkSane DEF HookStep
<1>4. CASE PortalStep(p)
  BY <1>4, InitPaymentRowSane, InitPaymentGatewaySane, LandingVerifySane,
     AdminVerifyAnswerSane, VerifiedCommitSane, RetrieveVerifySane, RetrieveCommitSane,
     ApprovePriorSane, ApprovePaymentSane, ApproveVoucherSane, RedeemEnqueueSane
     DEF PortalStep
<1>5. QED
  BY <1>1, <1>2, <1>3, <1>4 DEF RequestStep

(* A request starts.                                                       *)
LEMMA StartRequestSane ==
    ASSUME Sane, NEW p \in Requests, StartRequest(p)
    PROVE  Sane'
BY InitPaymentSane, InitializeReadSane, PollStatusSane, LandingSane, AdminVerifySane,
   RetrieveSane, ApproveSane, ReconcileSane, RedeemSane, DeliverSane DEF StartRequest

(* A fulfilment worker's turn.                                             *)
LEMMA FulfilWorkerSane ==
    ASSUME Sane, NEW w \in FulfilWorkers, FulfilWorker(w)
    PROVE  Sane'
BY TakeFulfilJobSane, FulfilStepSane DEF FulfilWorker

(* A provisioning worker's turn.                                           *)
LEMMA ProvisionWorkerSane ==
    ASSUME Sane, NEW w \in ProvisionWorkers, ProvisionWorker(w)
    PROVE  Sane'
BY TakeOrderJobSane, TakeVoucherJobSane, ProvisionVoucherSane, ProvisionMintSane,
   ProvisionPushSane, ProvisionSessionSane, ProvisionCommitSane, VoucherPushSane,
   VoucherSessionSane, VoucherCommitSane DEF ProvisionWorker, ProvisionStep

(* Every step keeps the invariant of the types.                            *)
LEMMA StepSane == Sane /\ [Next]_vars => Sane'
<1>1. ASSUME Sane, UNCHANGED vars PROVE Sane'
  BY <1>1 DEF vars, Sane, TypeOK, Handlers, Fits, HasRow, FulfilJobs, ProvisionJobs,
     PaymentRows, Free, At, JobOf
<1>2. ASSUME Sane, Next PROVE Sane'
  BY <1>2, StartRequestSane, RequestStepSane, FulfilWorkerSane, ProvisionWorkerSane,
     CreateOrderSane, SubmitTransferSane, GatewaySuccessSane,
     GatewayReversalSane, HandlerThrowsSane, CrashSane DEF Next, Gateway
<1>3. QED
  BY <1>1, <1>2

(* So every reachable state is as it should be.                            *)
LEMMA AlwaysSane == Spec => []Sane
BY InitSane, StepSane, PTL DEF Spec

(* The tables, the queues, the gateway and the handlers keep their types,  *)
(* with any number of orders, references, workers and requests: no handler *)
(* ever writes an order's status into a payment, works on a reference it   *)
(* does not have, or takes a job below zero attempts.                      *)
THEOREM TypeCorrect == Spec => []TypeOK
<1>1. Sane => TypeOK
  BY DEF Sane
<1>2. QED
  BY <1>1, AlwaysSane, PTL
=============================================================================
