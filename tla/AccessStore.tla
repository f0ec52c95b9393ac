----------------------------- MODULE AccessStore -----------------------------
(***************************************************************************)
(* What a guest's access is made of once a code exists: the Voucher and    *)
(* Session rows, the mikrotik-provisioning jobs, the owner's unread alerts *)
(* and, on the other side of the network, the hotspot users and the bypass *)
(* bindings of the venue's router and the script it has pulled.            *)
(*                                                                         *)
(* Checkout follows a voucher until it is paid for and queued; here it is  *)
(* claimed, handed from device to device, synchronised, swept and revoked  *)
(* while the router learns of it by push and by pull.  Statements are      *)
(* steps of their own, as in CheckoutStore.                                *)
(***************************************************************************)
EXTENDS Naturals, FiniteSets, Sequences

CONSTANTS
    Codes,       \* voucher codes; a code is one row at most (codeHash is unique)
    ShortCodes,  \* those of six digits, as the checkout draws them
    Devices,     \* MAC addresses of guests
    Venues,      \* venues, each with the plan its vouchers are for
    Requests,    \* slots for HTTP handlers running at once
    Workers,     \* consumers of the mikrotik-provisioning queue
    Scenarios,   \* what the behaviours of an instance exercise: see enabled
    SyncLimit,   \* vouchers in one sync script (take: 100)
    MaxFaults,   \* bound on crashes, thrown awaits and router failures
    None         \* SQL NULL, or "not in use"

(* What a behaviour may exercise, each for the codes it names: requests,   *)
(* the worker's push, the router's pull, and what time and use do.  One    *)
(* that is not "concurrent" has one request at a time.                     *)
Endpoint == {"batch", "sync", "sale", "redeem", "retrieve", "revoke",
             "push", "disconnect", "cleanup", "overdue", "read alerts",
             "pull", "spend", "lapse", "concurrent"}

ASSUME AccessAssumption ==
    /\ None \notin Codes \cup Devices \cup Venues
    /\ Venues # {}
    /\ ShortCodes \subseteq Codes
    /\ Requests \cap Workers = {}
    /\ Scenarios \subseteq SUBSET (Endpoint \X Codes)
    /\ SyncLimit \in Nat
    /\ MaxFaults \in Nat

VARIABLES
    voucher,  \* the Voucher row of every code
    session,  \* the Session rows, by the job that made them
    pq,       \* the mikrotik-provisioning queue, by jobId
    alert,    \* unread PROVISIONING notifications, by the order's code
    user,     \* the router's hotspot users, by name
    binding,  \* the router's bypass bindings, by MAC
    script,   \* the sync script the router holds
    cleaning, \* the cleanup timer is between the router and the database
    proc,     \* the handlers
    printed,  \* the codes a venue was told it may sell (history)
    faults,   \* crashes, thrown awaits and router failures so far
    enabled   \* what this behaviour exercises; it never changes

router == <<user, binding, script>>
store == <<voucher, session, pq, alert, user, binding, script, cleaning, proc,
           printed, faults, enabled>>

------------------------------------------------------------------------------
VoucherStatus == {"NONE", "ISSUED", "ACTIVE", "REDEEMED", "REVOKED", "EXPIRED"}
Claimed == {"ACTIVE", "REDEEMED"}   \* what the sync script lists
Closed == {"REVOKED", "EXPIRED"}
Mac == Devices \cup {None}
Life == {"none", "ahead", "past"}   \* expiresAt: null, to come, passed

(* mac is redeemedMac, paid says that paymentId is set, and buyer is the   *)
(* customerRef of that payment's order.                                    *)
VoucherRow == [st : VoucherStatus, venue : Venues \cup {None}, mac : Mac,
               life : Life, paid : BOOLEAN, buyer : Mac]
NoVoucher == [st |-> "NONE", venue |-> None, mac |-> None, life |-> "none",
              paid |-> FALSE, buyer |-> None]

(* A provisioning job is of an order or of a voucher; both are named here  *)
(* by the code.                                                            *)
JobIds == {"order", "voucher"} \X Codes
JobState == {"none", "waiting", "active"}

(* A session row, ACTIVE until and beyond its expiresAt, and its ends.     *)
SessionState == {"ACTIVE", "OVERDUE", "EXPIRED", "ENDED"}

(* A binding's comment is "WP:" or "WavePass:" and the code.               *)
Binding == [tag : {"WP", "WavePass"}, code : Codes]
ScriptRow == [code : Codes, mac : Mac]
NoScript == [held |-> FALSE, rows |-> {}]

PC == {"idle", "batch_read", "batch_insert", "batch_again",
       "sync_expire", "sync_create", "redeem_claim", "redeem_enqueue",
       "retrieve_bind", "retrieve_enqueue", "disconnect_write",
       "push", "bind", "alert", "alert_write", "session", "commit"}

Handler == [pc : PC,
            code : Codes \cup {None},
            mac : Mac,                               \* the caller's, or the job's
            row : VoucherRow,                        \* what it read, or will write
            want : SUBSET Codes,                     \* a batch's rows
            fresh : SUBSET Codes,                    \* those found missing
            kind : {"order", "voucher", None}]       \* the job's or session's kind

Idle == [pc |-> "idle", code |-> None, mac |-> None, row |-> NoVoucher,
         want |-> {}, fresh |-> {}, kind |-> None]

Procs == Requests \cup Workers

(* The venue whose router this is; it is also the one that sells online.   *)
Home == CHOOSE s \in Venues : TRUE

TypeOK ==
    /\ voucher \in [Codes -> VoucherRow]
    /\ session \in [JobIds -> Seq(SessionState)]
    /\ pq \in [JobIds -> JobState]
    /\ alert \in [Codes -> Nat]
    /\ user \in [Codes -> {"none", "live", "spent"}]
    /\ binding \in [Devices -> Binding \cup {None}]
    /\ script \in [held : BOOLEAN, rows : SUBSET ScriptRow]
    /\ cleaning \in BOOLEAN
    /\ proc \in [Procs -> Handler]
    /\ printed \in [Venues -> SUBSET Codes]
    /\ faults \in 0 .. MaxFaults
    /\ enabled \in Scenarios

StoreInit ==
    /\ voucher = [c \in Codes |-> NoVoucher]
    /\ session = [j \in JobIds |-> <<>>]
    /\ pq = [j \in JobIds |-> "none"]
    /\ alert = [c \in Codes |-> 0]
    /\ user = [c \in Codes |-> "none"]
    /\ binding = [m \in Devices |-> None]
    /\ script = NoScript
    /\ cleaning = FALSE
    /\ proc = [p \in Procs |-> Idle]
    /\ printed = [s \in Venues |-> {}]
    /\ faults = 0
    /\ enabled \in Scenarios

------------------------------------------------------------------------------
On(what, c) == <<what, c>> \in enabled
Somewhere(what) == \E c \in Codes : On(what, c)
At(p, pc) == proc[p].pc = pc
Free(p) == At(p, "idle")
Goto(p, pc) == proc' = [proc EXCEPT ![p].pc = pc]
Return(p) == proc' = [proc EXCEPT ![p] = Idle]
Fault == faults < MaxFaults /\ faults' = faults + 1

(* MikrotikProvisioningQueue.enqueue: the jobId is the order's or the      *)
(* voucher's, and BullMQ ignores the add while a job has it.               *)
Enqueued(j) == [pq EXCEPT ![j] = IF @ = "none" THEN "waiting" ELSE @]

(* sweepExpiredVouchers: unsold stock past its date, in one statement.     *)
Swept == [c \in Codes |->
            IF voucher[c].st = "ISSUED" /\ voucher[c].life = "past"
            THEN [voucher[c] EXCEPT !.st = "EXPIRED"] ELSE voucher[c]]

=============================================================================
