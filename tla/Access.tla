------------------------------- MODULE Access -------------------------------
(***************************************************************************)
(* A guest's access, composed: the voucher handlers and the provisioning   *)
(* worker over the database, and the router that is pushed to, pulls, and  *)
(* is cleaned, with the faults they meet.                                  *)
(***************************************************************************)
EXTENDS Vouchers, HotspotRouter

VARIABLE claimed  \* the codes that have ever been handed out or used (history)

vars == <<store, claimed>>

(* An await throws: a request answers 500 or swallows it, a job is retried *)
(* but for the binding and the alert, which see to it themselves.          *)
(* (MaxFaults is below the eight attempts of a job, so none is used up.)   *)
HandlerThrows(p) ==
    /\ ~Free(p)
    /\ ~At(p, "bind") /\ ~At(p, "alert") /\ ~At(p, "alert_write")
    /\ Fault
    /\ Return(p)
    /\ pq' = IF p \in Workers THEN [pq EXCEPT ![JobOf(p)] = "waiting"] ELSE pq
    /\ UNCHANGED <<voucher, session, alert, router, cleaning, printed>>

(* The process dies and restarts: the handlers and the timer's round are   *)
(* gone, active jobs are taken for stalled, the router knows nothing of it.*)
Crash ==
    /\ cleaning \/ \E p \in Procs : ~Free(p)
    /\ Fault
    /\ proc' = [p \in Procs |-> Idle]
    /\ pq' = [j \in JobIds |-> IF pq[j] = "active" THEN "waiting" ELSE pq[j]]
    /\ cleaning' = FALSE
    /\ UNCHANGED <<voucher, session, alert, router, printed>>

StartRequest(p) ==
    /\ Somewhere("concurrent") \/ \A q \in Requests : Free(q)
    /\ \/ \E s \in Venues, want \in SUBSET Codes, life \in {"none", "ahead"} :
             BatchStart(p, s, want, life)
       \/ \E s \in Venues, c \in Codes, st \in {"ISSUED", "EXPIRED"}, life \in {"none", "ahead"} :
             SyncRead(p, s, c, st, life)
       \/ \E c \in Codes, m \in Mac, known \in BOOLEAN : RedeemRead(p, c, m, known)
       \/ \E c \in Codes, m \in Devices : RetrieveRead(p, c, m)
       \/ \E j \in JobIds : \E i \in DOMAIN session[j] : Disconnect(p, j, i)

Server ==
    \/ \E p \in Requests : StartRequest(p) \/ VoucherStep(p) \/ DisconnectWrite(p)
    \/ \E w \in Workers : WorkerStep(w)
    \/ \E c \in Codes : Revoke(c)
    \/ \E c \in Codes, m \in Mac : Sell(c, m)
    \/ Sweep
    \/ MarkAllRead
    \/ CleanupRouter
    \/ CleanupSessions
    \/ Pull
    \/ \E p \in Procs : HandlerThrows(p)
    \/ Crash

Elsewhere ==
    \/ RunScript
    \/ \E c \in Codes : UserSpent(c) \/ VoucherLapses(c)
    \/ \E j \in JobIds : \E i \in DOMAIN session[j] : SessionLapses(j, i)

(* Every step keeps the history and stays in its scenario.                 *)
Step(A) ==
    /\ A
    /\ claimed' = claimed \cup {c \in Codes : voucher'[c].st \in Claimed}
    /\ UNCHANGED enabled

Next == Step(Server \/ Elsewhere)

Init == StoreInit /\ claimed = {}

Spec == Init /\ [][Next]_vars

(* The router's scheduler fetches and runs the script again and again, and *)
(* the timer cleans every minute; while it stands on the router it gets    *)
(* through in the end.                                                     *)
Fairness ==
    /\ WF_vars(Step(Pull))
    /\ WF_vars(Step(RunScript))
    /\ WF_vars(Step(CleanupRouter))
    /\ WF_vars(Step(CleanupSessions))

LiveSpec == Spec /\ Fairness

------------------------------------------------------------------------------
(* Nobody surfs on stock: the router has a user only for a code that was   *)
(* sold online or claimed at some time.  Push and pull both work from what *)
(* they read earlier, while codes are issued, synchronised and closed.     *)
OnlyClaimedOnRouter == \A c \in Codes : user[c] # "none" => c \in claimed

(* "A retried job must never duplicate sessions": however often a job is   *)
(* queued, retried or taken for stalled, it records one session.  (An      *)
(* order's job that comes after its voucher's does not see that session.)  *)
OneSessionPerJob == \A j \in JobIds : Len(session[j]) <= 1

(* notifyOnce is a look and then a create; what keeps the owner from two   *)
(* unread alerts of one order is that the order has one job.               *)
OneUnreadAlert == \A c \in Codes : alert[c] <= 1

(* What a venue was told it may print is in the table under its name, also *)
(* when two requests, of one venue or of two, raced for the code.          *)
PrintedIsStored ==
    \A s \in Venues : \A c \in printed[s] : OwnedBy(c, s)

(* A voucher as VoucherLife sees it; one that is ACTIVE was sold and is    *)
(* still to be used.                                                       *)
ClaimOf(st) ==
    CASE st = "NONE" -> "none"
      [] st \in {"ISSUED", "ACTIVE"} -> "open"
      [] st = "REDEEMED" -> "held"
      [] st \in Closed -> "closed"

Claims == [c \in Codes |-> ClaimOf(voucher[c].st)]
Holders == [c \in Codes |-> voucher[c].mac]

Promise == INSTANCE VoucherLife WITH claim <- Claims, holder <- Holders

(* Claimed once, closed for good, handed over by name only, whatever races *)
(* between a handler's look and its update: the handlers of vouchers, the  *)
(* worker and the sweeps implement VoucherLife.                            *)
LifeSpec == Promise!Spec

------------------------------------------------------------------------------
(* The cloud voucher is the source of truth: one that is claimed and       *)
(* current gets its router user by the pull alone, if every push fails, as *)
(* long as there are no more of them than one script holds.  (In the       *)
(* scenarios in which the router pulls.)                                   *)
TooMany == Cardinality(Listed) > SyncLimit
ClaimedReachesRouter ==
    \A c \in Codes : (Somewhere("pull") /\ c \in Listed)
                        ~> (user[c] # "none" \/ c \notin Listed \/ TooMany)

(* A session past its date does not stay ACTIVE, whether or not there was  *)
(* a user to remove: there is always again a time when none is overdue.    *)
Overdue == \E j \in JobIds : \E i \in DOMAIN session[j] : session[j][i] = "OVERDUE"
OverdueSessionEnds == Overdue ~> ~Overdue

(* A bypass the script made does not outlive its user.                     *)
Dangling ==
    \E m \in Devices : /\ binding[m] # None
                       /\ binding[m].tag = "WavePass"
                       /\ user[binding[m].code] = "none"
StaleBypassDropped == Dangling ~> ~Dangling

=============================================================================
