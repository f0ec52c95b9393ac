--------------------------- MODULE ActivationCodes ---------------------------
(***************************************************************************)
(* Activation: an account unlocks the product by redeeming a code, or by   *)
(* applying for access, which the system administrator grants as a code or *)
(* directly.  A redemption is a row of a ledger and, in a second statement *)
(* and no transaction, a count on the code: every await is a step of its   *)
(* own.  Venues are left out: a code bound to one refuses another's        *)
(* account, as if it had not been asked.  Time is a flag that a code's     *)
(* expiresAt has passed.                                                   *)
(***************************************************************************)
EXTENDS Naturals, FiniteSets

CONSTANTS
    Codes,        \* the bound on codes ever created
    Emails,       \* accounts
    Applications, \* the bound on activation requests ever made
    Requests,     \* slots for HTTP handlers running at once
    MaxQuota,     \* the largest quota a MASTER code is given
    MaxFaults,    \* bound on crashes and thrown awaits
    None          \* SQL NULL, or "not in use"

ASSUME ActivationAssumption ==
    /\ None \notin Codes \cup Emails \cup Applications
    /\ IsFiniteSet(Emails)
    /\ IsFiniteSet(Requests) /\ Requests # {}
    /\ MaxQuota \in Nat \ {0}
    /\ MaxFaults \in Nat

VARIABLES
    code,        \* the ActivationCode rows
    ledger,      \* the ActivationRedemption rows: (codeId, email) is unique
    application, \* the ActivationRequest rows
    proc,        \* the handlers
    faults       \* crashes and thrown awaits so far

vars == <<code, ledger, application, proc, faults>>

------------------------------------------------------------------------------

(* PENDING is read but never written.                                      *)
CodeStatus == {"NONE", "AUTHORIZED", "USED", "REVOKED", "EXPIRED"}
CodeRow == [st : CodeStatus,
            multi : BOOLEAN,   \* kind = 'MASTER'
            quota : Nat,
            used : Nat,        \* usedCount
            past : BOOLEAN,    \* expiresAt is behind
            direct : BOOLEAN]  \* a pre-redeemed DIRECT- grant
NoCode == [st |-> "NONE", multi |-> FALSE, quota |-> 0, used |-> 0,
           past |-> FALSE, direct |-> FALSE]

(* ActivationRequestStatus; APPROVED is never written.                     *)
ApplicationStatus == {"NONE", "PENDING", "REJECTED", "GRANTED"}
ApplicationRow == [st : ApplicationStatus,
                   email : Emails \cup {None},
                   grant : Codes \cup {None}]  \* grantedCodeId
NoApplication == [st |-> "NONE", email |-> None, grant |-> None]

PC == {"idle", "red_expire", "red_ledger", "red_write",
       "code_mint", "direct_mint", "direct_ledger", "grant_write"}

Handler == [pc : PC,
            c : Codes \cup {None},        \* the code it works on
            e : Emails \cup {None},       \* the account it works for
            a : Applications \cup {None}, \* the application it decides
            last : BOOLEAN]               \* the redemption it counts uses up the quota
Idle == [pc |-> "idle", c |-> None, e |-> None, a |-> None, last |-> FALSE]

TypeOK ==
    /\ code \in [Codes -> CodeRow]
    /\ ledger \subseteq Codes \X Emails
    /\ application \in [Applications -> ApplicationRow]
    /\ proc \in [Requests -> Handler]
    /\ faults \in 0 .. MaxFaults

Init ==
    /\ code = [c \in Codes |-> NoCode]
    /\ ledger = {}
    /\ application = [a \in Applications |-> NoApplication]
    /\ proc = [p \in Requests |-> Idle]
    /\ faults = 0

At(p, pc) == proc[p].pc = pc
Goto(p, pc) == proc' = [proc EXCEPT ![p].pc = pc]
Return(p) == proc' = [proc EXCEPT ![p] = Idle]

Redeemers(c) == {e \in Emails : <<c, e>> \in ledger}

------------------------------------------------------------------------------
(* Codes: generated, authorized or revoked, swept.                         *)

(* One round of generateActivationCodes' loop.  Only a MASTER code has a   *)
(* quota of its own.                                                       *)
NewCode(c, multi, quota) ==
    /\ code[c].st = "NONE"
    /\ multi \/ quota = 1
    /\ code' = [code EXCEPT ![c] = [NoCode EXCEPT !.st = "AUTHORIZED",
                                                  !.multi = multi, !.quota = quota]]

Generate(c) ==
    /\ \E multi \in BOOLEAN, quota \in 1 .. MaxQuota : NewCode(c, multi, quota)
    /\ UNCHANGED <<ledger, application, proc, faults>>

(* Mutant: an authorized code starts afresh.                               *)
AuthorizeRefills(c) ==
    /\ code[c].st # "NONE"
    /\ \E st \in {"AUTHORIZED", "REVOKED"} :
          code' = [code EXCEPT ![c].st = st, ![c].used = 0]
    /\ UNCHANGED <<ledger, application, proc, faults>>

(* authorizeActivationCode: whatever the code has become.                  *)
Authorize(c) ==
    /\ code[c].st # "NONE"
    /\ \E st \in {"AUTHORIZED", "REVOKED"} : code' = [code EXCEPT ![c].st = st]
    /\ UNCHANGED <<ledger, application, proc, faults>>

(* Time passes a code's expiresAt, if it has one.                          *)
Lapse(c) ==
    /\ code[c].st # "NONE"
    /\ ~code[c].past
    /\ code' = [code EXCEPT ![c].past = TRUE]
    /\ UNCHANGED <<ledger, application, proc, faults>>

(* sweepExpiredCodes, by which listActivationCodes and                     *)
(* checkAccountActivation start: one updateMany.                           *)
Sweep ==
    /\ code' = [c \in Codes |->
                  IF code[c].past /\ code[c].st \in {"AUTHORIZED", "USED"}
                  THEN [code[c] EXCEPT !.st = "EXPIRED"] ELSE code[c]]
    /\ UNCHANGED <<ledger, application, proc, faults>>

------------------------------------------------------------------------------
(* redeemActivationCode().                                                 *)

IsExpired(c) == code[c].st = "EXPIRED" \/ code[c].past

(* Mutant: the count is left out, and the status trusted.                  *)
RedeemByStatus(p, c, e) ==
    /\ At(p, "idle")
    /\ ~IsExpired(c)
    /\ code[c].st = "AUTHORIZED"
    /\ proc' = [proc EXCEPT ![p] = [Idle EXCEPT
                  !.pc = "red_ledger", !.c = c, !.e = e,
                  !.last = ~code[c].multi \/ code[c].used + 1 >= code[c].quota]]
    /\ UNCHANGED <<code, ledger, application, faults>>

(* The code is read and every check is made on what was read; the status   *)
(* to be written is computed from it, too.  An expired code is marked so,  *)
(* any other unfit one is left alone.                                      *)
Redeem(p, c, e) ==
    /\ At(p, "idle")
    /\ \/ /\ IsExpired(c) /\ code[c].st \notin {"NONE", "EXPIRED"}
          /\ proc' = [proc EXCEPT ![p] = [Idle EXCEPT !.pc = "red_expire", !.c = c]]
       \/ /\ ~IsExpired(c)
          /\ code[c].st = "AUTHORIZED"
          /\ code[c].used < code[c].quota
          /\ proc' = [proc EXCEPT ![p] = [Idle EXCEPT
                        !.pc = "red_ledger", !.c = c, !.e = e,
                        !.last = ~code[c].multi \/ code[c].used + 1 >= code[c].quota]]
    /\ UNCHANGED <<code, ledger, application, faults>>

RedeemExpire(p) ==
    /\ At(p, "red_expire")
    /\ code' = [code EXCEPT ![proc[p].c].st = "EXPIRED"]
    /\ Return(p)
    /\ UNCHANGED <<ledger, application, faults>>

(* Mutant: an account that has the code is no reason to stop.              *)
RedeemLedgerAgain(p) ==
    /\ At(p, "red_ledger")
    /\ ledger' = ledger \cup {<<proc[p].c, proc[p].e>>}
    /\ Goto(p, "red_write")
    /\ UNCHANGED <<code, application, faults>>

(* The ledger row; an account that has one for the code is refused (P2002).*)
RedeemLedger(p) ==
    LET grant == <<proc[p].c, proc[p].e>> IN
    /\ At(p, "red_ledger")
    /\ IF grant \in ledger THEN Return(p) ELSE Goto(p, "red_write")
    /\ ledger' = ledger \cup {grant}
    /\ UNCHANGED <<code, application, faults>>

(* The count is incremented, the status overwritten.                       *)
RedeemWrite(p) ==
    LET c == proc[p].c IN
    /\ At(p, "red_write")
    /\ code' = [code EXCEPT ![c].st = IF proc[p].last THEN "USED" ELSE "AUTHORIZED",
                            ![c].used = @ + 1]
    /\ Return(p)
    /\ UNCHANGED <<ledger, application, faults>>

------------------------------------------------------------------------------
(* Applications for access.                                                *)

(* createActivationRequest.  A pending application of the account is       *)
(* returned instead, but not for another venue, nor if both are made at    *)
(* once: any account may have any number.                                  *)
Apply(a, e) ==
    /\ application[a].st = "NONE"
    /\ application' = [application EXCEPT ![a] =
                         [st |-> "PENDING", email |-> e, grant |-> None]]
    /\ UNCHANGED <<code, ledger, proc, faults>>

(* approveActivationRequest: the decision is checked on what was read.     *)
Approve(p, a) ==
    /\ At(p, "idle")
    /\ application[a].st = "PENDING"
    /\ \E mode \in {"code_mint", "direct_mint"} :
          proc' = [proc EXCEPT ![p] = [Idle EXCEPT
                     !.pc = mode, !.a = a, !.e = application[a].email]]
    /\ UNCHANGED <<code, ledger, application, faults>>

(* As a code, with a quota of one: the applicant is to redeem it.          *)
CodeMint(p) ==
    /\ At(p, "code_mint")
    /\ \E c \in Codes :
          /\ \E multi \in BOOLEAN : NewCode(c, multi, 1)
          /\ proc' = [proc EXCEPT ![p].pc = "grant_write", ![p].c = c]
    /\ UNCHANGED <<ledger, application, faults>>

(* Mutant: the application is decided before the ledger row is written.    *)
DirectMintDecides(p) ==
    /\ At(p, "direct_mint")
    /\ \E c \in Codes :
          /\ code[c].st = "NONE"
          /\ code' = [code EXCEPT ![c] = [NoCode EXCEPT
                        !.st = "USED", !.quota = 1, !.used = 1, !.direct = TRUE]]
          /\ proc' = [proc EXCEPT ![p].pc = "grant_write", ![p].c = c]
    /\ UNCHANGED <<ledger, application, faults>>

(* Directly: a code that is used up already, then its ledger row.          *)
DirectMint(p) ==
    /\ At(p, "direct_mint")
    /\ \E c \in Codes :
          /\ code[c].st = "NONE"
          /\ code' = [code EXCEPT ![c] = [NoCode EXCEPT
                        !.st = "USED", !.quota = 1, !.used = 1, !.direct = TRUE]]
          /\ proc' = [proc EXCEPT ![p].pc = "direct_ledger", ![p].c = c]
    /\ UNCHANGED <<ledger, application, faults>>

DirectLedger(p) ==
    /\ At(p, "direct_ledger")
    /\ ledger' = ledger \cup {<<proc[p].c, proc[p].e>>}
    /\ Goto(p, "grant_write")
    /\ UNCHANGED <<code, application, faults>>

(* The decision, whatever the application has become.                      *)
GrantWrite(p) ==
    /\ At(p, "grant_write")
    /\ application' = [application EXCEPT ![proc[p].a].st = "GRANTED",
                                          ![proc[p].a].grant = proc[p].c]
    /\ Return(p)
    /\ UNCHANGED <<code, ledger, faults>>

(* Mutant: a status of codes is written to an application.                 *)
RejectRevokes(a) ==
    /\ application[a].st # "NONE"
    /\ application' = [application EXCEPT ![a].st = "REVOKED"]
    /\ UNCHANGED <<code, ledger, proc, faults>>

(* rejectActivationRequest has no guard: a granted one is rejected, too.   *)
Reject(a) ==
    /\ application[a].st # "NONE"
    /\ application' = [application EXCEPT ![a].st = "REJECTED"]
    /\ UNCHANGED <<code, ledger, proc, faults>>

------------------------------------------------------------------------------
(* An await throws, or the process dies: the handlers' locals are gone.    *)
Fault == faults < MaxFaults /\ faults' = faults + 1

HandlerThrows(p) ==
    /\ ~At(p, "idle")
    /\ Fault
    /\ Return(p)
    /\ UNCHANGED <<code, ledger, application>>

Crash ==
    /\ \E p \in Requests : ~At(p, "idle")
    /\ Fault
    /\ proc' = [p \in Requests |-> Idle]
    /\ UNCHANGED <<code, ledger, application>>

RequestStep(p) ==
    \/ \E c \in Codes, e \in Emails : Redeem(p, c, e)
    \/ RedeemExpire(p)
    \/ RedeemLedger(p)
    \/ RedeemWrite(p)
    \/ \E a \in Applications : Approve(p, a)
    \/ CodeMint(p)
    \/ DirectMint(p)
    \/ DirectLedger(p)
    \/ GrantWrite(p)
    \/ HandlerThrows(p)

Next ==
    \/ \E p \in Requests : RequestStep(p)
    \/ \E c \in Codes : Generate(c) \/ Authorize(c) \/ Lapse(c)
    \/ Sweep
    \/ \E a \in Applications : Reject(a) \/ \E e \in Emails : Apply(a, e)
    \/ Crash

Spec == Init /\ [][Next]_vars

------------------------------------------------------------------------------
(* Safety.                                                                 *)

(* The handlers that passed the checks for c and have not counted yet.     *)
Redeeming(c) == {p \in Requests : proc[p].c = c /\ proc[p].pc \in {"red_ledger", "red_write"}}

(* The quota is not exact: two accounts may redeem a single-use code at    *)
(* once, and a handler that dies between the ledger row and the count      *)
(* leaves its redemption uncounted.  But this is all: what a code gives    *)
(* away is bounded by its quota, the requests that run at once and those   *)
(* that were cut short, though the code is revoked, authorized again,      *)
(* swept and overwritten from stale reads on the way.                      *)
QuotaBounded ==
    \A c \in Codes : code[c].st # "NONE" =>
        Cardinality(Redeemers(c)) + 1 <=
            code[c].quota + Cardinality(Requests) * (1 + faults)

(* No use is counted that nobody got: the count is backed by the ledger,   *)
(* so no account's double redemption and no failure burns the quota of the *)
(* others.                                                                 *)
CountBacked ==
    \A c \in Codes : ~code[c].direct => code[c].used <= Cardinality(Redeemers(c))

(* The accounts that hold a code, or may still get it from a handler that  *)
(* is past its checks.                                                     *)
Claims(c) ==
    Redeemers(c) \cup
        {proc[p].e : p \in {q \in Requests :
            proc[q].c = c /\ proc[q].pc \in {"red_ledger", "red_write", "direct_ledger"}}}

(* A code that is used up is closed for good: whatever is authorized again *)
(* or written back from a stale read, nobody joins those who hold it or    *)
(* were already being given it, and its count never falls below its quota. *)
UsedUpIsClosed ==
    [][\A c \in Codes :
          code[c].st # "NONE" /\ code[c].used >= code[c].quota =>
              /\ Claims(c)' \subseteq Claims(c)
              /\ code'[c].used >= code'[c].quota]_vars

(* GRANTED is only told of access that was given: the direct grant of an   *)
(* application is on the ledger for its account, though the handler can    *)
(* die after any step, be run again, or decide beside another.             *)
GrantedHasAccess ==
    \A a \in Applications :
        application[a].st = "GRANTED" =>
            LET c == application[a].grant IN
            /\ c # None
            /\ code[c].direct => Redeemers(c) = {application[a].email}

------------------------------------------------------------------------------
(* Why they hold: an invariant that is inductive.                          *)

(* The handlers that wrote their ledger row and have not counted it yet.   *)
Counting(c) == {p \in Requests : proc[p].c = c /\ proc[p].pc = "red_write"}

(* A row that is not there has left no trace.                              *)
Untouched(c) == code[c].used = 0 /\ ~code[c].direct /\ Redeemers(c) = {}

(* A handler works on a code that is there, of the kind its step is for,   *)
(* and for the account of its application.                                 *)
HandlerOK(p) ==
    LET h == proc[p] IN
    /\ h.pc \in {"red_expire", "red_ledger", "red_write", "direct_ledger", "grant_write"} =>
           h.c \in Codes /\ code[h.c].st # "NONE"
    /\ h.pc \in {"red_ledger", "red_write"} => h.e \in Emails /\ ~code[h.c].direct
    /\ h.pc \in {"code_mint", "direct_mint", "direct_ledger", "grant_write"} =>
           /\ h.a \in Applications
           /\ application[h.a].st # "NONE"
           /\ h.e = application[h.a].email
    /\ h.pc = "direct_ledger" => code[h.c].direct /\ Redeemers(h.c) = {}
    /\ h.pc = "grant_write" /\ code[h.c].direct => Redeemers(h.c) = {h.e}

(* A direct grant is written to the ledger by the handler that minted it.  *)
OneMinter ==
    \A p, q \in Requests :
        At(p, "direct_ledger") /\ At(q, "direct_ledger") /\ proc[p].c = proc[q].c => p = q

(* What an application was granted stays granted.                          *)
ApplicationOK(a) ==
    LET r == application[a] IN
    /\ r.st # "NONE" => r.email \in Emails
    /\ r.st = "GRANTED" =>
          /\ r.grant \in Codes
          /\ code[r.grant].st # "NONE"
          /\ code[r.grant].direct => Redeemers(r.grant) = {r.email}

(* The count and the ledger, up to the handlers between the two and the    *)
(* redemptions lost there; and the quota, up to those that passed it       *)
(* together.                                                               *)
CodeOK(c) ==
    /\ code[c].st = "NONE" => Untouched(c)
    /\ code[c].direct =>
          code[c].quota = 1 /\ code[c].used = 1 /\ Cardinality(Redeemers(c)) <= 1
    /\ ~code[c].direct =>
          /\ code[c].used + Cardinality(Counting(c)) <= Cardinality(Redeemers(c))
          /\ Cardinality(Redeemers(c)) <=
                code[c].used + Cardinality(Counting(c)) + Cardinality(Requests) * faults
    /\ code[c].st # "NONE" /\ ~code[c].direct =>
          code[c].used + Cardinality(Redeeming(c)) + 1 <=
              code[c].quota + Cardinality(Requests)

Accounted ==
    /\ \A p \in Requests : HandlerOK(p)
    /\ OneMinter
    /\ \A a \in Applications : ApplicationOK(a)
    /\ \A c \in Codes : CodeOK(c)

=============================================================================
