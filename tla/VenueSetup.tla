----------------------------- MODULE VenueSetup -----------------------------
(***************************************************************************)
(* What a venue is given when somebody first asks for it: its dedicated    *)
(* Paystack account, its four default plans and its default bank account.  *)
(* Each is a look and then a write, with other requests in between; none   *)
(* is in a transaction.  Paystack has a real key here: what rows of the    *)
(* mock era are left is an initial state.                                  *)
(***************************************************************************)
EXTENDS Naturals, FiniteSets

CONSTANTS
    Venues,
    Emails,     \* e-mail addresses clients give when they create an account
    Requests,   \* slots for HTTP handlers running at once
    Templates,  \* number of default plans (defaultTemplates has four)
    MaxBanks,   \* bound on the bank accounts of a venue
    Topics,     \* which of "account", "plans" and "bank" an instance exercises
    MaxFaults   \* bound on crashes, thrown awaits and Paystack failures

ASSUME VenueSetupAssumption ==
    /\ Venues # {} /\ Venues \cap {"shared", "mock", "pending"} = {}
    /\ Emails \cap (Venues \cup {"shared", "mock", "pending"}) = {}
    /\ IsFiniteSet(Requests)
    /\ Templates \in Nat \ {0}
    /\ MaxBanks \in Nat
    /\ MaxFaults \in Nat
    /\ Topics \subseteq {"account", "plans", "bank"}

VARIABLES
    account,  \* the VirtualAccount row of every venue (venueId is unique)
    plans,    \* active default plans of every venue, counted by template
    custom,   \* whether the venue has an active plan of its own making
    bank,     \* bank accounts of every venue: how many, how many are default
    proc,     \* the handlers
    faults,   \* crashes, thrown awaits and Paystack failures so far
    topic     \* what this behaviour exercises; it never changes

vars == <<account, plans, custom, bank, proc, faults, topic>>

(* Paystack has one customer, and so one number, for an e-mail address: a  *)
(* venue's own, made up of its id, or one a client gave, for any venue.    *)
(* Other numbers are shared since two venues of one name were given one    *)
(* account, of the mock era, or still pending.                             *)
Address == Venues \cup Emails
Number == Address \cup {"shared", "mock", "pending"}
Account == [st : {"NONE", "PENDING", "ACTIVE"}, num : Number]
NoAccount == [st |-> "NONE", num |-> "pending"]

Legacy == {NoAccount,
           [st |-> "PENDING", num |-> "pending"],
           [st |-> "ACTIVE", num |-> "mock"],
           [st |-> "ACTIVE", num |-> "shared"]}

PC == {"idle", "decide", "drop", "provider", "active_create", "active_update",
       "pending_create", "pending_update", "plan_create",
       "bank_recipient", "bank_count", "bank_create"}

Handler == [pc : PC,
            venue : Venues,
            email : Address,          \* the address it asks Paystack with
            row : Account,            \* the account it read
            collided : BOOLEAN,       \* it found the number at another venue
            next : 1 .. Templates,    \* the template it creates next
            first : BOOLEAN]          \* it counted no bank account

SomeVenue == CHOOSE v \in Venues : TRUE
Idle == [pc |-> "idle", venue |-> SomeVenue, email |-> SomeVenue, row |-> NoAccount,
         collided |-> FALSE, next |-> 1, first |-> FALSE]

TypeOK ==
    /\ account \in [Venues -> Account]
    /\ plans \in [Venues -> [1 .. Templates -> Nat]]
    /\ custom \in [Venues -> BOOLEAN]
    /\ bank \in [Venues -> [rows : 0 .. MaxBanks, default : 0 .. MaxBanks]]
    /\ proc \in [Requests -> Handler]
    /\ faults \in 0 .. MaxFaults
    /\ topic \in Topics

Init ==
    /\ topic \in Topics
    /\ account \in [Venues -> IF topic = "account" THEN Legacy ELSE {NoAccount}]
    /\ plans = [v \in Venues |-> [t \in 1 .. Templates |-> 0]]
    /\ custom = [v \in Venues |-> FALSE]
    /\ bank = [v \in Venues |-> [rows |-> 0, default |-> 0]]
    /\ proc = [p \in Requests |-> Idle]
    /\ faults = 0

At(p, pc) == proc[p].pc = pc
Goto(p, pc) == proc' = [proc EXCEPT ![p].pc = pc]
Return(p) == proc' = [proc EXCEPT ![p] = Idle]
Fault == faults < MaxFaults /\ faults' = faults + 1

------------------------------------------------------------------------------
(* Dedicated accounts: ensureForVenue, which the ensure endpoint calls     *)
(* without an e-mail, so with the venue's own, and createVirtualAccount    *)
(* with the client's, which may be the one given for another venue.        *)
EnsureRead(p, v, email) ==
    /\ topic = "account"
    /\ At(p, "idle")
    /\ proc' = [proc EXCEPT ![p] = [Idle EXCEPT !.pc = "decide", !.venue = v,
                                               !.email = email, !.row = account[v]]]
    /\ UNCHANGED <<account, plans, custom, bank, faults, topic>>

Ensure(p, v) == EnsureRead(p, v, v)
CreateVirtualAccount(p, v) == \E email \in Emails : EnsureRead(p, v, email)

IsMockRow(row) == row.st # "NONE" /\ row.num \in {"mock", "pending"}

Collided(v, row) ==
    /\ row.st # "NONE"
    /\ row.num \notin {"pending", "mock"}  \* mock numbers are drawn at random
    /\ \E w \in Venues \ {v} : account[w].st # "NONE" /\ account[w].num = row.num

(* Mutant: a row that is there is returned, in whatever state.             *)
EnsureDecideReturns(p) ==
    /\ At(p, "decide")
    /\ IF proc[p].row.st # "NONE" THEN Return(p) ELSE Goto(p, "provider")
    /\ UNCHANGED <<account, plans, custom, bank, faults, topic>>

(* Mutant: an account that is in order is provisioned anew.                *)
EnsureDecideAnew(p) ==
    /\ At(p, "decide")
    /\ Goto(p, IF proc[p].row.st # "NONE" THEN "drop" ELSE "provider")
    /\ UNCHANGED <<account, plans, custom, bank, faults, topic>>

(* The look for another venue with the number is a query of its own.       *)
EnsureDecide(p) ==
    LET row == proc[p].row
        collided == Collided(proc[p].venue, row)
        stale == IsMockRow(row) \/ collided
    IN
    /\ At(p, "decide")
    /\ IF row.st = "ACTIVE" /\ ~stale THEN Return(p)
       ELSE proc' = [proc EXCEPT ![p].pc = IF stale THEN "drop" ELSE "provider",
                                 ![p].collided = collided]
    /\ UNCHANGED <<account, plans, custom, bank, faults, topic>>

(* The delete names the venue alone; a row that is gone is no error.       *)
EnsureDrop(p) ==
    /\ At(p, "drop")
    /\ account' = [account EXCEPT ![proc[p].venue] = NoAccount]
    /\ Goto(p, "provider")
    /\ UNCHANGED <<plans, custom, bank, faults, topic>>

(* createCustomer and createDedicatedAccount: either the account of the    *)
(* e-mail, which Paystack gives again when asked again, or nothing.        *)
AskPaystack(p) ==
    /\ At(p, "provider")
    /\ \/ Goto(p, "active_create") /\ UNCHANGED faults
       \/ Goto(p, "pending_create") /\ Fault
    /\ UNCHANGED <<account, plans, custom, bank, topic>>

(* upsertActive and upsertPending: a create, and where the row is there    *)
(* already an update, which throws when it is gone again.  The update to   *)
(* PENDING leaves the number as it is.                                     *)
Upsert(p, create, update, row) ==
    LET v == proc[p].venue
        there == account[v].st # "NONE"
    IN
    /\ \/ At(p, create) /\ ~there /\ account' = [account EXCEPT ![v] = row] /\ Return(p)
       \/ At(p, create) /\ there /\ Goto(p, update) /\ UNCHANGED account
       \/ At(p, update) /\ there /\ account' = [account EXCEPT ![v] = row] /\ Return(p)
       \/ At(p, update) /\ ~there /\ Return(p) /\ UNCHANGED account
    /\ UNCHANGED <<plans, custom, bank, faults, topic>>

UpsertActive(p) ==
    Upsert(p, "active_create", "active_update",
           [st |-> "ACTIVE", num |-> proc[p].email])

UpsertPending(p) ==
    Upsert(p, "pending_create", "pending_update",
           [account[proc[p].venue] EXCEPT !.st = "PENDING"])

------------------------------------------------------------------------------
(* Mutant: the defaults are created whatever there is.                     *)
PlanListAlways(p, v) ==
    /\ topic = "plans"
    /\ At(p, "idle")
    /\ proc' = [proc EXCEPT ![p] = [Idle EXCEPT !.pc = "plan_create", !.venue = v]]
    /\ UNCHANGED <<account, plans, custom, bank, faults, topic>>

(* Default plans.  listPlans and ensureDefaultPlans both look; the second  *)
(* look, just before the creates, decides.                                 *)
PlanList(p, v) ==
    /\ topic = "plans"
    /\ At(p, "idle")
    /\ ~custom[v]
    /\ \A t \in 1 .. Templates : plans[v][t] = 0
    /\ proc' = [proc EXCEPT ![p] = [Idle EXCEPT !.pc = "plan_create", !.venue = v]]
    /\ UNCHANGED <<account, plans, custom, bank, faults, topic>>

(* One create at a time; a failure in between is swallowed, and what was   *)
(* created stays.                                                          *)
PlanCreate(p) ==
    LET t == proc[p].next IN
    /\ At(p, "plan_create")
    /\ plans' = [plans EXCEPT ![proc[p].venue][t] = @ + 1]
    /\ IF t = Templates THEN Return(p)
       ELSE proc' = [proc EXCEPT ![p].next = t + 1]
    /\ UNCHANGED <<account, custom, bank, faults, topic>>

(* Mutant: a plan is taken off the list that is not on it.                 *)
DeactivatePlanGone(v) ==
    /\ topic = "plans"
    /\ \E t \in 1 .. Templates : plans' = [plans EXCEPT ![v][t] = @ - 1]
    /\ UNCHANGED <<account, custom, bank, proc, faults, topic>>

(* createPlan and deactivatePlan, each one statement.                      *)
CreatePlan(v) ==
    /\ topic = "plans"
    /\ custom' = [custom EXCEPT ![v] = TRUE]
    /\ UNCHANGED <<account, plans, bank, proc, faults, topic>>

DeactivatePlan(v) ==
    /\ topic = "plans"
    /\ \/ custom[v] /\ custom' = [custom EXCEPT ![v] = FALSE] /\ UNCHANGED plans
       \/ /\ \E t \in 1 .. Templates :
                plans[v][t] > 0 /\ plans' = [plans EXCEPT ![v][t] = @ - 1]
          /\ UNCHANGED custom
    /\ UNCHANGED <<account, bank, proc, faults, topic>>

------------------------------------------------------------------------------
(* registerBankAccount.  Paystack's recipient comes first, and a failure   *)
(* only leaves it for the cashout to make.                                 *)
RegisterBank(p, v) ==
    /\ topic = "bank"
    /\ At(p, "idle")
    /\ proc' = [proc EXCEPT ![p] = [Idle EXCEPT !.pc = "bank_recipient", !.venue = v]]
    /\ UNCHANGED <<account, plans, custom, bank, faults, topic>>

BankRecipient(p) ==
    /\ At(p, "bank_recipient")
    /\ Goto(p, "bank_count")
    /\ Fault \/ UNCHANGED faults
    /\ UNCHANGED <<account, plans, custom, bank, topic>>

(* Mutant: the count is of all venues.                                     *)
BankCountAll(p) ==
    /\ At(p, "bank_count")
    /\ proc' = [proc EXCEPT ![p].pc = "bank_create",
                            ![p].first = \A v \in Venues : bank[v].rows = 0]
    /\ UNCHANGED <<account, plans, custom, bank, faults, topic>>

BankCount(p) ==
    /\ At(p, "bank_count")
    /\ proc' = [proc EXCEPT ![p].pc = "bank_create",
                            ![p].first = bank[proc[p].venue].rows = 0]
    /\ UNCHANGED <<account, plans, custom, bank, faults, topic>>

BankCreate(p) ==
    LET v == proc[p].venue IN
    /\ At(p, "bank_create")
    /\ bank[v].rows < MaxBanks
    /\ bank' = [bank EXCEPT ![v].rows = @ + 1,
                            ![v].default = IF proc[p].first THEN @ + 1 ELSE @]
    /\ Return(p)
    /\ UNCHANGED <<account, plans, custom, faults, topic>>

------------------------------------------------------------------------------
(* An await throws, or the process dies: the request is gone, what it has  *)
(* written stays.                                                          *)
Lost(gone) ==
    /\ Fault
    /\ \E p \in gone : ~At(p, "idle")
    /\ proc' = [p \in Requests |-> IF p \in gone THEN Idle ELSE proc[p]]
    /\ UNCHANGED <<account, plans, custom, bank, topic>>

HandlerThrows(p) == Lost({p})
Crash == Lost(Requests)

EnsureStep(p) ==
    EnsureDecide(p) \/ EnsureDrop(p) \/ AskPaystack(p) \/ UpsertActive(p) \/ UpsertPending(p)

Next ==
    \/ \E p \in Requests :
          \/ \E v \in Venues : \/ Ensure(p, v)
                                \/ CreateVirtualAccount(p, v)
                                \/ PlanList(p, v)
                                \/ RegisterBank(p, v)
          \/ EnsureStep(p)
          \/ PlanCreate(p)
          \/ BankRecipient(p)
          \/ BankCount(p)
          \/ BankCreate(p)
          \/ HandlerThrows(p)
    \/ \E v \in Venues : CreatePlan(v) \/ DeactivatePlan(v)
    \/ Crash

Spec == Init /\ [][Next]_vars

(* A request goes on while the process stands, and the owner's app asks    *)
(* for the account whenever it is opened.                                  *)
Fairness ==
    /\ \A p \in Requests : WF_vars(EnsureStep(p))
    /\ \A v \in Venues : SF_vars(\E p \in Requests : Ensure(p, v))

LiveSpec == Spec /\ Fairness

------------------------------------------------------------------------------
(* A guest is not offered one plan many times over: the active rows of a   *)
(* default plan are at most as many as there were requests at once, however *)
(* often plans are deactivated, requests die and the list is asked for.    *)
DefaultPlansBounded ==
    \A v \in Venues, t \in 1 .. Templates : plans[v][t] <= Cardinality(Requests)

(* A cashout needs the default bank account: a venue with any has one, and *)
(* not more than there were registrations at once.                         *)
DefaultBankAccount ==
    \A v \in Venues : bank[v].rows > 0 => bank[v].default \in 1 .. Cardinality(Requests)

(* An account in order: a real number, that no other venue has.            *)
Settled(v) ==
    /\ account[v].st = "ACTIVE"
    /\ ~IsMockRow(account[v])
    /\ ~Collided(v, account[v])

(* A request that found no account in order when it looked, and is now on  *)
(* its way to replace what it found.                                       *)
FoundNone(p) ==
    \/ proc[p].row.st # "ACTIVE"
    \/ IsMockRow(proc[p].row)
    \/ proc[p].collided

Replacing(p) ==
    /\ proc[p].pc \in {"drop", "provider", "active_create", "active_update",
                       "pending_create", "pending_update"}
    /\ FoundNone(p)

(* Asking again does not cost a venue its account: the row of an account   *)
(* in order is deleted or written by nobody but a request for that venue   *)
(* whose own look, made earlier, found none in order.  Such a request can  *)
(* come late, when another one has put the account in order meanwhile, and *)
(* the row is lost to it; AccountHeals says that this is not for good.     *)
AccountKept ==
    [][\A v \in Venues : Settled(v) /\ account'[v] # account[v] =>
          \E p \in Requests : /\ proc[p].venue = v
                              /\ Replacing(p)
                              /\ proc'[p] # proc[p]]_vars

(* "PENDING rows from earlier failed attempts and collided accounts are    *)
(* retried instead of returned forever": where the venue keeps asking with *)
(* its own e-mail and Paystack's failures end, it has an account of its    *)
(* own, or at least one no other venue has, and keeps it, whatever         *)
(* requests have overlapped and whatever accounts collided because two     *)
(* venues were created with one e-mail.  It takes that clients stop giving *)
(* e-mails: otherwise the venues can go on taking the number from each     *)
(* other, each asking in the moment in which the other one's row is gone.  *)
EmailGiven == \E p \in Requests : proc[p].email \in Emails

AccountHeals ==
    topic = "account" /\ <>[]~EmailGiven => \A v \in Venues : <>[]Settled(v)

=============================================================================
