--------------------------- MODULE VenueSetupProofs ---------------------------
(***************************************************************************)
(* The safety of VenueSetup, for any number of venues, requests and        *)
(* default plans.                                                          *)
(***************************************************************************)
EXTENDS VenueSetup, FiniteSetTheorems, TLAPS

(* The requests at once.                                                   *)
N == Cardinality(Requests)

(* Where a handler is past the decision, and how it came there: its own    *)
(* look found no account in order.                                         *)
Past == {"drop", "provider", "active_create", "active_update",
         "pending_create", "pending_update"}

Accounts == \A p \in Requests : proc[p].pc \in Past => FoundNone(p)

(* The requests that may still add a plan of template t, or a default bank *)
(* account, to a venue.                                                    *)
Planning(v, t) ==
    {p \in Requests : proc[p].pc = "plan_create" /\ proc[p].venue = v /\ proc[p].next <= t}
Banking(v) ==
    {p \in Requests : proc[p].pc = "bank_create" /\ proc[p].venue = v /\ proc[p].first}

Plans ==
    \A v \in Venues, t \in 1 .. Templates : plans[v][t] + Cardinality(Planning(v, t)) <= N

(* A request that is not to make the default has seen an account.          *)
Banks ==
    /\ \A v \in Venues :
          /\ bank[v].default + Cardinality(Banking(v)) <= N
          /\ bank[v].rows = 0 <=> bank[v].default = 0
          /\ bank[v].default <= bank[v].rows
    /\ \A p \in Requests :
          proc[p].pc = "bank_create" /\ ~proc[p].first => bank[proc[p].venue].rows > 0

Inv == TypeOK /\ Accounts /\ Plans /\ Banks

------------------------------------------------------------------------------
(* Counting.                                                               *)

(* Any set of requests is finite and no larger than all of them.           *)
LEMMA SomeOfRequests ==
    ASSUME NEW S \in SUBSET Requests
    PROVE  /\ IsFiniteSet(S)
           /\ Cardinality(S) \in Nat
           /\ N \in Nat
           /\ Cardinality(S) <= N
<1>1. IsFiniteSet(S) /\ Cardinality(S) <= N
  BY FS_Subset, VenueSetupAssumption DEF N
<1>2. QED
  BY <1>1, FS_CardinalityType, VenueSetupAssumption DEF N

(* A smaller set of requests counts less.                                  *)
LEMMA FewerRequests ==
    ASSUME NEW S \in SUBSET Requests, NEW T \in SUBSET S
    PROVE  Cardinality(T) <= Cardinality(S)
BY SomeOfRequests, FS_Subset

(* Who is done is no longer counted.                                       *)
LEMMA OneFewer ==
    ASSUME NEW S \in SUBSET Requests, NEW p \in S
    PROVE  Cardinality(S \ {p}) = Cardinality(S) - 1
BY SomeOfRequests, FS_RemoveElement

(* The two counted sets are sets of requests.                              *)
LEMMA Counted ==
    ASSUME NEW v \in Venues, NEW t \in 1 .. Templates
    PROVE  /\ Planning(v, t) \in SUBSET Requests
           /\ Planning(v, t)' \in SUBSET Requests
           /\ Banking(v) \in SUBSET Requests
           /\ Banking(v)' \in SUBSET Requests
BY DEF Planning, Banking

------------------------------------------------------------------------------
(* What most steps do to handlers.                                         *)

(* A venue's own address is an address, and an idle handler is well typed. *)
LEMMA IdleType ==
    /\ Venues \in SUBSET Address /\ Emails \in SUBSET Address /\ Address \in SUBSET Number
    /\ Idle \in Handler
    /\ Idle.pc = "idle" /\ Idle.row = NoAccount /\ Idle.collided = FALSE
    /\ Idle.next = 1 /\ Idle.venue \in Venues /\ Idle.email \in Address
    /\ NoAccount \in Account
<1>1. SomeVenue \in Venues
  BY VenueSetupAssumption DEF SomeVenue
<1>2. 1 \in 1 .. Templates
  BY VenueSetupAssumption
<1>3. NoAccount \in Account
  BY DEF NoAccount, Account, Number
<1>4. SomeVenue \in Address
  BY <1>1 DEF Address
<1>5. QED
  BY <1>1, <1>2, <1>3, <1>4 DEF Idle, Handler, PC, Address, Number

(* A fault counts up to its bound.                                         *)
LEMMA FaultType ==
    ASSUME faults \in 0 .. MaxFaults, Fault
    PROVE  faults' \in 0 .. MaxFaults
BY VenueSetupAssumption DEF Fault

(* A step that leaves plans and bank accounts alone, and no handler        *)
(* newly about to add to them, keeps what is counted of them.              *)
LEMMA Elsewhere ==
    ASSUME TypeOK, Plans, Banks, plans' = plans, bank' = bank,
           \A p \in Requests : \/ proc'[p] = proc[p]
                               \/ proc'[p].pc \notin {"plan_create", "bank_create"}
    PROVE  Plans' /\ Banks'
<1>1. ASSUME NEW v \in Venues, NEW t \in 1 .. Templates
      PROVE  plans'[v][t] + Cardinality(Planning(v, t)') <= N
  <2>1. Planning(v, t)' \in SUBSET Planning(v, t)
    BY DEF Planning
  <2>2. Cardinality(Planning(v, t)') <= Cardinality(Planning(v, t))
    BY <2>1, Counted, FewerRequests
  <2>3. plans[v][t] \in Nat
    BY DEF TypeOK
  <2>4. plans[v][t] + Cardinality(Planning(v, t)) <= N
    BY DEF Plans
  <2>5. /\ Cardinality(Planning(v, t)) \in Nat
        /\ Cardinality(Planning(v, t)') \in Nat
        /\ N \in Nat
    BY Counted, SomeOfRequests
  <2>6. QED
    BY <2>2, <2>3, <2>4, <2>5
<1>2. ASSUME NEW v \in Venues
      PROVE  bank'[v].default + Cardinality(Banking(v)') <= N
  <2>1. Banking(v)' \in SUBSET Banking(v) /\ Banking(v) \in SUBSET Requests
    BY DEF Banking
  <2>2. Cardinality(Banking(v)') <= Cardinality(Banking(v))
    BY <2>1, FewerRequests
  <2>3. bank[v].default \in Nat
    BY VenueSetupAssumption DEF TypeOK
  <2>4. bank[v].default + Cardinality(Banking(v)) <= N
    BY DEF Banks
  <2>5. /\ Cardinality(Banking(v)) \in Nat
        /\ Cardinality(Banking(v)') \in Nat
        /\ N \in Nat
    BY <2>1, SomeOfRequests
  <2>6. QED
    BY <2>2, <2>3, <2>4, <2>5
<1>3. Plans'
  BY <1>1 DEF Plans, N
<1>4. Banks'
  BY <1>2 DEF Banks, N
<1>5. QED
  BY <1>3, <1>4

(* A step keeps what is known of who is past the decision, if no handler   *)
(* it moves ends up there.                                                 *)
LEMMA Beside ==
    ASSUME Accounts,
           \A p \in Requests : proc'[p] = proc[p] \/ proc'[p].pc \notin Past
    PROVE  Accounts'
BY DEF Accounts, FoundNone, IsMockRow, Past

------------------------------------------------------------------------------
(* The account.                                                            *)

(* Who asks for the account has read the row as it is.                     *)
LEMMA EnsureReadKeeps ==
    ASSUME Inv, NEW p \in Requests, NEW v \in Venues, NEW email \in Address,
           EnsureRead(p, v, email)
    PROVE  Inv'
<1> DEFINE h == [Idle EXCEPT !.pc = "decide", !.venue = v, !.email = email,
                             !.row = account[v]]
<1>1. account[v] \in Account /\ proc \in [Requests -> Handler]
  BY DEF Inv, TypeOK
<1>2. h \in Handler /\ h.pc = "decide"
  BY <1>1, IdleType DEF Idle, Handler, PC
<1>3. proc' = [proc EXCEPT ![p] = h]
  BY DEF EnsureRead
<1> HIDE DEF h
<1>4. /\ \A q \in Requests : proc'[q] = IF q = p THEN h ELSE proc[q]
      /\ proc' \in [Requests -> Handler]
  BY <1>1, <1>2, <1>3
<1>5. TypeOK'
  BY <1>4 DEF Inv, TypeOK, EnsureRead
<1>6. Accounts'
  <2>1. h.pc \notin Past
    BY <1>2 DEF Past
  <2>2. QED
    BY <1>4, <2>1, Beside DEF Inv
<1>7. Plans' /\ Banks'
  BY <1>2, <1>4, Elsewhere DEF Inv, EnsureRead
<1>8. QED
  BY <1>5, <1>6, <1>7 DEF Inv

(* Who goes past the decision has found no account in order: the row it    *)
(* read is not active, or of the mock era, or its number is at another     *)
(* venue as well.                                                          *)
LEMMA EnsureDecideKeeps ==
    ASSUME Inv, NEW p \in Requests, EnsureDecide(p)
    PROVE  Inv'
<1> DEFINE row == proc[p].row
           collided == Collided(proc[p].venue, row)
           stale == IsMockRow(row) \/ collided
           pc == IF stale THEN "drop" ELSE "provider"
<1>1. proc \in [Requests -> Handler] /\ proc[p] \in Handler
  BY DEF Inv, TypeOK
<1>2. UNCHANGED <<account, plans, custom, bank, faults, topic>>
  BY DEF EnsureDecide
<1>3. CASE proc' = [proc EXCEPT ![p] = Idle]
  <2>1. /\ \A q \in Requests : proc'[q] = IF q = p THEN Idle ELSE proc[q]
        /\ proc' \in [Requests -> Handler]
    BY <1>1, <1>3, IdleType
  <2>2. TypeOK'
    BY <1>2, <2>1 DEF Inv, TypeOK
  <2>3. Accounts'
    BY <2>1, IdleType, Beside DEF Inv, Past
  <2>4. Plans' /\ Banks'
    BY <1>2, <2>1, IdleType, Elsewhere DEF Inv
  <2>5. QED
    BY <2>2, <2>3, <2>4 DEF Inv
<1>4. CASE /\ row.st # "ACTIVE" \/ stale
           /\ proc' = [proc EXCEPT ![p].pc = pc, ![p].collided = collided]
  <2>1. collided \in BOOLEAN
    BY DEF Collided
  <2>2. pc \in {"drop", "provider"}
    OBVIOUS
  <2>3. /\ \A q \in Requests \ {p} : proc'[q] = proc[q]
        /\ proc'[p].pc = pc /\ proc'[p].row = proc[p].row
        /\ proc'[p].collided = collided
        /\ proc' \in [Requests -> Handler]
    BY <1>1, <1>4, <2>1, <2>2 DEF Handler, PC
  <2>4. TypeOK'
    BY <1>2, <2>3 DEF Inv, TypeOK
  <2>5. Accounts'
    <3>1. FoundNone(p)'
      BY <1>4, <2>3 DEF FoundNone, IsMockRow
    <3>2. QED
      BY <2>3, <3>1 DEF Inv, Accounts, FoundNone, IsMockRow
  <2>6. Plans' /\ Banks'
    BY <1>2, <2>2, <2>3, Elsewhere DEF Inv
  <2>7. QED
    BY <2>4, <2>5, <2>6 DEF Inv
<1>5. QED
  BY <1>3, <1>4 DEF EnsureDecide, Return

(* A step within the provisioning of an account: it goes on with the look  *)
(* it began with, or ends.                                                 *)
LEMMA ProvisionKeeps ==
    ASSUME Inv, NEW p \in Requests, NEW row \in Account, NEW pc \in Past,
           proc[p].pc \in Past,
           account' = [account EXCEPT ![proc[p].venue] = row] \/ account' = account,
           proc' = [proc EXCEPT ![p].pc = pc] \/ proc' = [proc EXCEPT ![p] = Idle],
           faults' \in 0 .. MaxFaults,
           UNCHANGED <<plans, custom, bank, topic>>
    PROVE  Inv'
<1>1. proc \in [Requests -> Handler] /\ proc[p] \in Handler /\ proc[p].venue \in Venues
  BY DEF Inv, TypeOK, Handler
<1>2. pc \in PC /\ pc \notin {"plan_create", "bank_create"}
  BY DEF Past, PC
<1>3. \/ proc'[p] = Idle
      \/ /\ proc'[p].pc = pc
         /\ proc'[p].row = proc[p].row
         /\ proc'[p].collided = proc[p].collided
  BY <1>1 DEF Handler
<1>4. proc' \in [Requests -> Handler] /\ \A q \in Requests \ {p} : proc'[q] = proc[q]
  BY <1>1, <1>2, IdleType DEF Handler
<1>5. account' \in [Venues -> Account]
  BY <1>1 DEF Inv, TypeOK
<1>6. TypeOK'
  BY <1>4, <1>5 DEF Inv, TypeOK
<1>7. Accounts'
  <2>1. FoundNone(p)
    BY DEF Inv, Accounts
  <2>2. proc'[p].pc \in Past => FoundNone(p)'
    BY <1>3, <2>1, IdleType DEF Past, FoundNone, IsMockRow
  <2>3. QED
    BY <1>4, <2>2 DEF Inv, Accounts, FoundNone, IsMockRow
<1>8. Plans' /\ Banks'
  <2>1. proc'[p].pc \notin {"plan_create", "bank_create"}
    BY <1>2, <1>3, IdleType
  <2>2. QED
    BY <1>4, <2>1, Elsewhere DEF Inv
<1>9. QED
  BY <1>6, <1>7, <1>8 DEF Inv

(* The delete.                                                             *)
LEMMA EnsureDropKeeps ==
    ASSUME Inv, NEW p \in Requests, EnsureDrop(p)
    PROVE  Inv'
<1>1. faults' \in 0 .. MaxFaults /\ proc[p].pc \in Past /\ "provider" \in Past
  BY DEF EnsureDrop, At, Past, Inv, TypeOK
<1>2. QED
  BY <1>1, IdleType, ProvisionKeeps DEF EnsureDrop, Goto

(* Paystack's answer.                                                      *)
LEMMA AskPaystackKeeps ==
    ASSUME Inv, NEW p \in Requests, AskPaystack(p)
    PROVE  Inv'
<1>1. faults' \in 0 .. MaxFaults
  BY FaultType DEF AskPaystack, Inv, TypeOK
<1>2. proc[p].pc \in Past /\ "active_create" \in Past /\ "pending_create" \in Past
  BY DEF AskPaystack, At, Past
<1>3. \/ proc' = [proc EXCEPT ![p].pc = "active_create"]
      \/ proc' = [proc EXCEPT ![p].pc = "pending_create"]
  BY DEF AskPaystack, Goto
<1>4. UNCHANGED <<account, plans, custom, bank, topic>>
  BY DEF AskPaystack
<1>5. QED
  BY <1>1, <1>2, <1>3, <1>4, IdleType, ProvisionKeeps

(* The two upserts.                                                        *)
LEMMA UpsertKeeps ==
    ASSUME Inv, NEW p \in Requests, NEW row \in Account,
           NEW create \in Past, NEW update \in Past,
           Upsert(p, create, update, row)
    PROVE  Inv'
<1>1. faults' \in 0 .. MaxFaults
  BY DEF Upsert, Inv, TypeOK
<1>2. proc[p].pc \in Past
  BY DEF Upsert, At
<1>3. \/ proc' = [proc EXCEPT ![p].pc = update]
      \/ proc' = [proc EXCEPT ![p] = Idle]
  BY DEF Upsert, Goto, Return
<1>4. account' = [account EXCEPT ![proc[p].venue] = row] \/ account' = account
  BY DEF Upsert
<1>5. UNCHANGED <<plans, custom, bank, topic>>
  BY DEF Upsert
<1>6. QED
  BY <1>1, <1>2, <1>3, <1>4, <1>5, ProvisionKeeps

(* To ACTIVE, with the number of the address it asked with.                *)
LEMMA UpsertActiveKeeps ==
    ASSUME Inv, NEW p \in Requests, UpsertActive(p)
    PROVE  Inv'
<1> DEFINE row == [st |-> "ACTIVE", num |-> proc[p].email]
<1>1. proc[p].email \in Number
  BY IdleType DEF Inv, TypeOK, Handler
<1>2. row \in Account
  BY <1>1 DEF Account
<1>3. "active_create" \in Past /\ "active_update" \in Past
  BY DEF Past
<1>4. Upsert(p, "active_create", "active_update", row)
  BY DEF UpsertActive
<1> HIDE DEF row
<1>5. QED
  BY <1>2, <1>3, <1>4, UpsertKeeps

(* To PENDING, with the number that is there.                              *)
LEMMA UpsertPendingKeeps ==
    ASSUME Inv, NEW p \in Requests, UpsertPending(p)
    PROVE  Inv'
<1> DEFINE row == [account[proc[p].venue] EXCEPT !.st = "PENDING"]
<1>1. proc[p].venue \in Venues /\ account[proc[p].venue] \in Account
  BY DEF Inv, TypeOK, Handler
<1>2. row \in Account
  BY <1>1 DEF Account
<1>3. "pending_create" \in Past /\ "pending_update" \in Past
  BY DEF Past
<1>4. Upsert(p, "pending_create", "pending_update", row)
  BY DEF UpsertPending
<1> HIDE DEF row
<1>5. QED
  BY <1>2, <1>3, <1>4, UpsertKeeps

------------------------------------------------------------------------------
(* Default plans.                                                          *)

(* Creates begin only where no default plan is active: all the requests    *)
(* together cannot make too many.                                          *)
LEMMA PlanListKeeps ==
    ASSUME Inv, NEW p \in Requests, NEW v \in Venues, PlanList(p, v)
    PROVE  Inv'
<1> DEFINE h == [Idle EXCEPT !.pc = "plan_create", !.venue = v]
<1>1. proc \in [Requests -> Handler]
  BY DEF Inv, TypeOK
<1>2. h \in Handler /\ h.pc = "plan_create" /\ h.venue = v
  BY IdleType DEF Idle, Handler, PC
<1>3. proc' = [proc EXCEPT ![p] = h]
  BY DEF PlanList
<1> HIDE DEF h
<1>4. /\ \A q \in Requests : proc'[q] = IF q = p THEN h ELSE proc[q]
      /\ proc' \in [Requests -> Handler]
  BY <1>1, <1>2, <1>3
<1>5. UNCHANGED <<account, plans, custom, bank, faults, topic>>
  BY DEF PlanList
<1>6. TypeOK'
  BY <1>4, <1>5 DEF Inv, TypeOK
<1>7. Accounts'
  <2>1. h.pc \notin Past
    BY <1>2 DEF Past
  <2>2. QED
    BY <1>4, <2>1, Beside DEF Inv
<1>8. Plans'
  <2>1. ASSUME NEW w \in Venues, NEW t \in 1 .. Templates
        PROVE  plans'[w][t] + Cardinality(Planning(w, t)') <= N
    <3>1. CASE w = v
      <4>1. plans'[w][t] = 0
        BY <1>5, <3>1 DEF PlanList
      <4>2. Cardinality(Planning(w, t)') <= N /\ Cardinality(Planning(w, t)') \in Nat
        BY Counted, SomeOfRequests
      <4>3. QED
        BY <4>1, <4>2
    <3>2. CASE w # v
      <4>1. Planning(w, t)' \in SUBSET Planning(w, t)
        BY <1>2, <1>4, <3>2 DEF Planning
      <4>2. Cardinality(Planning(w, t)') <= Cardinality(Planning(w, t))
        BY <4>1, Counted, FewerRequests
      <4>3. plans'[w][t] \in Nat
        BY <1>6 DEF TypeOK
      <4>4. plans'[w][t] + Cardinality(Planning(w, t)) <= N
        BY <1>5 DEF Inv, Plans
      <4>5. /\ Cardinality(Planning(w, t)) \in Nat
            /\ Cardinality(Planning(w, t)') \in Nat
            /\ N \in Nat
        BY Counted, SomeOfRequests
      <4>6. QED
        BY <4>2, <4>3, <4>4, <4>5
    <3>3. QED
      BY <3>1, <3>2
  <2>2. QED
    BY <2>1 DEF Plans, N
<1>9. Banks'
  <2>1. ASSUME NEW w \in Venues PROVE Banking(w)' = Banking(w) \ {p}
    BY <1>2, <1>4 DEF Banking
  <2>2. ASSUME NEW w \in Venues PROVE bank[w].default + Cardinality(Banking(w)') <= N
    <3>1. Banking(w)' \in SUBSET Banking(w) /\ Banking(w) \in SUBSET Requests
      BY <2>1 DEF Banking
    <3>2. Cardinality(Banking(w)') <= Cardinality(Banking(w))
      BY <3>1, FewerRequests
    <3>3. bank[w].default \in Nat /\ bank[w].default + Cardinality(Banking(w)) <= N
      BY VenueSetupAssumption DEF Inv, TypeOK, Banks
    <3>4. /\ Cardinality(Banking(w)) \in Nat
          /\ Cardinality(Banking(w)') \in Nat
          /\ N \in Nat
      BY <3>1, SomeOfRequests
    <3>5. QED
      BY <3>2, <3>3, <3>4
  <2>3. QED
    BY <1>2, <1>4, <1>5, <2>2 DEF Inv, Banks, N
<1>10. QED
  BY <1>6, <1>7, <1>8, <1>9 DEF Inv

(* A create turns one that may add a plan into one that has: it goes on to *)
(* the later templates only.                                               *)
LEMMA PlanCreateKeeps ==
    ASSUME Inv, NEW p \in Requests, PlanCreate(p)
    PROVE  Inv'
<1> DEFINE v == proc[p].venue
           s == proc[p].next
<1>1. /\ proc \in [Requests -> Handler] /\ proc[p] \in Handler
      /\ v \in Venues /\ s \in 1 .. Templates /\ Templates \in Nat
      /\ plans \in [Venues -> [1 .. Templates -> Nat]]
      /\ proc[p].pc = "plan_create"
  BY VenueSetupAssumption DEF Inv, TypeOK, Handler, PlanCreate, At
<1>2. plans' = [plans EXCEPT ![v][s] = @ + 1]
  BY DEF PlanCreate
<1>3. \/ s = Templates /\ proc' = [proc EXCEPT ![p] = Idle]
      \/ s # Templates /\ proc' = [proc EXCEPT ![p].next = s + 1]
  BY DEF PlanCreate, Return
<1>4. UNCHANGED <<account, custom, bank, faults, topic>>
  BY DEF PlanCreate
<1> HIDE DEF v, s
<1>5. /\ plans' \in [Venues -> [1 .. Templates -> Nat]]
      /\ \A w \in Venues, t \in 1 .. Templates :
            plans'[w][t] = IF w = v /\ t = s THEN plans[w][t] + 1 ELSE plans[w][t]
  BY <1>1, <1>2
<1>6. \/ s = Templates /\ proc'[p] = Idle
      \/ /\ s # Templates /\ s + 1 \in 1 .. Templates
         /\ proc'[p] = [proc[p] EXCEPT !.next = s + 1]
  <2>1. s # Templates => s + 1 \in 1 .. Templates
    BY <1>1
  <2>2. QED
    BY <1>1, <1>3, <2>1
<1>7. proc' \in [Requests -> Handler] /\ \A q \in Requests \ {p} : proc'[q] = proc[q]
  <2>1. [proc[p] EXCEPT !.next = s + 1] \in Handler \/ s = Templates
    BY <1>1, <1>6 DEF Handler
  <2>2. QED
    BY <1>1, <1>3, <2>1, IdleType
<1>8. TypeOK'
  BY <1>4, <1>5, <1>7 DEF Inv, TypeOK
<1>9. Accounts'
  <2>1. proc'[p].pc \in {"idle", "plan_create"}
    BY <1>1, <1>6, IdleType DEF Handler
  <2>2. proc'[p].pc \notin Past
    BY <2>1 DEF Past
  <2>3. QED
    BY <1>7, <2>2, Beside DEF Inv
<1>10. Plans'
  <2>1. ASSUME NEW w \in Venues, NEW t \in 1 .. Templates
        PROVE  plans'[w][t] + Cardinality(Planning(w, t)') <= N
    <3>1. /\ plans[w][t] \in Nat
          /\ plans[w][t] + Cardinality(Planning(w, t)) <= N
          /\ N \in Nat
          /\ Cardinality(Planning(w, t)) \in Nat
          /\ Cardinality(Planning(w, t)') \in Nat
      BY <1>1, Counted, SomeOfRequests DEF Inv, Plans
    <3>2. CASE w = v /\ t = s
      <4>1. p \in Planning(w, t) /\ Planning(w, t) \in SUBSET Requests
        BY <1>1, <3>2 DEF Planning, v, s
      <4>2. p \notin Planning(w, t)'
        BY <1>1, <1>6, <3>2, IdleType DEF Planning, Handler
      <4>3. Planning(w, t)' = Planning(w, t) \ {p}
        BY <1>7, <4>2 DEF Planning
      <4>4. Cardinality(Planning(w, t)') = Cardinality(Planning(w, t)) - 1
        BY <4>1, <4>3, OneFewer
      <4>5. QED
        BY <1>5, <3>1, <3>2, <4>4
    <3>3. CASE ~(w = v /\ t = s)
      <4>1. p \in Planning(w, t)' => p \in Planning(w, t)
        BY <1>1, <1>6, IdleType DEF Planning, Handler, s, v
      <4>2. Planning(w, t)' \in SUBSET Planning(w, t)
        BY <1>7, <4>1 DEF Planning
      <4>3. Cardinality(Planning(w, t)') <= Cardinality(Planning(w, t))
        BY <4>2, Counted, FewerRequests
      <4>4. plans'[w][t] = plans[w][t]
        BY <1>5, <3>3
      <4>5. QED
        BY <3>1, <4>3, <4>4
    <3>4. QED
      BY <3>2, <3>3
  <2>2. QED
    BY <2>1 DEF Plans, N
<1>11. Banks'
  <2>1. proc'[p].pc # "bank_create"
    BY <1>1, <1>6, IdleType DEF Handler
  <2>2. ASSUME NEW w \in Venues PROVE Banking(w)' = Banking(w)
    BY <1>1, <1>7, <2>1 DEF Banking
  <2>3. QED
    BY <1>4, <1>7, <2>1, <2>2 DEF Inv, Banks, N
<1>12. QED
  BY <1>8, <1>9, <1>10, <1>11 DEF Inv

(* A plan of the venue's own is not counted.                               *)
LEMMA CreatePlanKeeps ==
    ASSUME Inv, NEW v \in Venues, CreatePlan(v)
    PROVE  Inv'
<1>1. UNCHANGED <<account, plans, bank, proc, faults, topic>>
      /\ custom' = [custom EXCEPT ![v] = TRUE]
  BY DEF CreatePlan
<1>2. TypeOK'
  BY <1>1 DEF Inv, TypeOK
<1>3. Accounts'
  BY <1>1, Beside DEF Inv
<1>4. Plans' /\ Banks'
  BY <1>1, Elsewhere DEF Inv
<1>5. QED
  BY <1>2, <1>3, <1>4 DEF Inv

(* A plan taken off the list lowers a count that is not zero.              *)
LEMMA DeactivatePlanKeeps ==
    ASSUME Inv, NEW v \in Venues, DeactivatePlan(v)
    PROVE  Inv'
<1>1. UNCHANGED <<account, bank, proc, faults, topic>>
  BY DEF DeactivatePlan
<1>2. /\ custom' \in [Venues -> BOOLEAN]
      /\ plans' \in [Venues -> [1 .. Templates -> Nat]]
      /\ \A w \in Venues, t \in 1 .. Templates : plans'[w][t] <= plans[w][t]
  <2>1. plans \in [Venues -> [1 .. Templates -> Nat]] /\ custom \in [Venues -> BOOLEAN]
    BY DEF Inv, TypeOK
  <2>2. \A w \in Venues : plans[w] \in [1 .. Templates -> Nat]
    BY <2>1
  <2>3. \A w \in Venues, t \in 1 .. Templates : plans[w][t] \in Nat
    BY <2>2
  <2>4. CASE custom[v] /\ custom' = [custom EXCEPT ![v] = FALSE] /\ UNCHANGED plans
    <3>1. \A w \in Venues, t \in 1 .. Templates : plans'[w][t] <= plans[w][t]
      BY <2>3, <2>4
    <3>2. QED
      BY <2>1, <2>4, <3>1
  <2>5. CASE /\ \E t \in 1 .. Templates :
                   plans[v][t] > 0 /\ plans' = [plans EXCEPT ![v][t] = @ - 1]
             /\ UNCHANGED custom
    <3>1. PICK t \in 1 .. Templates :
                  plans[v][t] > 0 /\ plans' = [plans EXCEPT ![v][t] = @ - 1]
      BY <2>5
    <3> DEFINE n == plans[v][t] - 1
    <3>2. n \in Nat /\ n <= plans[v][t]
      BY <2>3, <3>1
    <3>3. plans' = [plans EXCEPT ![v][t] = n]
      BY <3>1
    <3> HIDE DEF n
    <3>4. plans' \in [Venues -> [1 .. Templates -> Nat]]
      BY <2>1, <3>2, <3>3
    <3>5. \A w \in Venues, u \in 1 .. Templates :
             plans'[w][u] = IF w = v /\ u = t THEN n ELSE plans[w][u]
      BY <2>1, <3>3
    <3>6. \A w \in Venues, u \in 1 .. Templates : plans'[w][u] <= plans[w][u]
      BY <2>3, <3>2, <3>5
    <3>7. QED
      BY <2>1, <2>5, <3>4, <3>6
  <2>6. QED
    BY <2>4, <2>5 DEF DeactivatePlan
<1>3. TypeOK'
  BY <1>1, <1>2 DEF Inv, TypeOK
<1>4. Accounts'
  BY <1>1, Beside DEF Inv
<1>5. Plans'
  <2>1. ASSUME NEW w \in Venues, NEW t \in 1 .. Templates
        PROVE  plans'[w][t] + Cardinality(Planning(w, t)') <= N
    <3>1. Planning(w, t)' = Planning(w, t)
      BY <1>1 DEF Planning
    <3>2. /\ plans[w][t] \in Nat /\ plans'[w][t] \in Nat
          /\ plans'[w][t] <= plans[w][t]
          /\ plans[w][t] + Cardinality(Planning(w, t)) <= N
          /\ Cardinality(Planning(w, t)) \in Nat
          /\ N \in Nat
      BY <1>2, Counted, SomeOfRequests DEF Inv, TypeOK, Plans
    <3>3. QED
      BY <3>1, <3>2
  <2>2. QED
    BY <2>1 DEF Plans, N
<1>6. Banks'
  <2>1. \A w \in Venues : Banking(w)' = Banking(w)
    BY <1>1 DEF Banking
  <2>2. QED
    BY <1>1, <2>1 DEF Inv, Banks, N
<1>7. QED
  BY <1>3, <1>4, <1>5, <1>6 DEF Inv

------------------------------------------------------------------------------
(* The bank account.                                                       *)

(* A registration begins.                                                  *)
LEMMA RegisterBankKeeps ==
    ASSUME Inv, NEW p \in Requests, NEW v \in Venues, RegisterBank(p, v)
    PROVE  Inv'
<1> DEFINE h == [Idle EXCEPT !.pc = "bank_recipient", !.venue = v]
<1>1. proc \in [Requests -> Handler]
  BY DEF Inv, TypeOK
<1>2. h \in Handler /\ h.pc = "bank_recipient"
  BY IdleType DEF Idle, Handler, PC
<1>3. proc' = [proc EXCEPT ![p] = h]
  BY DEF RegisterBank
<1> HIDE DEF h
<1>4. /\ \A q \in Requests : proc'[q] = IF q = p THEN h ELSE proc[q]
      /\ proc' \in [Requests -> Handler]
  BY <1>1, <1>2, <1>3
<1>5. UNCHANGED <<account, plans, custom, bank, faults, topic>>
  BY DEF RegisterBank
<1>6. TypeOK'
  BY <1>4, <1>5 DEF Inv, TypeOK
<1>7. Accounts'
  <2>1. h.pc \notin Past
    BY <1>2 DEF Past
  <2>2. QED
    BY <1>4, <2>1, Beside DEF Inv
<1>8. Plans' /\ Banks'
  BY <1>2, <1>4, <1>5, Elsewhere DEF Inv
<1>9. QED
  BY <1>6, <1>7, <1>8 DEF Inv

(* Paystack's recipient is there or it is not.                             *)
LEMMA BankRecipientKeeps ==
    ASSUME Inv, NEW p \in Requests, BankRecipient(p)
    PROVE  Inv'
<1>1. proc \in [Requests -> Handler] /\ proc[p] \in Handler
  BY DEF Inv, TypeOK
<1>2. proc' = [proc EXCEPT ![p].pc = "bank_count"]
  BY DEF BankRecipient, Goto
<1>3. faults' \in 0 .. MaxFaults /\ UNCHANGED <<account, plans, custom, bank, topic>>
  BY FaultType DEF BankRecipient, Inv, TypeOK
<1>4. /\ \A q \in Requests \ {p} : proc'[q] = proc[q]
      /\ proc'[p].pc = "bank_count"
      /\ proc' \in [Requests -> Handler]
  BY <1>1, <1>2 DEF Handler, PC
<1>5. TypeOK'
  BY <1>3, <1>4 DEF Inv, TypeOK
<1>6. Accounts'
  <2>1. proc'[p].pc \notin Past
    BY <1>4 DEF Past
  <2>2. QED
    BY <1>4, <2>1, Beside DEF Inv
<1>7. Plans' /\ Banks'
  BY <1>3, <1>4, Elsewhere DEF Inv
<1>8. QED
  BY <1>5, <1>6, <1>7 DEF Inv

(* Who counts none may make a default one: there is none yet, so that all  *)
(* the requests together cannot make too many.                             *)
LEMMA BankCountKeeps ==
    ASSUME Inv, NEW p \in Requests, BankCount(p)
    PROVE  Inv'
<1> DEFINE v == proc[p].venue
           first == bank[v].rows = 0
           h == [proc[p] EXCEPT !.pc = "bank_create", !.first = first]
<1>1. proc \in [Requests -> Handler] /\ proc[p] \in Handler /\ v \in Venues
  BY DEF Inv, TypeOK, Handler
<1>2. /\ h \in Handler /\ h.pc = "bank_create"
      /\ h.venue = v /\ h.first = first /\ first \in BOOLEAN
  BY <1>1 DEF Handler, PC
<1>3. proc' = [proc EXCEPT ![p] = h]
  BY <1>1 DEF BankCount
<1>4. UNCHANGED <<account, plans, custom, bank, faults, topic>>
  BY DEF BankCount
<1>5. first <=> bank[v].rows = 0
  OBVIOUS
<1>6. v = proc[p].venue
  OBVIOUS
<1> HIDE DEF h, first, v
<1>7. /\ \A q \in Requests : proc'[q] = IF q = p THEN h ELSE proc[q]
      /\ proc' \in [Requests -> Handler]
  BY <1>1, <1>2, <1>3
<1>8. TypeOK'
  BY <1>4, <1>7 DEF Inv, TypeOK
<1>9. Accounts'
  <2>1. h.pc \notin Past
    BY <1>2 DEF Past
  <2>2. QED
    BY <1>7, <2>1, Beside DEF Inv
<1>10. Plans'
  <2>1. ASSUME NEW w \in Venues, NEW t \in 1 .. Templates
        PROVE  plans'[w][t] + Cardinality(Planning(w, t)') <= N
    <3>1. Planning(w, t)' \in SUBSET Planning(w, t)
      BY <1>2, <1>7 DEF Planning
    <3>2. Cardinality(Planning(w, t)') <= Cardinality(Planning(w, t))
      BY <3>1, Counted, FewerRequests
    <3>3. plans[w][t] \in Nat /\ plans[w][t] + Cardinality(Planning(w, t)) <= N
      BY DEF Inv, TypeOK, Plans
    <3>4. /\ Cardinality(Planning(w, t)) \in Nat
          /\ Cardinality(Planning(w, t)') \in Nat
          /\ N \in Nat
      BY Counted, SomeOfRequests
    <3>5. QED
      BY <1>4, <3>2, <3>3, <3>4
  <2>2. QED
    BY <2>1 DEF Plans, N
<1>11. Banks'
  <2>1. ASSUME NEW w \in Venues
        PROVE  bank[w].default + Cardinality(Banking(w)') <= N
    <3>1. Banking(w)' \in SUBSET Requests /\ Banking(w) \in SUBSET Requests
      BY DEF Banking
    <3>2. /\ Cardinality(Banking(w)') \in Nat /\ Cardinality(Banking(w)') <= N
          /\ Cardinality(Banking(w)) \in Nat /\ N \in Nat
      BY <3>1, SomeOfRequests
    <3>3. /\ bank[w].default \in Nat
          /\ bank[w].default + Cardinality(Banking(w)) <= N
          /\ bank[w].rows = 0 <=> bank[w].default = 0
      BY VenueSetupAssumption DEF Inv, TypeOK, Banks
    <3>4. CASE bank[w].rows = 0
      BY <3>2, <3>3, <3>4
    <3>5. CASE bank[w].rows # 0
      <4>1. Banking(w)' \in SUBSET Banking(w)
        BY <1>2, <1>5, <1>7, <3>5 DEF Banking
      <4>2. Cardinality(Banking(w)') <= Cardinality(Banking(w))
        BY <3>1, <4>1, FewerRequests
      <4>3. QED
        BY <3>2, <3>3, <4>2
    <3>6. QED
      BY <3>4, <3>5
  <2>2. ~h.first => bank[h.venue].rows > 0
    <3>1. bank[v].rows \in Nat
      BY <1>1, VenueSetupAssumption DEF Inv, TypeOK
    <3>2. QED
      BY <1>2, <1>5, <3>1
  <2>3. \A q \in Requests :
           proc'[q].pc = "bank_create" /\ ~proc'[q].first => bank[proc'[q].venue].rows > 0
    BY <1>7, <2>2 DEF Inv, Banks
  <2>4. QED
    BY <1>4, <2>1, <2>3 DEF Inv, Banks, N
<1>12. QED
  BY <1>8, <1>9, <1>10, <1>11 DEF Inv

(* The create: a default one by somebody who was counted, or another where *)
(* there is one already.                                                   *)
LEMMA BankCreateKeeps ==
    ASSUME Inv, NEW p \in Requests, BankCreate(p)
    PROVE  Inv'
<1> DEFINE v == proc[p].venue
           d == IF proc[p].first THEN bank[v].default + 1 ELSE bank[v].default
           b == [bank[v] EXCEPT !.rows = @ + 1, !.default = d]
<1>1. /\ proc \in [Requests -> Handler] /\ proc[p] \in Handler
      /\ v \in Venues /\ proc[p].pc = "bank_create" /\ proc[p].first \in BOOLEAN
      /\ v = proc[p].venue
  BY DEF Inv, TypeOK, Handler, BankCreate, At
<1>2. /\ bank \in [Venues -> [rows : 0 .. MaxBanks, default : 0 .. MaxBanks]]
      /\ bank[v] \in [rows : 0 .. MaxBanks, default : 0 .. MaxBanks]
      /\ bank[v].rows < MaxBanks /\ MaxBanks \in Nat
  BY <1>1, VenueSetupAssumption DEF Inv, TypeOK, BankCreate
<1>3. /\ bank[v].rows \in Nat /\ bank[v].default \in Nat
      /\ bank[v].default <= bank[v].rows
      /\ bank[v].rows = 0 <=> bank[v].default = 0
      /\ ~proc[p].first => bank[v].rows > 0
  BY <1>1, <1>2 DEF Inv, Banks
<1>4. /\ bank' = [bank EXCEPT ![v] = b]
      /\ proc' = [proc EXCEPT ![p] = Idle]
      /\ UNCHANGED <<account, plans, custom, faults, topic>>
  <2>1. bank' = [bank EXCEPT ![v].rows = @ + 1,
                             ![v].default = IF proc[p].first THEN @ + 1 ELSE @]
    BY DEF BankCreate
  <2>2. bank' = [bank EXCEPT ![v] = b]
    BY <1>1, <1>2, <2>1
  <2>3. QED
    BY <2>2 DEF BankCreate, Return
<1>5. d = IF proc[p].first THEN bank[v].default + 1 ELSE bank[v].default
  OBVIOUS
<1>6. b.rows = bank[v].rows + 1 /\ b.default = d
  BY <1>2
<1>7. b \in [rows : 0 .. MaxBanks, default : 0 .. MaxBanks]
  <2>1. bank[v].rows + 1 \in 0 .. MaxBanks /\ d \in 0 .. MaxBanks
    BY <1>2, <1>3
  <2>2. QED
    BY <1>2, <2>1
<1> HIDE DEF v, d, b
<1>8. /\ \A q \in Requests : proc'[q] = IF q = p THEN Idle ELSE proc[q]
      /\ proc' \in [Requests -> Handler]
  BY <1>1, <1>4, IdleType
<1>9. /\ bank' \in [Venues -> [rows : 0 .. MaxBanks, default : 0 .. MaxBanks]]
      /\ \A w \in Venues : bank'[w] = IF w = v THEN b ELSE bank[w]
  BY <1>2, <1>4, <1>7
<1>10. TypeOK'
  BY <1>4, <1>8, <1>9 DEF Inv, TypeOK
<1>11. Accounts'
  BY <1>8, IdleType, Beside DEF Inv, Past
<1>12. Plans'
  <2>1. ASSUME NEW w \in Venues, NEW t \in 1 .. Templates
        PROVE  Planning(w, t)' = Planning(w, t)
    BY <1>1, <1>8, IdleType DEF Planning
  <2>2. QED
    BY <1>4, <2>1 DEF Inv, Plans, N
<1>13. Banks'
  <2>1. ASSUME NEW w \in Venues
        PROVE  /\ bank'[w].default + Cardinality(Banking(w)') <= N
               /\ bank'[w].rows = 0 <=> bank'[w].default = 0
               /\ bank'[w].default <= bank'[w].rows
    <3>1. /\ Banking(w)' = Banking(w) \ {p}
          /\ Banking(w) \in SUBSET Requests
          /\ Banking(w)' \in SUBSET Requests
      BY <1>8, IdleType DEF Banking
    <3>2. /\ Cardinality(Banking(w)') \in Nat /\ Cardinality(Banking(w)) \in Nat
          /\ N \in Nat
      BY <3>1, SomeOfRequests
    <3>3. Cardinality(Banking(w)') <= Cardinality(Banking(w))
      BY <3>1, FewerRequests
    <3>4. /\ bank[w].default \in Nat
          /\ bank[w].default + Cardinality(Banking(w)) <= N
          /\ bank[w].rows = 0 <=> bank[w].default = 0
          /\ bank[w].default <= bank[w].rows
      BY VenueSetupAssumption DEF Inv, TypeOK, Banks
    <3>5. CASE w # v
      BY <1>9, <3>2, <3>3, <3>4, <3>5
    <3>6. CASE w = v /\ proc[p].first
      <4>1. p \in Banking(w)
        BY <1>1, <3>6 DEF Banking
      <4>2. Cardinality(Banking(w)') = Cardinality(Banking(w)) - 1
        BY <3>1, <4>1, OneFewer
      <4>3. bank'[w].rows = bank[w].rows + 1 /\ bank'[w].default = bank[w].default + 1
        BY <1>5, <1>6, <1>9, <3>6
      <4>4. QED
        BY <1>3, <3>2, <3>4, <3>6, <4>2, <4>3
    <3>7. CASE w = v /\ ~proc[p].first
      <4>1. bank'[w].rows = bank[w].rows + 1 /\ bank'[w].default = bank[w].default
        BY <1>5, <1>6, <1>9, <3>7
      <4>2. QED
        BY <1>3, <3>2, <3>3, <3>4, <3>7, <4>1
    <3>8. QED
      BY <1>1, <3>5, <3>6, <3>7
  <2>2. ASSUME NEW q \in Requests, proc'[q].pc = "bank_create", ~proc'[q].first
        PROVE  bank'[proc'[q].venue].rows > 0
    <3>1. q # p /\ proc'[q] = proc[q]
      BY <1>8, <2>2, IdleType
    <3>2. bank[proc[q].venue].rows > 0 /\ proc[q].venue \in Venues
      BY <1>1, <2>2, <3>1 DEF Inv, Banks, Handler
    <3>3. bank[v].rows + 1 > 0
      BY <1>3
    <3>4. QED
      BY <1>6, <1>9, <3>1, <3>2, <3>3
  <2>3. QED
    BY <2>1, <2>2 DEF Banks, N
<1>14. QED
  BY <1>10, <1>11, <1>12, <1>13 DEF Inv

------------------------------------------------------------------------------
(* Failures take handlers away, and nothing else.                          *)
LEMMA LostKeeps ==
    ASSUME Inv, NEW gone \in SUBSET Requests, Lost(gone)
    PROVE  Inv'
<1>1. proc' = [p \in Requests |-> IF p \in gone THEN Idle ELSE proc[p]]
      /\ UNCHANGED <<account, plans, custom, bank, topic>>
  BY DEF Lost
<1>2. faults' \in 0 .. MaxFaults
  BY FaultType DEF Lost, Inv, TypeOK
<1>3. /\ \A q \in Requests : proc'[q] = Idle \/ proc'[q] = proc[q]
      /\ proc' \in [Requests -> Handler]
  BY <1>1, IdleType DEF Inv, TypeOK
<1>4. TypeOK'
  BY <1>1, <1>2, <1>3 DEF Inv, TypeOK
<1>5. Accounts'
  BY <1>3, IdleType, Beside DEF Inv, Past
<1>6. Plans' /\ Banks'
  BY <1>1, <1>3, IdleType, Elsewhere DEF Inv
<1>7. QED
  BY <1>4, <1>5, <1>6 DEF Inv

------------------------------------------------------------------------------
(* No row but those the instance begins with, and nobody at work.          *)
LEMMA Initially == Init => Inv
<1> SUFFICES ASSUME Init PROVE Inv
  OBVIOUS
<1>1. proc = [p \in Requests |-> Idle] /\ proc \in [Requests -> Handler]
  BY IdleType DEF Init
<1>2. Legacy \in SUBSET Account
  BY DEF Legacy, Account, Number, NoAccount
<1>3. account \in [Venues -> Legacy]
  BY DEF Init, Legacy
<1>4. account \in [Venues -> Account]
  BY <1>2, <1>3
<1>5. bank \in [Venues -> [rows : 0 .. MaxBanks, default : 0 .. MaxBanks]]
  BY VenueSetupAssumption DEF Init
<1>6. TypeOK
  <2>1. faults \in 0 .. MaxFaults
    BY VenueSetupAssumption DEF Init
  <2>2. plans \in [Venues -> [1 .. Templates -> Nat]]
    BY DEF Init
  <2>3. QED
    BY <1>1, <1>4, <1>5, <2>1, <2>2 DEF Init, TypeOK
<1>7. Accounts
  BY <1>1, IdleType DEF Accounts, Past
<1>8. ASSUME NEW v \in Venues, NEW t \in 1 .. Templates
      PROVE  Cardinality(Planning(v, t)) = 0 /\ Cardinality(Banking(v)) = 0
  <2>1. Planning(v, t) = {} /\ Banking(v) = {}
    BY <1>1, IdleType DEF Planning, Banking
  <2>2. QED
    BY <2>1, FS_EmptySet
<1>9. N \in Nat /\ 1 \in 1 .. Templates
  BY SomeOfRequests, VenueSetupAssumption
<1>10. Plans
  <2>1. \A v \in Venues, t \in 1 .. Templates : plans[v][t] = 0
    BY DEF Init
  <2>2. QED
    BY <1>8, <1>9, <2>1 DEF Plans
<1>11. Banks
  <2>1. \A v \in Venues : bank[v].rows = 0 /\ bank[v].default = 0
    BY DEF Init
  <2>2. \A v \in Venues : bank[v].default + Cardinality(Banking(v)) <= N
    BY <1>8, <1>9, <2>1
  <2>3. QED
    BY <1>1, <2>1, <2>2, IdleType DEF Banks
<1>12. QED
  BY <1>6, <1>7, <1>10, <1>11 DEF Inv

(* One lemma for every action.                                             *)
LEMMA Stepwise == Inv /\ [Next]_vars => Inv'
<1> SUFFICES ASSUME Inv, [Next]_vars PROVE Inv'
  OBVIOUS
<1>1. CASE UNCHANGED vars
  <2>1. UNCHANGED <<account, plans, custom, bank, proc, faults, topic>>
    BY <1>1 DEF vars
  <2>2. TypeOK'
    BY <2>1 DEF Inv, TypeOK
  <2>3. Accounts'
    BY <2>1, Beside DEF Inv
  <2>4. Plans' /\ Banks'
    BY <2>1, Elsewhere DEF Inv
  <2>5. QED
    BY <2>2, <2>3, <2>4 DEF Inv
<1>2. ASSUME NEW p \in Requests, NEW v \in Venues,
             \/ Ensure(p, v) \/ CreateVirtualAccount(p, v)
             \/ PlanList(p, v) \/ RegisterBank(p, v)
      PROVE  Inv'
  <2>1. CASE Ensure(p, v)
    BY <2>1, IdleType, EnsureReadKeeps DEF Ensure
  <2>2. CASE CreateVirtualAccount(p, v)
    BY <2>2, IdleType, EnsureReadKeeps DEF CreateVirtualAccount
  <2>3. QED
    BY <1>2, <2>1, <2>2, PlanListKeeps, RegisterBankKeeps
<1>3. ASSUME NEW p \in Requests, EnsureStep(p)
      PROVE  Inv'
  BY <1>3, EnsureDecideKeeps, EnsureDropKeeps, AskPaystackKeeps, UpsertActiveKeeps,
     UpsertPendingKeeps DEF EnsureStep
<1>4. ASSUME NEW p \in Requests, PlanCreate(p)
      PROVE  Inv'
  BY <1>4, PlanCreateKeeps
<1>5. ASSUME NEW p \in Requests, BankRecipient(p) \/ BankCount(p) \/ BankCreate(p)
      PROVE  Inv'
  BY <1>5, BankRecipientKeeps, BankCountKeeps, BankCreateKeeps
<1>6. ASSUME NEW p \in Requests, HandlerThrows(p)
      PROVE  Inv'
  BY <1>6, LostKeeps DEF HandlerThrows
<1>7. ASSUME NEW v \in Venues, CreatePlan(v) \/ DeactivatePlan(v)
      PROVE  Inv'
  BY <1>7, CreatePlanKeeps, DeactivatePlanKeeps
<1>8. CASE Crash
  BY <1>8, LostKeeps DEF Crash
<1>9. QED
  BY <1>1, <1>2, <1>3, <1>4, <1>5, <1>6, <1>7, <1>8 DEF Next

(* The invariant holds of every behaviour.                                 *)
LEMMA Invariance == Spec => []Inv
<1>1. QED
  BY Initially, Stepwise, PTL DEF Spec

------------------------------------------------------------------------------
(* Every reachable state is well typed.                                    *)
THEOREM TypeCorrect == Spec => []TypeOK
<1>1. Inv => TypeOK
  BY DEF Inv
<1>2. QED
  BY <1>1, Invariance, PTL

(* listPlans and ensureDefaultPlans look and then create, one row at a     *)
(* time and without a transaction; yet no template is ever active more     *)
(* often than requests may run at once.                                    *)
THEOREM PlansBounded == Spec => []DefaultPlansBounded
<1>1. ASSUME Inv, NEW v \in Venues, NEW t \in 1 .. Templates
      PROVE  plans[v][t] <= Cardinality(Requests)
  <2>1. /\ plans[v][t] \in Nat
        /\ plans[v][t] + Cardinality(Planning(v, t)) <= N
    BY <1>1 DEF Inv, TypeOK, Plans
  <2>2. Cardinality(Planning(v, t)) \in Nat /\ N \in Nat
    BY Counted, SomeOfRequests
  <2>3. plans[v][t] <= N
    BY <2>1, <2>2
  <2>4. QED
    BY <2>3 DEF N
<1>2. Inv => DefaultPlansBounded
  BY <1>1 DEF DefaultPlansBounded
<1>3. QED
  BY <1>2, Invariance, PTL

(* registerBankAccount counts and then creates; yet a venue with bank      *)
(* accounts has a default one, and no more than requests may run at once.  *)
THEOREM HasDefaultBank == Spec => []DefaultBankAccount
<1>1. ASSUME Inv, NEW v \in Venues, bank[v].rows > 0
      PROVE  bank[v].default \in 1 .. Cardinality(Requests)
  <2>1. /\ bank[v].default \in Nat /\ bank[v].rows \in Nat
        /\ bank[v].default + Cardinality(Banking(v)) <= N
        /\ bank[v].rows = 0 <=> bank[v].default = 0
    BY <1>1, VenueSetupAssumption DEF Inv, TypeOK, Banks
  <2>2. Banking(v) \in SUBSET Requests
    BY DEF Banking
  <2>3. Cardinality(Banking(v)) \in Nat /\ N \in Nat
    BY <2>2, SomeOfRequests
  <2>4. bank[v].default \in 1 .. N
    BY <1>1, <2>1, <2>3
  <2>5. QED
    BY <2>4 DEF N
<1>2. Inv => DefaultBankAccount
  BY <1>1 DEF DefaultBankAccount
<1>3. QED
  BY <1>2, Invariance, PTL

------------------------------------------------------------------------------
(* What changes an account is the step of a handler of that venue that has *)
(* gone past the decision.                                                 *)
LEMMA ChangedByPast ==
    ASSUME Inv, [Next]_vars, NEW v \in Venues, account'[v] # account[v]
    PROVE  \E p \in Requests : /\ proc[p].venue = v
                               /\ proc[p].pc \in Past
                               /\ proc'[p] # proc[p]
<1>1. ASSUME NEW p \in Requests, NEW w \in Venues,
             \/ Ensure(p, w) \/ CreateVirtualAccount(p, w)
             \/ PlanList(p, w) \/ RegisterBank(p, w)
      PROVE  account' = account
  BY <1>1 DEF Ensure, CreateVirtualAccount, EnsureRead, PlanList, RegisterBank
<1>2. ASSUME NEW p \in Requests,
             \/ EnsureDecide(p) \/ AskPaystack(p) \/ PlanCreate(p)
             \/ BankRecipient(p) \/ BankCount(p) \/ BankCreate(p) \/ HandlerThrows(p)
      PROVE  account' = account
  BY <1>2 DEF EnsureDecide, AskPaystack, PlanCreate, BankRecipient, BankCount,
     BankCreate, HandlerThrows, Lost
<1>3. ASSUME NEW w \in Venues, CreatePlan(w) \/ DeactivatePlan(w)
      PROVE  account' = account
  BY <1>3 DEF CreatePlan, DeactivatePlan
<1>4. Crash => account' = account
  BY DEF Crash, Lost
<1>5. UNCHANGED vars => account' = account
  BY DEF vars
<1>6. PICK p \in Requests : EnsureDrop(p) \/ UpsertActive(p) \/ UpsertPending(p)
  BY <1>1, <1>2, <1>3, <1>4, <1>5 DEF Next, EnsureStep
<1>7. proc[p].pc \in Past
  BY <1>6 DEF EnsureDrop, UpsertActive, UpsertPending, Upsert, At, Past
<1>8. \/ account' = account
      \/ \E row : account' = [account EXCEPT ![proc[p].venue] = row]
  BY <1>6 DEF EnsureDrop, UpsertActive, UpsertPending, Upsert
<1>9. proc[p].venue = v
  BY <1>8 DEF Inv, TypeOK
<1>10. proc'[p].pc # proc[p].pc
  <2>1. proc \in [Requests -> Handler] /\ proc[p] \in Handler
    BY DEF Inv, TypeOK
  <2>2. ASSUME NEW pc \in PC, proc' = [proc EXCEPT ![p].pc = pc]
        PROVE  proc'[p].pc = pc
    BY <2>1, <2>2 DEF Handler
  <2>3. CASE EnsureDrop(p)
    BY <2>2, <2>3 DEF EnsureDrop, At, Goto, PC
  <2>4. proc' = [proc EXCEPT ![p] = Idle] => proc'[p].pc = "idle"
    BY <2>1, IdleType
  <2>5. CASE UpsertActive(p)
    BY <1>7, <2>2, <2>4, <2>5 DEF UpsertActive, Upsert, At, Goto, Return, PC, Past
  <2>6. CASE UpsertPending(p)
    BY <1>7, <2>2, <2>4, <2>6 DEF UpsertPending, Upsert, At, Goto, Return, PC, Past
  <2>7. QED
    BY <1>6, <2>3, <2>5, <2>6
<1>11. QED
  BY <1>7, <1>9, <1>10

(* ensureForVenue deletes or writes the row of an account that is in order *)
(* only in a request of that venue whose own look found none in order.     *)
THEOREM Kept == Spec => AccountKept
<1>1. ASSUME Inv, [Next]_vars, NEW v \in Venues, Settled(v), account'[v] # account[v]
      PROVE  \E p \in Requests : /\ proc[p].venue = v
                                 /\ Replacing(p)
                                 /\ proc'[p] # proc[p]
  <2>1. PICK p \in Requests : /\ proc[p].venue = v
                              /\ proc[p].pc \in Past
                              /\ proc'[p] # proc[p]
    BY <1>1, ChangedByPast
  <2>2. FoundNone(p)
    BY <1>1, <2>1 DEF Inv, Accounts
  <2>3. Replacing(p)
    BY <2>1, <2>2 DEF Replacing, Past
  <2>4. QED
    BY <2>1, <2>3
<1>2. Inv /\ [Next]_vars =>
         [\A v \in Venues : Settled(v) /\ account'[v] # account[v] =>
             \E p \in Requests : /\ proc[p].venue = v
                                 /\ Replacing(p)
                                 /\ proc'[p] # proc[p]]_vars
  BY <1>1
<1>3. QED
  BY <1>2, Invariance, PTL DEF Spec, AccountKept
=============================================================================
