# WavePass backend: formal models

WavePass sells hotspot access: a guest pays through Paystack, a NestJS server
turns the payment into a voucher and a user on the venue's MikroTik router, and
the venue's owner cashes the earnings out. These modules model the parts of the
server where money becomes access, where access reaches the router and ends, and
where earnings become money again, at the grain of its `await`s; they check them
with TLC and prove the central facts with TLAPS.

All handlers talk to one PostgreSQL database (Prisma, READ COMMITTED unless a
transaction says otherwise), two BullMQ queues in Redis, the Paystack API and
the routers. The server is a single Node process; its handlers interleave at
every `await`, and most of them read a row, call out, and write the row by id
with no condition on what it has become. That is the source of most of what can
go wrong here, and the reason every read and every write is a step of its own in
the models.

## Inventory

| component | state | operations | hard part |
| --- | --- | --- | --- |
| payment-fulfilment worker (`jobs/`) | payment, voucher, order, queue | `fulfill`, `add` | runs beside the poll's in-line fulfilment and beside three other handlers that settle the same payment; retries; stalled jobs |
| orders | order | `create`, `status` | `status` runs `fulfill` in line |
| Paystack controller | payment, webhook ledger | `initialize`, `webhook` | at-least-once events, ledger insert before the work, duplicate path |
| reversals and repairs (`admin/`) | payment, voucher | `handlePaymentReversal`, `verifyReference`, `reconcile` | revokes from a snapshot; accepts any amount; re-adds jobs |
| captive portal | order, payment, voucher | `initPayment`, landing page, `retrieveVoucher`, `approveAccess`, transfer requests, router sync | reads before the gateway's answer, writes after it; an approval in three statements |
| provisioning worker (`mikrotik/`) | order, voucher, session, queue | `provisionForOrder`, `provisionForVoucher` | retries after any step, re-adds, minting a missing voucher |
| cashouts | cashout, ledger of earnings | request, confirm, reject, OTP, reconcile, transfer events | money leaves by an API without an idempotency key; stale writes over a webhook's |
| activation codes and requests (`admin/`) | code, redemption, request | generate, authorize, redeem, sweep, apply, approve, reject | a ledger row and a count in two statements; status written from a stale read |
| vouchers | voucher | `generateBatch`, `syncVouchers`, `redeem`, `revoke`, expiry sweep | two venues and two requests race for a code; MAC binding; sync and claim decide from a stale read |
| router sync and MikroTik | hotspot users, bypass bindings, the script | push by the worker, pull by the router, `disconnectSession` | the script is a snapshot run later; a push fails before or after the router did it; at most a hundred vouchers |
| session cleanup (`admin/`) | router users, sessions, vouchers | `cleanup` every minute | router first, database second, and the process may die between |
| notifications | alert | `notifyOnce`, mark all read | a look and then a create |
| virtual accounts | account row | `ensureForVenue`, `createVirtualAccount` | concurrent attempts, one upserting PENDING over the other's ACTIVE, one deleting what another created; the client chooses the e-mail that decides the number |
| plans, bank accounts | their rows | `listPlans` and its defaults, create, deactivate, `registerBankAccount` | look-then-create, several creates without a transaction |
| venues, routers, audit, statistics, metrics, app releases, health, guards | their rows | CRUD, reads | see "Not modelled" |

How they meet: the gateway's `charge.success` goes webhook → ledger → fulfilment
queue → `fulfill` → provisioning queue → router and session. The customer's
poll, the landing page, the help desk and the owner's approval write the same
payment, voucher and order rows from the side. Settled payments are the earnings
the cashouts draw on. A voucher, once it is there, is claimed, handed over,
synchronised and closed by handlers that do not know of each other, while the
router learns of it by the worker's push and by its own pull. A venue's account,
plans and bank account are made by whoever asks first. The activation tables are
on their own.

What makes each correct:

* checkout: settled money means a voucher; no voucher without money or an
  owner's word; an acknowledged charge is never forgotten; a revoked voucher
  stays revoked; an ACTIVE order can log in; one session per order; and what is
  paid or queued ends well once the faults stop, or when it is reconciled.
* access: a code is claimed once and closed for good, and goes from device to
  device only by its claim or a handover; the router never has a user for unsold
  stock, and gets one for every claimed voucher even if all pushes fail; one
  session per job, and none stays ACTIVE when it is over; a venue prints only
  codes that are stored under its name.
* venue set-up: an account in order is lost only to a request that found it out
  of order before, and one that is not heals; default plans are not multiplied beyond the requests at once; a venue with bank
  accounts has a default one.
* cashouts: what left, or may leave, is on the books; a cashout is sent once;
  COMPLETED means paid; released payouts never exceed earnings.
* activation: the overrun of a quota is bounded by what runs at once; the count
  is backed by the ledger; a used-up code stays closed; GRANTED means access.

## Modules

    CheckoutStore        tables, queues, gateway, handlers, and the helpers on them
      PaymentFulfilment  fulfill(), by the worker and in line by orders.status
      PaystackHooks      initialize, webhook, reversals; the gateway (external)
      PortalHandlers     initPayment, landing, verify, retrieve, approve,
                         transfer request, redeem
      Provisioning       the provisioning worker, reconcile
        Checkout         their composition with faults, fairness, properties
          MCCheckout     instances
          CheckoutTypes        proofs: types, and which handler has what in hand
          CheckoutReferences   proofs: whose a reference is
          CheckoutProofs       theorems: access and money
          CheckoutGuards       theorems: amounts and acknowledgements
    AccessStore          voucher, session, job, alert and router state
      Vouchers           batches, sync, sale, redeem, retrieve, revoke, sweep
      HotspotRouter      push, pull, script, cleanup, disconnect
        Access           their composition with faults, fairness, properties;
                         refines VoucherLife
          MCAccess       instance: the scenarios
          AccessProofs   theorems
    VoucherLife          what a voucher promises
    VenueSetup           dedicated account, default plans, bank account
      MCVenueSetup       instance
      VenueSetupProofs   theorems
    Cashouts             cashouts over settled payments; refines PayoutLedger
      MCCashouts         instances
      CashoutsProofs     theorems, the refinement among them
    PayoutLedger         what a venue's payouts promise
    ActivationCodes      codes, redemptions and applications for access
      MCActivationCodes  instance
      ActivationProofs   theorems

`Cashouts` and `Access` each hold their abstract specification as an instance
with a refinement mapping (`Ledger == INSTANCE PayoutLedger WITH ...`, `Promise
== INSTANCE VoucherLife WITH ...`). `Ledger` maps payments and cashouts to what
was earned, locked and paid out; `Promise` maps a voucher's status to how far its
code has come (ACTIVE is still "open": sold, and not yet used) and `redeemedMac`
to its holder.

**State.** A table is a function from ids to records of the columns that matter
(`payment[o]` is the Payment row of order `o`, since `orderId` is unique);
status `"NONE"` is a row that is not there, and a creation takes any such id.
`recorded` is the unique `eventKey` column. A BullMQ queue maps a job id to the
state of its job: `add` is a no-op while a job of that id exists, in any state,
the failed one included. A handler is one record of `proc`: where it is between
two awaits (`pc`) and the local variables it carries across them. `charge`,
`sent` and `acked` are the gateway as the handlers can observe it. In
`Cashouts`, `transfer` and `event` are its transfers and their webhooks. In
`Access`, `voucher`, `session`, `pq` and `alert` are rows and jobs of the cloud,
`user`, `binding` and `script` the router's own state; `printed` and `claimed`
are history, kept for the properties alone. `Sell` stands there for the whole
checkout, which `Checkout` models, and `Home` is the venue that sells online and
whose router it is.

**Actions.** Each is the code from one await to the next; PROJECT.json's `map`
names the lines. A guard is the code's condition or early return. A Prisma
transaction that only writes is one step; one that reads first (`fulfill`) is a
read step and a write step, because at READ COMMITTED the read locks nothing. A
conditional `updateMany` (`redeem`) is one step. The Serializable transaction of
`requestCashout` is one step.

**Faults.** `HandlerThrows` ends any handler at any await (500, or a failed
attempt of its job); `Crash` ends all of them and leaves the database and Redis
as they are, with active jobs stalled, which BullMQ requeues once and fails the
second time (in `Access` a stalled job is simply taken again). The hand-off to
provisioning that ends `fulfill` swallows a refused `add`, and so does
`EnqueueProvisioning`. A push may fail before or after the router did it, a
binding or an alert may fail and is ignored, Paystack may refuse a dedicated
account. `MaxFaults` bounds them all.

**Scenarios.** A voucher meets nine kinds of handlers, two ways onto the router,
and time; all of them at once are too many for TLC. `Access` therefore takes a
set of `Scenarios`, each a set of pairs of what may happen and to which code; a
behaviour draws one in its first state and keeps it (`enabled`). A guard `On` or
`Somewhere` is not a condition of the code: it says whether the instance
exercises the action. `MCAccess` says what each scenario is for, and the proofs
hold for any set of them, the one with everything included. `VenueSetup` does the
same with its three `Topics`, which share no row.

**Left abstract.** Amounts are "full" or "short"; formatting, codes, tokens and
prices are not there; time is only `past` (an activation code's expiry) and the
free choice `disputed` (the hold on a young dispute). In `Checkout`
the router is only whether the venue has one (a push succeeds or degrades, and
neither changes a row), and the MAC a voucher is bound to is not there: `Redeem`
chooses freely whether the status is flipped or the device already owns the
voucher. One order and one venue per instance there: handlers of different orders
share no row but through references, which are fresh.

`Access` has both MAC and router. It leaves out sold flags and passwords, plans
for several devices, the search for a code without its dash, the duration counted
from redemption for a voucher without a date (`retrieveVoucher` alone looks at
it), the number of a job's attempts (`MaxFaults` is below the eight it has) and
the venue without a router, which `Provisioning` covers. A sync script is fetched
in one step and run in another, without interruption.

In `VenueSetup` Paystack has one customer, and so one number, for an e-mail
address. `ensure` asks with the venue's own, which is made up of its id; a
client of `createVirtualAccount` gives one of `Emails`, and may give it for any
venue, so that numbers collide anew as well as in the rows left from before. The
client's phone and preferred bank are left out. An e-mail is always given there:
without one `createVirtualAccount` is `ensure`. In `Checkout` a voucher's time is
not modelled, so that `Retrieve` may treat any as over; `Reconcile` reads one
payment and then adds its job, in place of all payments of the venue, and all
guests have a MAC.

## Runs

| run | what runs | checks | size |
| --- | --- | --- | --- |
| `checkout_card` | init, re-init, poll, landing, webhook, worker; 2 references, 2 request slots, 2 attempts, 1 fault | `TypeOK`, `FulfilledHasVoucher`, `UnderpaymentGuard`, `AcknowledgedChargeStands` | 724 k states |
| `checkout_desk` | create, initialize, approve, retrieve, verify, reconcile, webhook, both workers; 1 fault | `FulfilledHasVoucher`, `AccessIsPaidFor`, `ActiveOrderHasVoucher`, `OneSessionPerOrder` | 213 k |
| `checkout_live` | init, poll, reconcile, webhook, both workers; 2 attempts, 1 fault; fairness | `PaidGetsVoucher`, `QueuedOrderActivated`, `StuckOrderRepaired` | 121 k |
| `checkout_refund` | init, redeem, refund events, both workers | `RevokedStaysRevoked` | 1.2 M |
| `cashouts` | two cashouts over one unit of earnings, two transfers, 2 slots, 1 fault | `TypeOK`, `MoneyOutIsOnTheBooks`, `SentOnce`, `CompletedWasPaid`, `LedgerSpec` | 1.7 M |
| `access` | the eight scenarios, two codes (one of six digits), two devices and venues, 2 slots, one worker, scripts of one voucher, 1 fault; fairness | `TypeOK`, `OnlyClaimedOnRouter`, `OneSessionPerJob`, `OneUnreadAlert`, `PrintedIsStored`, `LifeSpec`, `ClaimedReachesRouter`, `OverdueSessionEnds`, `StaleBypassDropped` | 146 k |
| `venue` | two venues, one e-mail of clients, 2 slots, 3 default plans, at most 3 bank accounts, 2 faults; fairness | `TypeOK`, `DefaultPlansBounded`, `DefaultBankAccount`, `AccountKept`, `AccountHeals` | 322 k |
| `activation` | one code, five accounts, one application, 2 slots, 1 fault | `TypeOK`, `QuotaBounded`, `CountBacked`, `GrantedHasAccess`, `UsedUpIsClosed` | 35 k |
| `checkout_once`, `checkout_stranded`, `checkout_unused`, `cashouts_overpaid` | smallest instance that shows it | one claim of the repository each, violated | - |

`AccessIsPaidFor` is checked where money can come in short and where the owner
may approve; `UnderpaymentGuard` only over the endpoints that compare amounts
(`verifyReference` and `retrieveVoucher` accept a short payment, so it is not
asked of `checkout_desk`).

**Bounds.** `Refs`, `Vouchers`, `Sessions`, `Transfers` and `Codes` are pools: an
action that needs a fresh one is disabled when none is left. Two vouchers are
enough for two handlers to settle one payment, which is the race at hand; two
references for one replacement; two sessions would show a second one
(`checkout_live` has one, as there is never more, by `SessionsAreOne`); two
transfers a second sending. Two `Requests` slots give every pair of HTTP handlers
beside the workers. `FulfilAttempts` and `ProvisionAttempts` are 1 or 2 in place
of 5 and 8: a retry and a last attempt are all a job can tell apart. `MaxFaults` is 0 or 1, and 2 in `venue`. Deadlock is not checked in `checkout_*`
and `cashouts*`: there all handlers may really be done, the pools used up and
nothing left to do. Neither is it in `access` and `venue`: in a scenario without
a pull or a timer everybody may have finished. It is checked in `activation`. `checkout_card` has no provisioning worker (it waits to be served
in the queue), as none of its properties looks beyond it.

In `access` a script holds one voucher in place of a hundred, and in the scenario
`Crowded` two are claimed, so that the limit is met and both sides of it are
seen. Of the two codes one has six digits, as the checkout draws them, because
the script's search for old bypasses treats the two forms differently. In
`venue` three default plans stand for four (four were checked once, 977 k
states): a first, a middle and a last. Three bank accounts let two
registrations race before or after a third. One e-mail is enough for two venues
to be given the same; two faults let a request fail and another one die.

In `activation` a single code means that a second administrator's mint has to
wait for ever; two of them minting two codes are covered by the
proof, which is for any number.

**Symmetry** is used for request slots, vouchers and sessions (and accounts,
payments, cashouts, transfers), which no action and no property names, and
never for liveness.

**Fairness** (`LiveSpec`). Weak for every started handler: Node resumes it when
its await is over. Weak for the workers: BullMQ hands them waiting jobs. Faults
are bounded, so that they stop, and in `checkout_live` there are fewer of them
than a fulfilment job has attempts. Nothing is assumed of the customer's paying,
of the endpoints people call, or of the gateway's reversals. What starts the
work from outside is a premise of the property: `PaidGetsVoucher` holds if the
gateway redelivers a charge until it is acknowledged, and it also holds with no
webhook at all if the customer's page goes on asking for the order's status,
which is what `orders.status` promises of dropped webhooks. Both start a request
again and again while a slot is not free all the time, so their fairness is
strong. Without either the property is false. `StuckOrderRepaired` has a premise
of the same kind: an administrator who goes on reconciling while the router
answers.

In `access` weak fairness is assumed of the router's scheduler, which fetches the
script and runs it every few minutes, and of the timer's two halves: the timer
fires every minute, and a round that fails is followed by another. Nothing is
assumed of requests or of the worker, so `ClaimedReachesRouter` says that the
pull alone suffices. In `venue` started requests go on, and the owner's app asks
for the account again and again (strong: a slot is not always free); Paystack's
refusals are faults and end. `AccountHeals` has the premise that clients some day
stop giving e-mails: two venues that are created with one, over and over, can go
on taking its number from each other.

## What the runs found

Four statements of the repository are not kept by the code; each is a run that
ends in a counterexample.

1. **Two vouchers for one payment** (`checkout_once`). `fulfill` is called
   "atomic, exactly-once": the worker and the poll both read a payment that is
   not FULFILLED, and both commit.
2. **A stranded charge** (`checkout_stranded`). A second initialize replaces the
   reference the customer is paying; no row names it any more.
3. **A refund that revokes nothing** (`checkout_unused`). A reversal event is
   recorded before it is handled and acknowledged as a duplicate afterwards, so
   a crash in between leaves the voucher ACTIVE.
4. **A cashout confirmed twice** (`cashouts_overpaid`). Two confirmations of a
   held cashout both read PENDING and both transfer.

Because of 4, the safety properties of `Cashouts` speak of the cashouts the
policy released by itself (`auto`); for the held ones they are false.

More was met while modelling, where the repository says nothing that a property
could hold it to, or where the models show the behaviour as a choice they allow:

* A transfer can only be reversed once it has succeeded, and its cashout is
  COMPLETED by then, which `handleTransferEvent` takes for terminal
  (`cashouts.service.ts:729`): the branch that flags a reversal never sees one,
  and the cashout goes on counting as paid out.
* `redeem` says that two attempts "cannot both succeed". A device that finds its
  own MAC on the row is answered like a winner, and a claim without a MAC writes
  back the MAC it read, over a handover in between.
* `retrieveVoucher` binds a code in any status, REVOKED and never claimed ones
  included.
* `syncVouchers` counts an item whose create failed. A bulk request that lost a
  race for one code neither stores nor prints its other fresh codes.
* `disconnectSession` asks the router to remove a user named by the session's
  MAC; users are named by code, so the user stays and the session is ENDED. Nor
  does a revocation or a refund reach the router. What removes a user is the
  cleanup, which looks at fields a RouterOS row does not have.
* The script drops a "WP:" bypass by what its comment holds from the tenth
  character on: never for a code of six digits, always for a longer one.
* A voucher without an expiry stays on the list of the hundred newest for ever.
* The cleanup visits the first router of the default venue only, and skips the
  sessions too when that one does not answer.
* An order's provisioning job that runs after its voucher's records a second
  session: it looks for one by order, and the voucher's has none.
* `approveAccess` marks the order PAID whatever its status, REFUND_REQUIRED too:
  when it then finds that the order has a payment (P2002, 500), the mark of the
  refund is gone and nothing was granted.
* Two first registrations make two default bank accounts; default plans left
  incomplete by a failure are never completed.
* "Idempotent and race-safe" (`virtual-accounts.service.ts:64`) is not kept to
  the letter. `ensureForVenue` acts on the row it read: the delete (line 100) of
  a request that found a stale row takes the account another one has just
  stored, and `upsertPending` (line 197) of one that Paystack refused turns such
  an account back to PENDING, which no caller asked for. The models state how
  much of the claim is true: an account in order is lost to nobody but such a
  request (`AccountKept`), and comes back (`AccountHeals`).
* The e-mail of a dedicated account is the client's choice (line 116). Two venues
  created with one get one number; each then finds the other's row collided and
  deletes its own, ACTIVE or not.

## Proofs

Every safety property of a passing run, and every action property and
refinement, is proved for every value of the constants. Each proof module
assumes only the named assumption of the module it proves about
(`CheckoutAssumption`, `CashoutAssumption`, `ActivationAssumption`,
`AccessAssumption`, `VenueSetupAssumption`): finite sets where something is
counted, positive quotas, attempts and amounts, `None` and the other markers
outside the id sets, kinds of processes that do not overlap. TLC evaluates them
in every run. Two theorems of the checkout have hypotheses of their own, below.

**Checkout** (four modules), for any number of orders, references, vouchers,
sessions, requests and workers, any endpoints and any gateway events. The run's
instances have one order; the theorems also say that orders do not disturb each
other. None of the properties is inductive, as a handler acts on what it read
several awaits ago. The invariant is built in four layers, each using those
before it.

1. `Sane` (`CheckoutTypes`; theorem `TypeCorrect`): types, with what they rest
   on. A handler past its first await has a reference and an order in hand
   (`Fits`), and where it is about to update a payment the row is there
   (`HasRow`); the job a worker has is active and no other worker's, and a job
   that waits or is active has an attempt left.
2. `Referenced` (`CheckoutReferences`): a reference is one order's, wherever the
   two occur together - in a payment row, at the gateway, or in the hand of any
   handler (`OneOwner`). Two handlers never open a transaction for one reference
   (`Mints`), and a handler that holds a success holds a charge that was taken
   (`Charges`). Without it a handler could settle one order with the money of
   another: `initialize` replaces the reference of a row while others still
   carry the old one.
3. `Granted` (`CheckoutProofs`): every voucher's order, and every order with a
   queued provisioning job or a handler about to queue one, was paid or approved
   (a job alone makes the worker mint a missing voucher, and `reconcile` queues
   one for an approval that died before its voucher); a handler that found the voucher of its order may
   rely on it two awaits later, since vouchers are never deleted (`Knows`); a job
   in its last step has no session yet. From it `SettledIsGranted`,
   `GrantedIsPaid`, `ActiveCanLogIn`, `SessionsAreOne`; `RevocationIsFinal` is an
   action property, over everything that writes vouchers.
4. `Guarded` (`CheckoutGuards`): what a handler was told is still so when it
   writes. `AccessInFull` (`UnderpaymentGuard`) and `AcknowledgedStands`
   (`AcknowledgedChargeStands`) state their hypotheses: no refund is processed,
   as that takes a success back after the fact; for the first, no `retrieve`,
   `verify` or `approve`, which give access for less than the amount; for the
   second, no `approve`, which un-marks a refund (see above). `checkout_card` is
   an instance of both. Pending and failed refunds, disputes, re-initialization,
   polls, the landing page and both queues are covered.

**Cashouts** (`CashoutsProofs`): `TypeCorrect`, `BackedCorrect`, `MoneyOut`,
`Once`, `Paid` and the refinement `Implements`, for any number of payments,
cashouts, transfers and handlers. The properties are not inductive: a handler
that works on an old row writes it by id, so what protects the row is what the
handler *knows*. `Backed` states it: every released row names at most one
transfer, every handler that may yet write the row carries that transfer and a
true answer about it (a final answer stays true, but for a success taken back),
one handler at most is about to send, and every event not acknowledged is true.
`TypeOK` needs a companion too (`HandlerArgs`), as a step that asks about its
transfer must carry one.

`Implements` is `Spec => LedgerSpec`: a row inserted by the policy is a
reservation, the gateway's opening of its transfer the sending, and whatever the
handlers write over each other is a stutter. The step that matters is the
reservation. What PayoutLedger counts as committed is, by `Backed`, locked or
cashed out in the rows, so that what the transaction found affordable is left of
the funds too. Amounts are sets of units (`Units`), so that a sum is a
cardinality and its laws (`AmountsAdd`, `AmountsGrow`) follow from those of
finite sets.

**Activation** (`ActivationProofs`): `AccountedCorrect`, `TypeCorrect`,
`Bounded`, `Backing`, `Access`, `Closed`, for any number of codes, accounts,
applications and handlers. The invariant `Accounted` keeps the books between the
two statements of a redemption. For a code that is not a direct grant

    used + |Counting|  <=  |Redeemers|  <=  used + |Counting| + |Requests| * faults
    used + |Redeeming| + 1  <=  quota + |Requests|

where `Redeemers` are the accounts on the ledger, `Counting` the handlers that
wrote their row and have not counted it, and `Redeeming` those and the ones that
passed the checks. The first line gives `CountBacked`; the two together give
`QuotaBounded`. A direct grant is used up when it is minted, nobody redeems it,
and one handler writes its one ledger row (`OneMinter`), from which
`GrantedHasAccess` follows. `Closed` is an action property: with the count at
the quota no handler passes the checks, and the count only grows.

**Access** (`AccessProofs`): `TypeCorrect`, `NoStockOnRouter`, `OneSessionEach`,
`OneAlertEach`, `Printable` and the refinement `Implements`, for any number of
codes, devices, venues, requests and workers, any scenarios and a script of any
length. The invariant `Inv` says what each handler knows (`RequestHolds`,
`WorkerHolds`): a request that saw an ACTIVE row has a code that was handed out,
one that is about to bind has a code that exists, a batch carries rows that are
its venue's stock; a job at work is one worker's alone (`OneWorkerPerJob`), has
no session yet when that worker records one, and no unread alert when it writes
one. `Known` adds that queue, router and script hold handed-out codes only,
which is what makes a script safe however late it runs. Every step changes rows
only as `RowStep` allows, whatever the handler read before; from that follow
both that knowledge stays true and that each step is one of `VoucherLife`'s.

**Venue set-up** (`VenueSetupProofs`): `TypeCorrect`, `PlansBounded`,
`HasDefaultBank`, `Kept`, for any number of venues, e-mails, requests and
templates. The two bounds count the requests under way with the rows: for every
venue and template, the active plans and the requests that have still to create
that plan are together at most as many as there are requests, since creates begin
only where nothing is active; likewise the default accounts and the requests that
counted none. `Kept` rests on `Accounts`: whoever is past the decision read a
row that was not ACTIVE, was of the mock era, or was collided when it looked;
no step writes a row but one of such a request, for its own venue. Nothing is
assumed of the numbers, which two venues may share at any time.

**Model-checked only.** Liveness (`PaidGetsVoucher`, `QueuedOrderActivated`,
`StuckOrderRepaired`, `ClaimedReachesRouter`, `OverdueSessionEnds`,
`StaleBypassDropped`, `AccountHeals`), which rests on fairness and so on ENABLED; and the four
statements that the code does not keep.

## Not modelled

* The MikroTik adapter's protocol and the text of its scripts; authentication
  guards; app releases, health, metrics: pure input and output.
* Venues and routers CRUD, audit, statistics: single statements on rows nothing
  in the models decides from. Two looks-then-writes there are known and without
  consequence for the rest: `createRouter` may make a venue's router twice, and
  `testRouter` writes back a `lastSeen` it read before.
* `updatePlan`: the version it bumps is read before, so that two price changes
  may give one version; it is only shown.
* Paystack's client is seen through its answers; its mock mode, and the portal's
  `simulatePayment` that exists for it, move no money.

Four behaviours are recorded as hazards with no property, since the code states
no intent to check against: `refund.failed` after `refund.pending` leaves a
customer with neither money nor access; a transfer call that throws leaves its
cashout CONFIRMED and its amount locked for good; REFUND_REQUIRED may be
overwritten with ACTIVE by a job under way; and sessions of routers other than
the one the timer visits never end.

## Plan

Done, in this order: checkout store and fulfilment; hooks and faults; portal,
approval and provisioning; liveness; cashouts with their abstract ledger;
proofs of the cashouts; activation and its proofs; vouchers and the router with
their abstract life; the set-up of venues; proofs of access and of the set-up;
proofs of the checkout; the refinement of the cashouts.

Next:

1. An abstract checkout (what an order promises: money taken, access granted,
   access revoked) that `Checkout` refines, with the step correspondence proved
   from `Safe`.
2. The amount guard step by step: with `retrieve` and `verify` offered, which
   vouchers may be short.
3. `updatePlan`, and venues and routers where their looks and writes race.
