------------------------- MODULE CheckoutReferences -------------------------
(***************************************************************************)
(* Who owns a payment reference, and what a handler that holds one knows   *)
(* of the gateway's answer across its awaits: the facts on which every     *)
(* grant of access rests.                                                  *)
(***************************************************************************)
EXTENDS CheckoutTypes

(* A transaction the customer paid, in full or not, reversed since or not. *)
Ever == {"paid", "short", "reversed"}
Taken(r) == charge[r].st \in Ever

(* A reference is one order's: wherever the two are found together, in a   *)
(* payment row, at the gateway or in a handler's hand, it is that order.   *)
Owns(r, o) ==
    \/ payment[o].ref = r
    \/ payment[o].tx = r
    \/ charge[r].order = o
    \/ \E p \in Procs : proc[p].r = r /\ proc[p].o = o

OneOwner == \A r \in Refs, o, u \in Orders : Owns(r, o) /\ Owns(r, u) => o = u

(* Two handlers never open a transaction for one reference, and nobody     *)
(* else has touched it.                                                    *)
Minting(p) == proc[p].pc \in MintingPC

Mints ==
    /\ \A p, q \in Procs : Minting(p) /\ Minting(q) /\ p # q => proc[p].r # proc[q].r
    /\ \A p \in Procs :
          /\ At(p, "reinit_write") =>
                charge[proc[p].r].st = "created" /\ charge[proc[p].r].order = proc[p].o
          /\ Minting(p) /\ ~At(p, "reinit_write") => charge[proc[p].r].st = "none"

(* Where a handler holds a success the gateway reported.                   *)
VerifiedPC == {"ful_load", "ful_underpaid", "ful_read", "ful_commit", "land_commit",
               "ret_commit", "adm_commit"}

Charges ==
    /\ \A r \in Refs : charge[r].st = "none" <=> charge[r].order = None
    /\ \A o \in Orders : payment[o].tx # None => Taken(payment[o].tx)
    /\ \A p \in Procs : proc[p].pc \in VerifiedPC => Taken(proc[p].r)

Referenced == OneOwner /\ Mints /\ Charges

------------------------------------------------------------------------------
(* Moves.                                                                  *)

(* The others stay.                                                        *)
Moved(p) == \A q \in Procs : q # p => proc'[q] = proc[q]

(* What a handler carries when it goes on, is done, or starts.             *)
LEMMA GotoMoves ==
    ASSUME Sane, NEW p \in Procs, NEW pc, Goto(p, pc)
    PROVE  /\ Moved(p)
           /\ proc'[p].pc = pc /\ proc'[p].o = proc[p].o /\ proc'[p].r = proc[p].r
           /\ proc'[p].v = proc[p].v /\ proc'[p].ev = proc[p].ev
           /\ proc'[p].todo = proc[p].todo /\ proc'[p].flag = proc[p].flag
BY Parts DEF Sane, Goto, Moved, Handler

(* One that is done carries nothing.                                       *)
LEMMA IdleMoves ==
    ASSUME Sane, NEW p \in Procs, proc' = [proc EXCEPT ![p] = Idle]
    PROVE  /\ Moved(p) /\ proc'[p] = Idle
           /\ proc'[p].pc = "idle" /\ proc'[p].o = None /\ proc'[p].r = None
BY Parts, IdleType DEF Sane, Moved

(* One that starts carries what it was started on.                         *)
LEMMA StartMoves ==
    ASSUME Sane, NEW p \in Procs, NEW pc, NEW o, NEW r, Start(p, pc, o, r)
    PROVE  /\ Moved(p)
           /\ proc'[p].pc = pc /\ proc'[p].o = o /\ proc'[p].r = r
           /\ proc'[p].v = None /\ proc'[p].flag = FALSE /\ proc'[p].ev = None
BY Parts DEF Sane, Start, Moved, Idle

(* None is nobody's.                                                       *)
LEMMA NoneIsNone ==
    None \notin Orders /\ None \notin Refs /\ None \notin Vouchers /\ None \notin Sessions
BY CheckoutAssumption

------------------------------------------------------------------------------
(* References.                                                             *)

(* No step but a minting one gives a reference a new owner.                *)
LEMMA OwnersKept ==
    ASSUME Sane, OneOwner, NEW p \in Procs, Moved(p),
           proc'[p].r \in Refs /\ proc'[p].o \in Orders => Owns(proc'[p].r, proc'[p].o),
           \A o \in Orders : payment'[o].ref \in Refs => Owns(payment'[o].ref, o),
           \A o \in Orders : payment'[o].tx \in Refs => Owns(payment'[o].tx, o),
           \A r \in Refs : charge'[r].order \in Orders => Owns(r, charge'[r].order)
    PROVE  OneOwner'
<1>1. ASSUME NEW r \in Refs, NEW o \in Orders, Owns(r, o)' PROVE Owns(r, o)
  <2>1. CASE payment'[o].ref = r \/ payment'[o].tx = r \/ charge'[r].order = o
    BY <2>1
  <2>2. CASE \E q \in Procs : proc'[q].r = r /\ proc'[q].o = o
    BY <2>2 DEF Moved, Owns
  <2>3. QED
    BY <1>1, <2>1, <2>2 DEF Owns
<1>2. QED
  BY <1>1 DEF OneOwner

(* A step that opens no transaction, and settles a payment at most with    *)
(* the reference it holds.                                                 *)
LEMMA MovedReferenced ==
    ASSUME Sane, Sane', Referenced, NEW p \in Procs, Moved(p), charge' = charge,
           \A o \in Orders : payment'[o].ref = payment[o].ref,
           \A o \in Orders :
              \/ payment'[o].tx = payment[o].tx
              \/ payment'[o].tx = proc[p].r /\ o = proc[p].o /\ Taken(proc[p].r),
           proc'[p].pc \notin MintingPC,
           proc'[p].pc \in VerifiedPC => Taken(proc'[p].r),
           proc'[p].r \in Refs /\ proc'[p].o \in Orders => Owns(proc'[p].r, proc'[p].o)
    PROVE  Referenced'
<1>1. OneOwner'
  <2>1. \A o \in Orders : payment'[o].ref \in Refs => Owns(payment'[o].ref, o)
    BY DEF Owns
  <2>2. \A o \in Orders : payment'[o].tx \in Refs => Owns(payment'[o].tx, o)
    BY DEF Owns
  <2>3. \A r \in Refs : charge'[r].order \in Orders => Owns(r, charge'[r].order)
    BY DEF Owns
  <2>4. QED
    BY <2>1, <2>2, <2>3, OwnersKept DEF Referenced
<1>2. Mints'
  BY DEF Referenced, Mints, Minting, At, Moved, MintingPC
<1>3. Charges'
  BY DEF Referenced, Charges, Taken, Moved
<1>4. QED
  BY <1>1, <1>2, <1>3 DEF Referenced

(* A handler goes on and opens nothing.                                    *)
LEMMA GotoReferenced ==
    ASSUME Sane, Sane', Referenced, NEW p \in Procs, NEW pc, Goto(p, pc),
           pc \notin MintingPC, pc \in VerifiedPC => Taken(proc[p].r),
           UNCHANGED <<payment, charge>>
    PROVE  Referenced'
<1>1. /\ Moved(p) /\ proc'[p].pc = pc
      /\ proc'[p].r = proc[p].r /\ proc'[p].o = proc[p].o
  BY GotoMoves
<1>2. Owns(proc[p].r, proc[p].o)
  BY DEF Owns
<1>3. QED
  BY <1>1, <1>2, MovedReferenced

(* A handler is done.                                                      *)
LEMMA IdleReferenced ==
    ASSUME Sane, Sane', Referenced, NEW p \in Procs, proc' = [proc EXCEPT ![p] = Idle],
           UNCHANGED charge,
           \A o \in Orders :
              payment'[o].ref = payment[o].ref /\ payment'[o].tx = payment[o].tx
    PROVE  Referenced'
<1>1. Moved(p) /\ proc'[p].pc = "idle" /\ proc'[p].r = None
  BY IdleMoves
<1>2. "idle" \notin MintingPC /\ "idle" \notin VerifiedPC
  BY DEF MintingPC, VerifiedPC
<1>3. QED
  BY <1>1, <1>2, NoneIsNone, MovedReferenced

(* A handler starts, and opens nothing.                                    *)
LEMMA StartReferenced ==
    ASSUME Sane, Sane', Referenced, NEW p \in Procs, NEW pc, NEW o, NEW r, Start(p, pc, o, r),
           pc \notin MintingPC, pc \notin VerifiedPC,
           r \in Refs /\ o \in Orders => Owns(r, o),
           UNCHANGED <<payment, charge>>
    PROVE  Referenced'
<1>1. Moved(p) /\ proc'[p].pc = pc /\ proc'[p].r = r /\ proc'[p].o = o
  BY StartMoves
<1>2. QED
  BY <1>1, MovedReferenced

(* Nobody moves, nothing is opened.                                        *)
LEMMA StillReferenced ==
    ASSUME Referenced, UNCHANGED <<payment, charge, proc>>
    PROVE  Referenced'
BY DEF Referenced, OneOwner, Owns, Mints, Minting, At, Charges, Taken

------------------------------------------------------------------------------
(* Opening a transaction.                                                  *)

(* A fresh reference is nobody's.                                          *)
LEMMA FreshIsUnowned ==
    ASSUME Sane, Referenced, NEW r \in FreshRefs, NEW o \in Orders
    PROVE  ~Owns(r, o)
<1>1. charge[r].st = "none" /\ charge[r].order = None /\ payment[o].ref # r
  BY DEF FreshRefs, Referenced, Charges
<1>2. payment[o].tx # r
  BY <1>1, NoneIsNone DEF FreshRefs, Referenced, Charges, Taken, Ever
<1>3. QED
  BY <1>1, <1>2, NoneIsNone DEF Owns, FreshRefs

(* A handler starts with a fresh reference.                                *)
LEMMA MintReferenced ==
    ASSUME Sane, Sane', Referenced, NEW p \in Procs, NEW r \in FreshRefs, NEW o \in Orders,
           Moved(p), proc'[p].r = r, proc'[p].o = o,
           proc'[p].pc \in MintingPC \ {"reinit_write"},
           UNCHANGED <<payment, charge>>
    PROVE  Referenced'
<1>1. \A u \in Orders : ~Owns(r, u)
  BY FreshIsUnowned
<1>2. charge[r].st = "none" /\ \A q \in Procs : proc[q].r # r
  BY DEF FreshRefs
<1>3. OneOwner'
  <2>1. ASSUME NEW s \in Refs, NEW u \in Orders, Owns(s, u)'
        PROVE  Owns(s, u) \/ (s = r /\ u = o)
    <3>1. CASE payment'[u].ref = s \/ payment'[u].tx = s \/ charge'[s].order = u
      BY <3>1 DEF Owns
    <3>2. CASE \E q \in Procs : proc'[q].r = s /\ proc'[q].o = u
      BY <3>2 DEF Moved, Owns
    <3>3. QED
      BY <2>1, <3>1, <3>2 DEF Owns
  <2>2. QED
    BY <1>1, <2>1 DEF OneOwner, Referenced
<1>4. Mints'
  <2>1. ASSUME NEW q \in Procs, NEW s \in Procs, Minting(q)', Minting(s)', q # s
        PROVE  proc'[q].r # proc'[s].r
    BY <1>2, <2>1 DEF Moved, Referenced, Mints, Minting
  <2>2. ASSUME NEW q \in Procs
        PROVE  /\ At(q, "reinit_write")' =>
                     /\ charge'[proc'[q].r].st = "created"
                     /\ charge'[proc'[q].r].order = proc'[q].o
               /\ Minting(q)' /\ ~At(q, "reinit_write")' => charge'[proc'[q].r].st = "none"
    BY <1>2 DEF Moved, Referenced, Mints, Minting, At
  <2>3. QED
    BY <2>1, <2>2 DEF Mints
<1>5. Charges'
  BY DEF Referenced, Charges, Taken, Moved, MintingPC, VerifiedPC
<1>6. QED
  BY <1>3, <1>4, <1>5 DEF Referenced

(* The two handlers that start with one.                                   *)
LEMMA InitializeReadReferenced ==
    ASSUME Sane, Sane', Referenced, NEW p \in Requests, NEW o \in Orders,
           InitializeRead(p, o)
    PROVE  Referenced'
<1>1. PICK r \in FreshRefs : proc' = [proc EXCEPT ![p] = [Idle EXCEPT
             !.pc = "reinit_gateway", !.o = o, !.r = r, !.flag = payment[o].st # "NONE"]]
  BY DEF InitializeRead
<1>2. p \in Procs /\ Moved(p)
      /\ proc'[p].pc = "reinit_gateway" /\ proc'[p].r = r /\ proc'[p].o = o
  BY <1>1, Kinds, Parts DEF Sane, Moved, Idle
<1>3. "reinit_gateway" \in MintingPC \ {"reinit_write"}
  BY DEF MintingPC
<1>4. QED
  BY <1>2, <1>3, MintReferenced DEF InitializeRead, gateway

(* initPayment takes a fresh reference.                                    *)
LEMMA InitPaymentReferenced ==
    ASSUME Sane, Sane', Referenced, NEW p \in Requests, NEW o \in Orders, InitPayment(p, o)
    PROVE  Referenced'
<1>1. PICK r \in FreshRefs : Start(p, "init_payment", o, r)
  BY DEF InitPayment
<1>2. p \in Procs /\ Moved(p)
      /\ proc'[p].pc = "init_payment" /\ proc'[p].r = r /\ proc'[p].o = o
  BY <1>1, Kinds, StartMoves
<1>3. "init_payment" \in MintingPC \ {"reinit_write"}
  BY DEF MintingPC
<1>4. QED
  BY <1>2, <1>3, MintReferenced DEF InitPayment, gateway

(* The reference and the order of a handler that opens a transaction.      *)
LEMMA MintingInHand ==
    ASSUME Sane, Referenced, NEW p \in Requests, Minting(p)
    PROVE  /\ p \in Procs /\ p \notin FulfilWorkers
           /\ proc[p].r \in Refs /\ proc[p].o \in Orders /\ Owns(proc[p].r, proc[p].o)
           /\ ~Taken(proc[p].r)
           /\ \A q \in Procs : q # p /\ Minting(q) => proc[q].r # proc[p].r
           /\ \A q \in Procs : proc[q].pc \in VerifiedPC => proc[q].r # proc[p].r
           /\ \A o \in Orders : payment[o].tx # proc[p].r
<1>1. p \in Procs /\ p \notin FulfilWorkers /\ proc[p].r \in Refs /\ proc[p].o \in Orders
  BY PortalInHand DEF Minting
<1>2. ~Taken(proc[p].r)
  BY <1>1 DEF Referenced, Mints, Taken, Ever
<1>3. \A q \in Procs : q # p /\ Minting(q) => proc[q].r # proc[p].r
  BY <1>1 DEF Referenced, Mints
<1>4. /\ \A q \in Procs : proc[q].pc \in VerifiedPC => proc[q].r # proc[p].r
      /\ \A o \in Orders : payment[o].tx # proc[p].r
  BY <1>1, <1>2, NoneIsNone DEF Referenced, Charges
<1>5. QED
  BY <1>1, <1>2, <1>3, <1>4 DEF Owns

(* The transaction of a handler's own reference is opened.                 *)
LEMMA OpenedReferenced ==
    ASSUME Sane, Sane', Referenced, NEW p \in Requests, Minting(p), Moved(p),
           NEW c \in Charge, charge' = [charge EXCEPT ![proc[p].r] = c],
           c.order = proc[p].o, c.st \in {"created", "open"},
           \A o \in Orders : \/ payment'[o].ref = payment[o].ref
                             \/ payment'[o].ref = proc[p].r /\ o = proc[p].o,
           \A o \in Orders : payment'[o].tx = payment[o].tx,
           \/ proc'[p].pc = "idle" /\ proc'[p].r = None
           \/ /\ proc'[p].pc = "reinit_write" /\ c.st = "created"
              /\ proc'[p].r = proc[p].r /\ proc'[p].o = proc[p].o
    PROVE  Referenced'
<1> DEFINE r == proc[p].r
<1>1. /\ p \in Procs /\ r \in Refs /\ proc[p].o \in Orders /\ Owns(r, proc[p].o)
      /\ \A q \in Procs : q # p /\ Minting(q) => proc[q].r # r
      /\ \A q \in Procs : proc[q].pc \in VerifiedPC => proc[q].r # r
      /\ \A o \in Orders : payment[o].tx # r
  BY MintingInHand
<1>2. /\ charge'[r] = c /\ \A s \in Refs : s # r => charge'[s] = charge[s]
  BY <1>1, Parts DEF Sane, RowsOK
<1> HIDE DEF r
<1>3. OneOwner'
  <2>1. proc'[p].r \in Refs /\ proc'[p].o \in Orders => Owns(proc'[p].r, proc'[p].o)
    BY <1>1, NoneIsNone DEF r
  <2>2. /\ \A o \in Orders : payment'[o].ref \in Refs => Owns(payment'[o].ref, o)
        /\ \A o \in Orders : payment'[o].tx \in Refs => Owns(payment'[o].tx, o)
    BY <1>1 DEF Owns, r
  <2>3. \A s \in Refs : charge'[s].order \in Orders => Owns(s, charge'[s].order)
    BY <1>1, <1>2 DEF Owns, r
  <2>4. QED
    BY <1>1, <2>1, <2>2, <2>3, OwnersKept DEF Referenced
<1>4. Mints'
  <2>1. \A q \in Procs : q # p => (Minting(q)' <=> Minting(q)) /\ proc'[q] = proc[q]
    BY DEF Moved, Minting
  <2>2. Minting(p)' => proc'[p].r = r /\ At(p, "reinit_write")'
    BY DEF Minting, MintingPC, At, r
  <2>3. \A q, s \in Procs : Minting(q)' /\ Minting(s)' /\ q # s => proc'[q].r # proc'[s].r
    BY <1>1, <2>1, <2>2 DEF Referenced, Mints
  <2>4. ASSUME NEW q \in Procs, q # p, Minting(q)
        PROVE  /\ charge'[proc'[q].r] = charge[proc[q].r]
               /\ At(q, "reinit_write")' <=> At(q, "reinit_write")
    <3>1. proc[q].r \in Refs /\ proc[q].r # r
      BY <1>1, <2>4, InHand, MintingPlaces DEF Minting
    <3>2. QED
      BY <1>2, <2>1, <2>4, <3>1 DEF At
  <2>5. ASSUME NEW q \in Procs
        PROVE  /\ At(q, "reinit_write")' =>
                     /\ charge'[proc'[q].r].st = "created"
                     /\ charge'[proc'[q].r].order = proc'[q].o
               /\ Minting(q)' /\ ~At(q, "reinit_write")' => charge'[proc'[q].r].st = "none"
    <3>1. CASE q # p
      BY <2>1, <2>4, <3>1 DEF Referenced, Mints, Minting, At, MintingPC
    <3>2. CASE q = p
      BY <1>1, <1>2, <2>2, <3>2 DEF At, r
    <3>3. QED
      BY <3>1, <3>2
  <2>6. QED
    BY <2>3, <2>5 DEF Mints
<1>5. Charges'
  <2>1. \A s \in Refs : charge'[s].st = "none" <=> charge'[s].order = None
    BY <1>1, <1>2, NoneIsNone DEF Referenced, Charges
  <2>2. \A o \in Orders : payment'[o].tx # None => Taken(payment[o].tx)'
    <3>1. \A o \in Orders : payment[o].tx \in Refs \cup {None}
      BY Parts DEF Sane, RowsOK, PaymentRow
    <3>2. QED
      BY <1>1, <1>2, <3>1 DEF Referenced, Charges, Taken
  <2>3. ASSUME NEW q \in Procs, proc'[q].pc \in VerifiedPC PROVE Taken(proc[q].r)'
    <3>1. q # p
      BY <2>3 DEF VerifiedPC
    <3>2. proc'[q] = proc[q] /\ proc[q].r \in Refs /\ proc[q].r # r
      BY <1>1, <2>3, <3>1, InHand, FulfilPlaces, PortalPlaces
         DEF Moved, VerifiedPC, FulfilPC, VerifyPC
    <3>3. QED
      BY <1>2, <2>3, <3>2 DEF Referenced, Charges, Taken
  <2>4. QED
    BY <2>1, <2>2, <2>3 DEF Charges
<1>6. QED
  BY <1>3, <1>4, <1>5 DEF Referenced

(* The three steps that open it.                                           *)
LEMMA InitializeGatewayReferenced ==
    ASSUME Sane, Sane', Referenced, NEW p \in Requests, InitializeGateway(p)
    PROVE  Referenced'
<1>1. Minting(p) /\ p \in Procs
  BY Kinds DEF InitializeGateway, At, Minting, MintingPC
<1>2. proc[p].o \in Orders
  BY <1>1, MintingInHand
<1>3. PICK c \in Charge : c = [st |-> "created", order |-> proc[p].o]
  BY <1>2 DEF Charge, ChargeState
<1>4. /\ Moved(p) /\ proc'[p].pc = "reinit_write"
      /\ proc'[p].r = proc[p].r /\ proc'[p].o = proc[p].o
  BY <1>1, GotoMoves DEF InitializeGateway
<1>5. c.st = "created" /\ c.order = proc[p].o /\ charge' = [charge EXCEPT ![proc[p].r] = c]
  BY <1>3 DEF InitializeGateway
<1>6. QED
  BY <1>1, <1>4, <1>5, OpenedReferenced DEF InitializeGateway

(* initPayment opens the transaction.                                      *)
LEMMA InitPaymentGatewayReferenced ==
    ASSUME Sane, Sane', Referenced, NEW p \in Requests, InitPaymentGateway(p)
    PROVE  Referenced'
<1>1. Minting(p) /\ p \in Procs
  BY Kinds DEF InitPaymentGateway, At, Minting, MintingPC
<1>2. proc[p].o \in Orders
  BY <1>1, MintingInHand
<1>3. PICK c \in Charge : c = [st |-> "open", order |-> proc[p].o]
  BY <1>2 DEF Charge, ChargeState
<1>4. Moved(p) /\ proc'[p].pc = "idle" /\ proc'[p].r = None
  BY <1>1, IdleMoves DEF InitPaymentGateway, Return
<1>5. c.st = "open" /\ c.order = proc[p].o /\ charge' = [charge EXCEPT ![proc[p].r] = c]
  BY <1>3 DEF InitPaymentGateway
<1>6. QED
  BY <1>1, <1>4, <1>5, OpenedReferenced DEF InitPaymentGateway

(* initialize writes the new reference to the row.                         *)
LEMMA InitializeWriteReferenced ==
    ASSUME Sane, Sane', Referenced, NEW p \in Requests, InitializeWrite(p)
    PROVE  Referenced'
<1>1. Minting(p) /\ p \in Procs /\ At(p, "reinit_write")
  BY Kinds DEF InitializeWrite, At, Minting, MintingPC
<1>2. /\ Moved(p) /\ proc'[p].pc = "idle" /\ proc'[p].r = None
      /\ proc' = [proc EXCEPT ![p] = Idle]
  BY <1>1, IdleMoves DEF InitializeWrite, Return
<1>3. CASE charge' = charge /\ payment' = payment
  BY <1>1, <1>2, <1>3, IdleReferenced
<1>4. CASE ~(charge' = charge /\ payment' = payment)
  <2>1. /\ proc[p].r \in Refs /\ proc[p].o \in Orders
        /\ charge[proc[p].r].order = proc[p].o
        /\ charge[proc[p].r] \in Charge /\ payment \in [Orders -> PaymentRow]
    BY <1>1, MintingInHand, Parts DEF Referenced, Mints, Sane, RowsOK
  <2>2. PICK c : c = [charge[proc[p].r] EXCEPT !.st = "open"]
    OBVIOUS
  <2>3. c \in Charge /\ c.st = "open" /\ c.order = proc[p].o
    BY <2>1, <2>2 DEF Charge, ChargeState
  <2>4. charge' = [charge EXCEPT ![proc[p].r] = c]
    BY <1>4, <2>2 DEF InitializeWrite
  <2>5. \A o \in Orders : /\ payment'[o].tx = payment[o].tx
                          /\ \/ payment'[o].ref = payment[o].ref
                             \/ payment'[o].ref = proc[p].r /\ o = proc[p].o
    BY <1>4, <2>1 DEF InitializeWrite, PaymentRow
  <2>6. QED
    BY <1>1, <1>2, <2>3, <2>4, <2>5, OpenedReferenced
<1>5. QED
  BY <1>3, <1>4

(* initPayment writes the payment's row.                                   *)
LEMMA InitPaymentRowReferenced ==
    ASSUME Sane, Sane', Referenced, NEW p \in Requests, InitPaymentRow(p)
    PROVE  Referenced'
<1>1. Minting(p) /\ p \in Procs /\ At(p, "init_payment")
  BY Kinds DEF InitPaymentRow, At, Minting, MintingPC
<1>2. proc[p].r \in Refs /\ proc[p].o \in Orders /\ Owns(proc[p].r, proc[p].o)
  BY <1>1, MintingInHand
<1>3. CASE payment[proc[p].o].st # "NONE"
  BY <1>1, <1>3, IdleReferenced DEF InitPaymentRow, gateway
<1>4. CASE payment[proc[p].o].st = "NONE"
  <2>1. /\ Moved(p) /\ proc'[p].pc = "init_gateway" /\ charge' = charge
        /\ proc'[p].r = proc[p].r /\ proc'[p].o = proc[p].o
    BY <1>1, <1>4, GotoMoves DEF InitPaymentRow, gateway
  <2>2. payment[proc[p].o].tx = None
    BY <1>2, <1>4 DEF Sane, PaymentRows, NoPayment
  <2>3. \A o \in Orders : /\ payment'[o].tx = payment[o].tx
                          /\ \/ payment'[o].ref = payment[o].ref
                             \/ payment'[o].ref = proc[p].r /\ o = proc[p].o
    <3>1. PICK row : row = [st |-> "PENDING", ref |-> proc[p].r, tx |-> None, manual |-> FALSE]
      OBVIOUS
    <3>2. payment' = [payment EXCEPT ![proc[p].o] = row] /\ row.ref = proc[p].r /\ row.tx = None
      BY <1>4, <3>1 DEF InitPaymentRow
    <3>3. QED
      BY <1>2, <2>2, <3>2, Parts DEF Sane, RowsOK
  <2>4. OneOwner'
    <3>1. /\ \A o \in Orders : payment'[o].ref \in Refs => Owns(payment'[o].ref, o)
          /\ \A o \in Orders : payment'[o].tx \in Refs => Owns(payment'[o].tx, o)
      BY <1>2, <2>3 DEF Owns
    <3>2. \A r \in Refs : charge'[r].order \in Orders => Owns(r, charge'[r].order)
      BY <2>1 DEF Owns
    <3>3. QED
      BY <1>1, <1>2, <2>1, <3>1, <3>2, OwnersKept DEF Referenced
  <2>5. Mints'
    BY <1>1, <2>1 DEF Referenced, Mints, Minting, At, Moved, MintingPC
  <2>6. Charges'
    BY <2>1, <2>3 DEF Referenced, Charges, Taken, Moved, VerifiedPC
  <2>7. QED
    BY <2>4, <2>5, <2>6 DEF Referenced
<1>5. QED
  BY <1>3, <1>4

------------------------------------------------------------------------------
(* The gateway.                                                            *)

(* A transaction changes its state and stays its order's.                  *)
LEMMA TurnedReferenced ==
    ASSUME Sane, Referenced, NEW r \in Refs, NEW st \in Ever,
           charge' = [charge EXCEPT ![r].st = st], charge[r].st \in {"open"} \cup Ever,
           UNCHANGED <<payment, proc>>
    PROVE  Referenced'
<1>1. /\ \A s \in Refs : charge'[s].order = charge[s].order
      /\ charge'[r].st = st /\ \A s \in Refs : s # r => charge'[s] = charge[s]
  BY Parts DEF Sane, RowsOK, Charge
<1>2. OneOwner'
  BY <1>1 DEF Referenced, OneOwner, Owns
<1>3. Mints'
  <2>1. \A p \in Procs : Minting(p) => proc[p].r \in Refs /\ proc[p].r # r
    BY InHand, MintingPlaces DEF Referenced, Mints, Minting, Ever, At
  <2>2. QED
    BY <1>1, <2>1 DEF Referenced, Mints, Minting, At, MintingPC
<1>4. Charges'
  <2>1. \A s \in Refs : Taken(s) => Taken(s)'
    BY <1>1 DEF Taken
  <2>2. \A o \in Orders : payment[o].tx \in Refs \cup {None}
    BY Parts DEF Sane, RowsOK, PaymentRow
  <2>3. \A p \in Procs : proc[p].pc \in VerifiedPC => proc[p].r \in Refs
    BY InHand, FulfilPlaces, PortalPlaces DEF VerifiedPC, FulfilPC, VerifyPC
  <2>4. \A s \in Refs : charge'[s].st = "none" <=> charge'[s].order = None
    BY <1>1 DEF Referenced, Charges, Ever
  <2>5. QED
    BY <2>1, <2>2, <2>3, <2>4 DEF Referenced, Charges
<1>5. QED
  BY <1>2, <1>3, <1>4 DEF Referenced

(* The gateway reports, and takes back.                                    *)
LEMMA GatewaySuccessReferenced ==
    ASSUME Sane, Referenced, NEW r \in Refs, GatewaySuccess(r)
    PROVE  Referenced'
BY TurnedReferenced DEF GatewaySuccess, Ever

(* The gateway reports a refund or a dispute.                              *)
LEMMA GatewayReversalReferenced ==
    ASSUME Sane, Referenced, NEW r \in Refs, GatewayReversal(r)
    PROVE  Referenced'
<1>1. CASE charge' = charge
  BY <1>1, StillReferenced DEF GatewayReversal
<1>2. CASE charge' # charge
  BY <1>2, TurnedReferenced DEF GatewayReversal, Ever, Succeeded
<1>3. QED
  BY <1>1, <1>2

------------------------------------------------------------------------------
(* The other handlers open nothing.                                        *)

(* Where no transaction is opened and no answer of the gateway held.       *)
LEMMA ElsewherePlaces ==
    \A pc \in HookPC \cup ApprovePC \cup OrderPC \cup VoucherPC
                 \cup {"idle", "enqueue", "redeem_enqueue", "ful_verify", "land_verify",
                       "ret_verify", "adm_verify"} :
        pc \notin MintingPC /\ pc \notin VerifiedPC
BY DEF HookPC, ApprovePC, OrderPC, VoucherPC, MintingPC, VerifiedPC

(* Where a success is held a reference is, and it is not being opened.     *)
LEMMA VerifiedPlaces ==
    \A pc \in VerifiedPC : pc \notin MintingPC /\ pc \in RefPC /\ pc # "idle"
BY DEF VerifiedPC, MintingPC, RefPC, FulfilPC, VerifyPC

(* A successful transaction is one the customer paid.                      *)
LEMMA SucceededIsTaken == ASSUME NEW r, Succeeded(r) PROVE Taken(r)
BY DEF Succeeded, Taken, Ever

(* fulfill(): the answer of the gateway is of the reference in hand.       *)
LEMMA TakeFulfilJobReferenced ==
    ASSUME Sane, Sane', Referenced, NEW w \in FulfilWorkers, NEW r \in Refs,
           TakeFulfilJob(w, r)
    PROVE  Referenced'
BY Kinds, NoneIsNone, ElsewherePlaces, StartReferenced DEF TakeFulfilJob, gateway

(* orders.status starts fulfill in line.                                   *)
LEMMA PollStatusReferenced ==
    ASSUME Sane, Sane', Referenced, NEW p \in Requests, NEW o \in Orders, PollStatus(p, o)
    PROVE  Referenced'
BY Kinds, NoneIsNone, ElsewherePlaces, StartReferenced DEF PollStatus, gateway

(* fulfill asks the gateway about the reference.                           *)
LEMMA FulfilVerifyReferenced ==
    ASSUME Sane, Sane', Referenced, NEW p \in Requests \cup FulfilWorkers, FulfilVerify(p)
    PROVE  Referenced'
<1>1. p \in Procs /\ charge' = charge /\ payment' = payment
  BY Kinds DEF FulfilVerify, gateway
<1>2. CASE Succeeded(proc[p].r)
  <2>1. /\ Moved(p) /\ proc'[p].pc = "ful_load"
        /\ proc'[p].r = proc[p].r /\ proc'[p].o = proc[p].o
    BY <1>1, <1>2, Parts DEF FulfilVerify, Sane, Moved, Handler
  <2>2. "ful_load" \notin MintingPC /\ Owns(proc[p].r, proc[p].o) /\ Taken(proc[p].r)
    BY <1>1, <1>2, SucceededIsTaken DEF MintingPC, Owns
  <2>3. QED
    BY <1>1, <2>1, <2>2, MovedReferenced
<1>3. CASE ~Succeeded(proc[p].r)
  BY <1>1, <1>3, IdleReferenced DEF FulfilVerify, Return
<1>4. QED
  BY <1>2, <1>3

(* fulfill loads the payment of the reference.                             *)
LEMMA FulfilLoadReferenced ==
    ASSUME Sane, Sane', Referenced, NEW p \in Requests \cup FulfilWorkers, FulfilLoad(p)
    PROVE  Referenced'
<1>1. p \in Procs /\ charge' = charge /\ payment' = payment /\ Taken(proc[p].r)
  BY Kinds DEF FulfilLoad, gateway, Referenced, Charges, At, VerifiedPC
<1>2. CASE proc' = [proc EXCEPT ![p] = Idle]
  BY <1>1, <1>2, IdleReferenced
<1>3. CASE proc' # [proc EXCEPT ![p] = Idle]
  <2>1. PICK o \in PaymentOrders(proc[p].r) :
            proc' = [proc EXCEPT
                    ![p].o = o,
                    ![p].pc = IF proc[p].flag THEN "ful_underpaid" ELSE "ful_read"]
    BY <1>3 DEF FulfilLoad, Return
  <2>2. /\ Moved(p) /\ proc'[p].pc \in {"ful_underpaid", "ful_read"}
        /\ proc'[p].r = proc[p].r /\ proc'[p].o = o
    BY <1>1, <2>1, Parts DEF Sane, Moved, Handler
  <2>3. Owns(proc[p].r, o)
    BY DEF PaymentOrders, Owns
  <2>4. proc'[p].pc \notin MintingPC
    BY <2>2 DEF MintingPC
  <2>5. QED
    BY <1>1, <2>2, <2>3, <2>4, MovedReferenced
<1>4. QED
  BY <1>2, <1>3

(* fulfill marks an underpaid order for a refund.                          *)
LEMMA FulfilUnderpaidReferenced ==
    ASSUME Sane, Sane', Referenced, NEW p \in Requests \cup FulfilWorkers, FulfilUnderpaid(p)
    PROVE  Referenced'
BY Kinds, IdleReferenced DEF FulfilUnderpaid, Return, gateway

(* The transaction of fulfill reads its row again.                         *)
LEMMA FulfilReadReferenced ==
    ASSUME Sane, Sane', Referenced, NEW p \in Requests \cup FulfilWorkers, FulfilRead(p)
    PROVE  Referenced'
<1>1. p \in Procs /\ charge' = charge /\ payment' = payment /\ Taken(proc[p].r)
  BY Kinds DEF FulfilRead, gateway, Referenced, Charges, At, VerifiedPC
<1>2. CASE Return(p)
  BY <1>1, <1>2, IdleReferenced DEF Return
<1>3. CASE Goto(p, "ful_commit")
  BY <1>1, <1>3, GotoReferenced DEF MintingPC
<1>4. QED
  BY <1>2, <1>3 DEF FulfilRead

(* A handler settles the payment with the reference it holds.              *)
LEMMA SettledReferenced ==
    ASSUME Sane, Sane', Referenced, NEW p \in Procs, proc[p].pc \in VerifiedPC,
           proc[p].o \in Orders,
           \/ payment' = [payment EXCEPT ![proc[p].o].st = "FULFILLED",
                                         ![proc[p].o].tx = proc[p].r]
           \/ payment' = [payment EXCEPT ![proc[p].o].st = "FULFILLED"],
           Goto(p, "enqueue"), charge' = charge
    PROVE  Referenced'
<1>1. Taken(proc[p].r)
  BY DEF Referenced, Charges
<1>2. \A o \in Orders : /\ payment'[o].ref = payment[o].ref
                        /\ \/ payment'[o].tx = payment[o].tx
                           \/ payment'[o].tx = proc[p].r /\ o = proc[p].o
  BY Parts DEF Sane, RowsOK, PaymentRow
<1>3. /\ Moved(p) /\ proc'[p].pc = "enqueue"
      /\ proc'[p].r = proc[p].r /\ proc'[p].o = proc[p].o
  BY GotoMoves
<1>4. Owns(proc[p].r, proc[p].o) /\ "enqueue" \notin MintingPC /\ "enqueue" \notin VerifiedPC
  BY ElsewherePlaces DEF Owns
<1>5. QED
  BY <1>1, <1>2, <1>3, <1>4, MovedReferenced

(* The transaction of fulfill writes payment, voucher and order.           *)
LEMMA FulfilCommitReferenced ==
    ASSUME Sane, Sane', Referenced, NEW p \in Requests \cup FulfilWorkers, FulfilCommit(p)
    PROVE  Referenced'
<1>1. p \in Procs /\ proc[p].o \in Orders /\ proc[p].pc \in VerifiedPC
  BY Kinds, InHand, FulfilPlaces DEF FulfilCommit, At, VerifiedPC
<1>2. QED
  BY <1>1, SettledReferenced DEF FulfilCommit, gateway

(* The hand-off to the provisioning queue.                                 *)
LEMMA EnqueueProvisioningReferenced ==
    ASSUME Sane, Sane', Referenced, NEW p \in Requests \cup FulfilWorkers,
           EnqueueProvisioning(p)
    PROVE  Referenced'
BY Kinds, IdleReferenced DEF EnqueueProvisioning, Return, gateway

(* One of fulfill's steps.                                                 *)
LEMMA FulfilStepReferenced ==
    ASSUME Sane, Sane', Referenced, NEW p \in Requests \cup FulfilWorkers, FulfilStep(p)
    PROVE  Referenced'
BY FulfilVerifyReferenced, FulfilLoadReferenced, FulfilUnderpaidReferenced,
   FulfilReadReferenced, FulfilCommitReferenced, EnqueueProvisioningReferenced
   DEF FulfilStep

(* The webhook.                                                            *)
LEMMA DeliverReferenced ==
    ASSUME Sane, Sane', Referenced, NEW p \in Requests, NEW e \in sent, Deliver(p, e)
    PROVE  Referenced'
<1>1. p \in Procs /\ Moved(p) /\ proc'[p].pc = "hook_find" /\ proc'[p].o = None
  BY Kinds, Parts DEF Deliver, Sane, Moved, Idle
<1>2. "hook_find" \notin MintingPC /\ "hook_find" \notin VerifiedPC
  BY DEF MintingPC, VerifiedPC
<1>3. QED
  BY <1>1, <1>2, NoneIsNone, MovedReferenced DEF Deliver, gateway

(* The webhook goes on, or answers.                                        *)
LEMMA HookGoesReferenced ==
    ASSUME Sane, Sane', Referenced, NEW p \in Procs,
           \/ \E pc \in HookPC : Goto(p, pc)
           \/ proc' = [proc EXCEPT ![p] = Idle],
           UNCHANGED <<payment, charge>>
    PROVE  Referenced'
BY GotoReferenced, IdleReferenced, ElsewherePlaces

(* The webhook carries a reference and no order, until the reversal finds  *)
(* it.                                                                     *)
LEMMA HookFindReferenced ==
    ASSUME Sane, Sane', Referenced, NEW p \in Requests, HookFind(p)
    PROVE  Referenced'
BY Kinds, HookGoesReferenced DEF HookFind, Acknowledge, HookPC

(* The webhook records its event.                                          *)
LEMMA HookRecordReferenced ==
    ASSUME Sane, Sane', Referenced, NEW p \in Requests, HookRecord(p)
    PROVE  Referenced'
<1>1. \/ \E pc \in {"hook_enqueue", "rev_find"} : Goto(p, pc)
      \/ proc' = [proc EXCEPT ![p] = Idle]
  BY DEF HookRecord
<1>2. QED
  BY <1>1, Kinds, HookGoesReferenced DEF HookRecord, HookPC, gateway

(* The webhook looks at the payment of a duplicate.                        *)
LEMMA HookRecheckReferenced ==
    ASSUME Sane, Sane', Referenced, NEW p \in Requests, HookRecheck(p)
    PROVE  Referenced'
BY Kinds, HookGoesReferenced DEF HookRecheck, Acknowledge, HookPC

(* The webhook queues the charge.                                          *)
LEMMA HookEnqueueReferenced ==
    ASSUME Sane, Sane', Referenced, NEW p \in Requests, HookEnqueue(p)
    PROVE  Referenced'
BY Kinds, HookGoesReferenced DEF HookEnqueue, Acknowledge

(* A reversal looks for the payment.                                       *)
LEMMA ReversalFindReferenced ==
    ASSUME Sane, Sane', Referenced, NEW p \in Requests, ReversalFind(p)
    PROVE  Referenced'
<1>1. p \in Procs /\ charge' = charge /\ payment' = payment
  BY Kinds DEF ReversalFind
<1>2. CASE proc' = [proc EXCEPT ![p] = Idle]
  BY <1>1, <1>2, IdleReferenced
<1>3. CASE proc' # [proc EXCEPT ![p] = Idle]
  <2>1. PICK o \in Orders :
            /\ payment[o].ref = proc[p].r \/ payment[o].tx = proc[p].r
            /\ proc' = [proc EXCEPT ![p].pc = "rev_revoke", ![p].o = o,
                    ![p].todo = {v \in VouchersOf(o) : voucher[v].st = "ACTIVE"}]
    BY <1>3 DEF ReversalFind, Acknowledge
  <2>2. /\ Moved(p) /\ proc'[p].pc = "rev_revoke"
        /\ proc'[p].r = proc[p].r /\ proc'[p].o = o
    BY <1>1, <2>1, Parts DEF Sane, Moved, Handler
  <2>3. Owns(proc[p].r, o)
    BY <2>1 DEF Owns
  <2>4. "rev_revoke" \notin MintingPC /\ "rev_revoke" \notin VerifiedPC
    BY DEF MintingPC, VerifiedPC
  <2>5. QED
    BY <1>1, <2>2, <2>3, <2>4, MovedReferenced
<1>4. QED
  BY <1>2, <1>3

(* A reversal revokes a voucher of its snapshot.                           *)
LEMMA ReversalRevokeReferenced ==
    ASSUME Sane, Sane', Referenced, NEW p \in Requests, ReversalRevoke(p)
    PROVE  Referenced'
<1>1. PICK v \in proc[p].todo : proc' = [proc EXCEPT ![p].todo = @ \ {v}]
  BY DEF ReversalRevoke
<1>2. /\ p \in Procs /\ Moved(p) /\ proc'[p].pc = "rev_revoke"
      /\ proc'[p].r = proc[p].r /\ proc'[p].o = proc[p].o
  BY <1>1, Kinds, Parts DEF ReversalRevoke, At, Sane, Moved, Handler
<1>3. /\ Owns(proc[p].r, proc[p].o)
      /\ "rev_revoke" \notin MintingPC /\ "rev_revoke" \notin VerifiedPC
  BY <1>2 DEF Owns, MintingPC, VerifiedPC
<1>4. QED
  BY <1>2, <1>3, MovedReferenced DEF ReversalRevoke, gateway

(* A reversal marks the payment.                                           *)
LEMMA ReversalMarkReferenced ==
    ASSUME Sane, Sane', Referenced, NEW p \in Requests, ReversalMark(p)
    PROVE  Referenced'
<1>1. \A o \in Orders : payment'[o].ref = payment[o].ref /\ payment'[o].tx = payment[o].tx
  BY Parts DEF ReversalMark, Sane, RowsOK, PaymentRow
<1>2. QED
  BY <1>1, Kinds, IdleReferenced DEF ReversalMark, Acknowledge

(* One of the webhook's steps.                                             *)
LEMMA HookStepReferenced ==
    ASSUME Sane, Sane', Referenced, NEW p \in Requests, HookStep(p)
    PROVE  Referenced'
BY HookFindReferenced, HookRecordReferenced, HookRecheckReferenced, HookEnqueueReferenced,
   ReversalFindReferenced, ReversalRevokeReferenced, ReversalMarkReferenced DEF HookStep

(* The portal.                                                             *)
LEMMA StartPortalReferenced ==
    ASSUME Sane, Sane', Referenced, NEW p \in Requests, NEW o \in Orders,
           \/ Landing(p, o) \/ AdminVerify(p, o) \/ Retrieve(p, o)
           \/ Approve(p, o) \/ Reconcile(p, o)
    PROVE  Referenced'
<1>1. p \in Procs /\ Owns(payment[o].ref, o)
  BY Kinds DEF Owns
<1>2. CASE Landing(p, o) \/ AdminVerify(p, o)
  BY <1>1, <1>2, ElsewherePlaces, StartReferenced DEF Landing, AdminVerify, gateway
<1>3. CASE Retrieve(p, o) \/ Reconcile(p, o)
  BY <1>1, <1>3, NoneIsNone, ElsewherePlaces, StartReferenced DEF Retrieve, Reconcile, gateway
<1>4. CASE Approve(p, o)
  <2>1. "apr_prior" \notin MintingPC /\ "apr_prior" \notin VerifiedPC
    BY DEF MintingPC, VerifiedPC
  <2>2. QED
    BY <1>1, <1>4, <2>1, NoneIsNone, StillReferenced, StartReferenced DEF Approve, gateway
<1>5. QED
  BY <1>2, <1>3, <1>4

(* The portal: the answer is of the reference read from the order's own    *)
(* row.                                                                    *)
LEMMA VerifyAnswerReferenced ==
    ASSUME Sane, Sane', Referenced, NEW p \in Requests,
           LandingVerify(p) \/ AdminVerifyAnswer(p) \/ RetrieveVerify(p)
    PROVE  Referenced'
<1>1. p \in Procs /\ charge' = charge /\ payment' = payment
  BY Kinds DEF LandingVerify, AdminVerifyAnswer, RetrieveVerify, gateway
<1>2. CASE Taken(proc[p].r) /\ \E pc \in VerifiedPC : Goto(p, pc)
  BY <1>1, <1>2, VerifiedPlaces, GotoReferenced
<1>3. CASE Return(p)
  BY <1>1, <1>3, IdleReferenced DEF Return
<1>4. QED
  BY <1>2, <1>3 DEF LandingVerify, AdminVerifyAnswer, RetrieveVerify, Succeeded, Taken, Ever,
     VerifiedPC

(* The landing page, or verifyReference, settles the payment.              *)
LEMMA VerifiedCommitReferenced ==
    ASSUME Sane, Sane', Referenced, NEW p \in Requests,
           VerifiedCommit(p) \/ RetrieveCommit(p)
    PROVE  Referenced'
<1>1. p \in Procs /\ proc[p].o \in Orders /\ proc[p].pc \in VerifiedPC
  BY PortalInHand DEF VerifiedCommit, RetrieveCommit, At, VerifiedPC, VerifyPC
<1>2. QED
  BY <1>1, SettledReferenced DEF VerifiedCommit, RetrieveCommit, gateway

(* One of approveAccess's steps.                                           *)
LEMMA ApproveStepReferenced ==
    ASSUME Sane, Sane', Referenced, NEW p \in Requests,
           ApprovePrior(p) \/ ApprovePayment(p) \/ ApproveVoucher(p)
    PROVE  Referenced'
<1>1. p \in Procs /\ charge' = charge /\ proc[p].pc \in ApprovePC /\ proc[p].o \in Orders
  BY PortalInHand DEF ApprovePrior, ApprovePayment, ApproveVoucher, gateway, At, ApprovePC
<1>2. \A pc \in ApprovePC \cup {"enqueue"} : pc \notin MintingPC /\ pc \notin VerifiedPC
  BY ElsewherePlaces
<1>3. Owns(proc[p].r, proc[p].o)
  BY <1>1 DEF Owns
<1>4. CASE payment' = payment
  BY <1>1, <1>2, <1>4, IdleReferenced, GotoReferenced
     DEF ApprovePrior, ApprovePayment, ApproveVoucher, Return, ApprovePC
<1>5. CASE payment' # payment
  <2>1. Goto(p, "apr_voucher") /\ payment[proc[p].o].st = "NONE"
    BY <1>5 DEF ApprovePrior, ApprovePayment, ApproveVoucher
  <2>2. PICK row : /\ row = [st |-> "FULFILLED", ref |-> None, tx |-> None, manual |-> TRUE]
                   /\ payment' = [payment EXCEPT ![proc[p].o] = row]
    BY <1>5 DEF ApprovePrior, ApprovePayment, ApproveVoucher
  <2>3. payment[proc[p].o].ref = None /\ payment[proc[p].o].tx = None
    BY <1>1, <2>1 DEF Sane, PaymentRows, NoPayment
  <2>4. \A o \in Orders : payment'[o].ref = payment[o].ref /\ payment'[o].tx = payment[o].tx
    BY <1>1, <2>2, <2>3, Parts DEF Sane, RowsOK
  <2>5. /\ Moved(p) /\ proc'[p].pc = "apr_voucher"
        /\ proc'[p].r = proc[p].r /\ proc'[p].o = proc[p].o
    BY <1>1, <2>1, GotoMoves
  <2>6. "apr_voucher" \notin MintingPC /\ "apr_voucher" \notin VerifiedPC
    BY DEF MintingPC, VerifiedPC
  <2>7. QED
    BY <1>1, <1>3, <2>4, <2>5, <2>6, MovedReferenced
<1>6. QED
  BY <1>4, <1>5

(* A device redeems a voucher.                                             *)
LEMMA RedeemReferenced ==
    ASSUME Sane, Sane', Referenced, NEW p \in Requests,
           (\E v \in Vouchers : Redeem(p, v)) \/ RedeemEnqueue(p)
    PROVE  Referenced'
<1>1. CASE \E v \in Vouchers : Redeem(p, v)
  <2>1. /\ p \in Procs /\ Moved(p) /\ proc'[p].pc = "redeem_enqueue" /\ proc'[p].r = None
        /\ charge' = charge /\ payment' = payment
    BY <1>1, Kinds, Parts DEF Redeem, Sane, Moved, Idle, gateway
  <2>2. QED
    BY <2>1, NoneIsNone, ElsewherePlaces, MovedReferenced
<1>2. CASE RedeemEnqueue(p)
  BY <1>2, Kinds, IdleReferenced DEF RedeemEnqueue, Return, gateway
<1>3. QED
  BY <1>1, <1>2

(* One of the portal's steps.                                              *)
LEMMA PortalStepReferenced ==
    ASSUME Sane, Sane', Referenced, NEW p \in Requests, PortalStep(p)
    PROVE  Referenced'
BY InitPaymentRowReferenced, InitPaymentGatewayReferenced, VerifyAnswerReferenced,
   VerifiedCommitReferenced, ApproveStepReferenced, RedeemReferenced DEF PortalStep

(* Provisioning.                                                           *)
LEMMA ProvisionReferenced ==
    ASSUME Sane, Sane', Referenced, NEW w \in ProvisionWorkers, ProvisionWorker(w)
    PROVE  Referenced'
<1>1. w \in Procs /\ charge' = charge /\ payment' = payment
  BY Kinds DEF ProvisionWorker, TakeOrderJob, TakeVoucherJob, ProvisionStep,
     ProvisionVoucher, ProvisionMint, ProvisionPush, ProvisionSession, ProvisionCommit,
     VoucherPush, VoucherSession, VoucherCommit, gateway
<1>2. CASE proc' = [proc EXCEPT ![w] = Idle]
  BY <1>1, <1>2, IdleReferenced
<1>3. CASE \E pc \in OrderPC \cup VoucherPC : Goto(w, pc)
  BY <1>1, <1>3, ElsewherePlaces, GotoReferenced
<1>4. CASE \E o \in Orders : TakeOrderJob(w, o)
  BY <1>1, <1>4, NoneIsNone, ElsewherePlaces, StartReferenced DEF TakeOrderJob, OrderPC
<1>5. CASE \E v \in Vouchers : TakeVoucherJob(w, v)
  <2>1. Moved(w) /\ proc'[w].pc \in VoucherPC /\ proc'[w].r = None
    BY <1>1, <1>5, Parts DEF TakeVoucherJob, Sane, Moved, Idle, VoucherPC
  <2>2. QED
    BY <1>1, <2>1, NoneIsNone, ElsewherePlaces, MovedReferenced
<1>6. CASE ProvisionVoucher(w) \/ ProvisionMint(w)
  <2>1. /\ Moved(w) /\ proc'[w].pc \in {"prov_mint", "prov_push"}
        /\ proc'[w].r = proc[w].r /\ proc'[w].o = proc[w].o
    BY <1>1, <1>6, Parts DEF ProvisionVoucher, ProvisionMint, Sane, Moved, Handler
  <2>2. proc'[w].pc \in OrderPC /\ Owns(proc[w].r, proc[w].o)
    BY <1>1, <2>1 DEF OrderPC, Owns
  <2>3. QED
    BY <1>1, <2>1, <2>2, ElsewherePlaces, MovedReferenced
<1>7. QED
  BY <1>2, <1>3, <1>4, <1>5, <1>6
     DEF ProvisionWorker, ProvisionStep, ProvisionPush, ProvisionSession, ProvisionCommit,
         VoucherPush, VoucherSession, VoucherCommit, Complete, OrderPC, VoucherPC

(* Faults.                                                                 *)
LEMMA HandlerThrowsReferenced ==
    ASSUME Sane, Sane', Referenced, NEW p \in Procs, HandlerThrows(p)
    PROVE  Referenced'
BY IdleReferenced DEF HandlerThrows, gateway

(* A crash takes every local along.                                        *)
LEMMA CrashReferenced ==
    ASSUME Sane, Sane', Referenced, Crash
    PROVE  Referenced'
<1>1. /\ charge' = charge /\ payment' = payment
      /\ \A p \in Procs : proc'[p].pc = "idle" /\ proc'[p].r = None
  BY IdleType DEF Crash, gateway
<1>2. OneOwner'
  BY <1>1, NoneIsNone DEF Referenced, OneOwner, Owns
<1>3. Mints' /\ Charges'
  BY <1>1, ElsewherePlaces DEF Referenced, Mints, Minting, At, Charges, Taken
<1>4. QED
  BY <1>2, <1>3 DEF Referenced

(* Every step.                                                             *)
LEMMA InitReferenced == Init => Referenced
<1> SUFFICES ASSUME Init PROVE Referenced
  OBVIOUS
<1>1. /\ \A p \in Procs : proc[p].pc = "idle" /\ proc[p].r = None
      /\ \A o \in Orders : payment[o].ref = None /\ payment[o].tx = None
      /\ \A r \in Refs : charge[r].st = "none" /\ charge[r].order = None
  BY IdleType DEF Init, NoPayment, NoCharge
<1>2. OneOwner
  BY <1>1, NoneIsNone DEF OneOwner, Owns
<1>3. Mints /\ Charges
  BY <1>1, ElsewherePlaces DEF Mints, Minting, At, Charges
<1>4. QED
  BY <1>2, <1>3 DEF Referenced

(* Together.                                                               *)
LEMMA StartRequestReferenced ==
    ASSUME Sane, Sane', Referenced, NEW p \in Requests, StartRequest(p)
    PROVE  Referenced'
BY InitPaymentReferenced, InitializeReadReferenced, PollStatusReferenced,
   StartPortalReferenced, RedeemReferenced, DeliverReferenced DEF StartRequest

(* A request goes on.                                                      *)
LEMMA RequestStepReferenced ==
    ASSUME Sane, Sane', Referenced, NEW p \in Requests, RequestStep(p)
    PROVE  Referenced'
BY FulfilStepReferenced, HookStepReferenced, PortalStepReferenced,
   InitializeGatewayReferenced, InitializeWriteReferenced DEF RequestStep, InitializeStep

(* Every step keeps the invariant of the references.                       *)
LEMMA StepReferenced ==
    ASSUME Sane, Sane', Referenced, [Next]_vars
    PROVE  Referenced'
<1>1. CASE UNCHANGED vars
  BY <1>1, StillReferenced DEF vars
<1>2. CASE \E o \in Orders : CreateOrder(o) \/ SubmitTransfer(o)
  BY <1>2, StillReferenced DEF CreateOrder, SubmitTransfer, gateway
<1>3. CASE Gateway
  BY <1>3, GatewaySuccessReferenced, GatewayReversalReferenced DEF Gateway
<1>4. CASE \E p \in Requests : StartRequest(p) \/ RequestStep(p)
  BY <1>4, StartRequestReferenced, RequestStepReferenced
<1>5. CASE \E w \in FulfilWorkers : FulfilWorker(w)
  BY <1>5, TakeFulfilJobReferenced, FulfilStepReferenced DEF FulfilWorker
<1>6. QED
  BY <1>1, <1>2, <1>3, <1>4, <1>5, ProvisionReferenced, HandlerThrowsReferenced,
     CrashReferenced DEF Next

=============================================================================
