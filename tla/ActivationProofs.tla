--------------------------- MODULE ActivationProofs ---------------------------
(***************************************************************************)
(* The safety of ActivationCodes, for any number of codes, accounts,       *)
(* applications and concurrent handlers.                                   *)
(***************************************************************************)
EXTENDS ActivationCodes, FiniteSetTheorems, TLAPS

(* The handlers that run at once.                                          *)
N == Cardinality(Requests)

Inv == TypeOK /\ Accounted

------------------------------------------------------------------------------
(* Counting.                                                               *)

(* There are handlers.                                                     *)
LEMMA SomeRequests == N \in Nat /\ N >= 1
<1>1. N \in Nat
  BY FS_CardinalityType, ActivationAssumption DEF N
<1>2. N # 0
  BY FS_EmptySet, ActivationAssumption DEF N
<1>3. QED
  BY <1>1, <1>2

(* The accounts that hold a code are finitely many.                        *)
LEMMA RedeemersFinite ==
    ASSUME NEW c \in Codes
    PROVE  IsFiniteSet(Redeemers(c)) /\ Cardinality(Redeemers(c)) \in Nat
<1>1. Redeemers(c) \in SUBSET Emails
  BY DEF Redeemers
<1>2. IsFiniteSet(Redeemers(c))
  BY <1>1, FS_Subset, ActivationAssumption
<1>3. QED
  BY <1>2, FS_CardinalityType

(* Any set of handlers is no larger than all of them.                      *)
LEMMA SomeOfRequests ==
    ASSUME NEW S \in SUBSET Requests
    PROVE  IsFiniteSet(S) /\ Cardinality(S) \in Nat /\ Cardinality(S) <= N
<1>1. IsFiniteSet(S) /\ Cardinality(S) <= N
  BY FS_Subset, ActivationAssumption DEF N
<1>2. QED
  BY <1>1, FS_CardinalityType

(* The handlers at work on a code, and those of them that have not counted.*)
LEMMA AtWork ==
    ASSUME NEW c \in Codes
    PROVE  /\ Cardinality(Counting(c)) \in Nat
           /\ Cardinality(Redeeming(c)) \in Nat
           /\ Cardinality(Counting(c)) <= Cardinality(Redeeming(c))
           /\ Cardinality(Redeeming(c)) <= N
<1>1. Counting(c) \in SUBSET Redeeming(c) /\ Redeeming(c) \in SUBSET Requests
  BY DEF Counting, Redeeming
<1>2. IsFiniteSet(Redeeming(c)) /\ Cardinality(Redeeming(c)) \in Nat
      /\ Cardinality(Redeeming(c)) <= N
  BY <1>1, SomeOfRequests
<1>3. IsFiniteSet(Counting(c)) /\ Cardinality(Counting(c)) <= Cardinality(Redeeming(c))
  BY <1>1, <1>2, FS_Subset
<1>4. QED
  BY <1>2, <1>3, FS_CardinalityType

(* How one handler's step changes who is at work.                          *)
LEMMA WorkChanges ==
    ASSUME NEW c \in Codes, NEW p \in Requests, NEW h \in Handler,
           proc \in [Requests -> Handler], proc' = [proc EXCEPT ![p] = h]
    PROVE  /\ Counting(c)' = IF h.c = c /\ h.pc = "red_write"
                             THEN Counting(c) \cup {p} ELSE Counting(c) \ {p}
           /\ Redeeming(c)' = IF h.c = c /\ h.pc \in {"red_ledger", "red_write"}
                              THEN Redeeming(c) \cup {p} ELSE Redeeming(c) \ {p}
BY DEF Counting, Redeeming

------------------------------------------------------------------------------
(* Types.  TypeOK alone is not inductive: a handler that writes the ledger *)
(* must have a code and an account in hand.                                *)

LEMMA IdleType == Idle \in Handler
BY DEF Idle, Handler, PC

(* A handler that moves on is a handler.                                   *)
LEMMA MovedType ==
    ASSUME NEW h \in Handler, NEW pc \in PC, NEW c \in Codes \cup {None}
    PROVE  [h EXCEPT !.pc = pc] \in Handler /\ [h EXCEPT !.pc = pc, !.c = c] \in Handler
BY DEF Handler

(* It keeps the account and the application it works for.                  *)
LEMMA MovedFields ==
    ASSUME NEW h \in Handler, NEW pc, NEW c
    PROVE  LET g == [h EXCEPT !.pc = pc, !.c = c] IN
           g.pc = pc /\ g.c = c /\ g.a = h.a /\ g.e = h.e
BY DEF Handler

LEMMA TypeInit == Init => TypeOK
<1> SUFFICES ASSUME Init PROVE TypeOK
  OBVIOUS
<1>1. NoCode \in CodeRow
  BY DEF NoCode, CodeRow, CodeStatus
<1>2. NoApplication \in ApplicationRow
  BY DEF NoApplication, ApplicationRow, ApplicationStatus
<1>3. QED
  BY <1>1, <1>2, IdleType, ActivationAssumption DEF Init, TypeOK

(* A new code is a code.                                                   *)
LEMMA NewCodeType ==
    ASSUME code \in [Codes -> CodeRow], NEW c \in Codes, NEW multi \in BOOLEAN,
           NEW quota \in Nat, NewCode(c, multi, quota)
    PROVE  code' \in [Codes -> CodeRow]
BY DEF NewCode, NoCode, CodeRow, CodeStatus

(* Every step of a state that is accounted for keeps the types.            *)
LEMMA TypeNext == Inv /\ [Next]_vars => TypeOK'
<1> SUFFICES ASSUME Inv, [Next]_vars PROVE TypeOK'
  OBVIOUS
<1> USE ActivationAssumption
<1> USE DEF Inv, TypeOK
<1>1. ASSUME NEW p \in Requests, NEW c \in Codes, NEW e \in Emails, Redeem(p, c, e)
      PROVE  TypeOK'
  <2>1. [Idle EXCEPT !.pc = "red_expire", !.c = c] \in Handler
    BY IdleType, MovedType DEF PC
  <2>2. \A b \in BOOLEAN :
            [Idle EXCEPT !.pc = "red_ledger", !.c = c, !.e = e, !.last = b] \in Handler
    BY DEF Idle, Handler, PC
  <2>3. (~code[c].multi \/ code[c].used + 1 >= code[c].quota) \in BOOLEAN
    OBVIOUS
  <2>4. QED
    BY <1>1, <2>1, <2>2, <2>3 DEF Redeem
<1>2. ASSUME NEW p \in Requests, RedeemExpire(p) PROVE TypeOK'
  BY <1>2, IdleType DEF RedeemExpire, Return, CodeRow, CodeStatus
<1>3. ASSUME NEW p \in Requests, RedeemLedger(p) PROVE TypeOK'
  <2>1. proc[p].c \in Codes /\ proc[p].e \in Emails
    BY <1>3 DEF RedeemLedger, At, Accounted, HandlerOK
  <2>2. [proc[p] EXCEPT !.pc = "red_write"] \in Handler
    BY MovedType DEF PC
  <2>3. QED
    BY <1>3, <2>1, <2>2, IdleType DEF RedeemLedger, Goto, Return
<1>4. ASSUME NEW p \in Requests, RedeemWrite(p) PROVE TypeOK'
  <2> DEFINE c == proc[p].c
  <2>1. c \in Codes
    BY <1>4 DEF RedeemWrite, At, Accounted, HandlerOK
  <2>2. \A st \in CodeStatus, n \in Nat : [code[c] EXCEPT !.st = st, !.used = n] \in CodeRow
    BY <2>1 DEF CodeRow
  <2>3. code[c].used + 1 \in Nat
    BY <2>1 DEF CodeRow
  <2>4. code' \in [Codes -> CodeRow]
    BY <1>4, <2>1, <2>2, <2>3 DEF RedeemWrite, CodeStatus
  <2>5. QED
    BY <1>4, <2>4, IdleType DEF RedeemWrite, Return
<1>5. ASSUME NEW p \in Requests, NEW a \in Applications, Approve(p, a) PROVE TypeOK'
  <2>1. application[a].email \in Emails \cup {None}
    BY DEF ApplicationRow
  <2>2. \A mode \in {"code_mint", "direct_mint"} :
            [Idle EXCEPT !.pc = mode, !.a = a, !.e = application[a].email] \in Handler
    BY <2>1 DEF Idle, Handler, PC
  <2>3. QED
    BY <1>5, <2>2 DEF Approve
<1>6. ASSUME NEW p \in Requests, CodeMint(p) PROVE TypeOK'
  <2>1. PICK c \in Codes, multi \in BOOLEAN :
            /\ NewCode(c, multi, 1)
            /\ proc' = [proc EXCEPT ![p].pc = "grant_write", ![p].c = c]
    BY <1>6 DEF CodeMint
  <2>2. [proc[p] EXCEPT !.pc = "grant_write", !.c = c] \in Handler
    BY MovedType DEF PC
  <2>3. code' \in [Codes -> CodeRow]
    BY <2>1, NewCodeType
  <2>4. QED
    BY <1>6, <2>1, <2>2, <2>3 DEF CodeMint
<1>7. ASSUME NEW p \in Requests, DirectMint(p) PROVE TypeOK'
  <2>1. PICK c \in Codes :
            /\ code' = [code EXCEPT ![c] = [NoCode EXCEPT
                          !.st = "USED", !.quota = 1, !.used = 1, !.direct = TRUE]]
            /\ proc' = [proc EXCEPT ![p].pc = "direct_ledger", ![p].c = c]
    BY <1>7 DEF DirectMint
  <2>2. [proc[p] EXCEPT !.pc = "direct_ledger", !.c = c] \in Handler
    BY MovedType DEF PC
  <2>3. code' \in [Codes -> CodeRow]
    BY <2>1 DEF NoCode, CodeRow, CodeStatus
  <2>4. QED
    BY <1>7, <2>1, <2>2, <2>3 DEF DirectMint
<1>8. ASSUME NEW p \in Requests, DirectLedger(p) PROVE TypeOK'
  <2>1. proc[p].c \in Codes /\ proc[p].e \in Emails
    BY <1>8 DEF DirectLedger, At, Accounted, HandlerOK, ApplicationOK
  <2>2. [proc[p] EXCEPT !.pc = "grant_write"] \in Handler
    BY MovedType DEF PC
  <2>3. QED
    BY <1>8, <2>1, <2>2 DEF DirectLedger, Goto
<1>9. ASSUME NEW p \in Requests, GrantWrite(p) PROVE TypeOK'
  <2>1. proc[p].c \in Codes \cup {None}
    BY DEF Handler
  <2>2. QED
    BY <1>9, <2>1, IdleType DEF GrantWrite, Return, ApplicationRow, ApplicationStatus
<1>10. ASSUME NEW p \in Requests, HandlerThrows(p) PROVE TypeOK'
  BY <1>10, IdleType DEF HandlerThrows, Fault, Return
<1>11. ASSUME NEW c \in Codes, Generate(c) PROVE TypeOK'
  <2>1. PICK multi \in BOOLEAN, quota \in 1 .. MaxQuota : NewCode(c, multi, quota)
    BY <1>11 DEF Generate
  <2>2. code' \in [Codes -> CodeRow]
    <3>1. quota \in Nat
      OBVIOUS
    <3>2. QED
      BY <2>1, <3>1, NewCodeType
  <2>3. QED
    BY <1>11, <2>2 DEF Generate
<1>12. ASSUME NEW c \in Codes, Authorize(c) PROVE TypeOK'
  BY <1>12 DEF Authorize, CodeRow, CodeStatus
<1>13. ASSUME NEW c \in Codes, Lapse(c) PROVE TypeOK'
  BY <1>13 DEF Lapse, CodeRow
<1>14. ASSUME Sweep PROVE TypeOK'
  BY <1>14 DEF Sweep, CodeRow, CodeStatus
<1>15. ASSUME NEW a \in Applications, Reject(a) PROVE TypeOK'
  BY <1>15 DEF Reject, ApplicationRow, ApplicationStatus
<1>16. ASSUME NEW a \in Applications, NEW e \in Emails, Apply(a, e) PROVE TypeOK'
  BY <1>16 DEF Apply, ApplicationRow, ApplicationStatus
<1>17. ASSUME Crash PROVE TypeOK'
  BY <1>17, IdleType DEF Crash, Fault
<1>18. CASE UNCHANGED vars
  BY <1>18 DEF vars
<1>19. QED
  BY <1>1, <1>2, <1>3, <1>4, <1>5, <1>6, <1>7, <1>8, <1>9, <1>10, <1>11, <1>12, <1>13,
     <1>14, <1>15, <1>16, <1>17, <1>18 DEF Next, RequestStep

------------------------------------------------------------------------------
(* What most steps leave alone.                                            *)

(* No row disappears, and none changes what it was made for.               *)
RowsStay ==
    /\ \A c \in Codes : code[c].st # "NONE" =>
          code'[c].st # "NONE" /\ code'[c].direct = code[c].direct
    /\ \A a \in Applications : application[a].st # "NONE" =>
          application'[a].st # "NONE" /\ application'[a].email = application[a].email

SameHolders(c) == Redeemers(c)' = Redeemers(c)

(* A handler that does not step stays right, unless the holders of the     *)
(* direct grant it is writing change.                                      *)
LEMMA HandlerKept ==
    ASSUME NEW q \in Requests, HandlerOK(q), proc'[q] = proc[q], RowsStay,
           proc[q].pc \in {"direct_ledger", "grant_write"} /\ code[proc[q].c].direct
               => SameHolders(proc[q].c)
    PROVE  HandlerOK(q)'
<1> USE DEF HandlerOK, RowsStay, SameHolders
<1> DEFINE h == proc[q]
<1>1. (h.pc \in {"red_expire", "red_ledger", "red_write", "direct_ledger", "grant_write"} =>
           h.c \in Codes /\ code[h.c].st # "NONE")'
  OBVIOUS
<1>2. (h.pc \in {"red_ledger", "red_write"} => h.e \in Emails /\ ~code[h.c].direct)'
  OBVIOUS
<1>3. (h.pc \in {"code_mint", "direct_mint", "direct_ledger", "grant_write"} =>
           /\ h.a \in Applications
           /\ application[h.a].st # "NONE"
           /\ h.e = application[h.a].email)'
  OBVIOUS
<1>4. (h.pc = "direct_ledger" => code[h.c].direct /\ Redeemers(h.c) = {})'
  OBVIOUS
<1>5. (h.pc = "grant_write" /\ code[h.c].direct => Redeemers(h.c) = {h.e})'
  OBVIOUS
<1>6. QED
  BY <1>1, <1>2, <1>3, <1>4, <1>5

(* An idle handler is right.                                               *)
LEMMA HandlerIdle ==
    ASSUME NEW q \in Requests, proc'[q] = Idle
    PROVE  HandlerOK(q)'
BY DEF HandlerOK, Idle

(* An application that is not decided stays right, unless the holders of   *)
(* its direct grant change.                                                *)
LEMMA ApplicationKept ==
    ASSUME NEW a \in Applications, ApplicationOK(a), application'[a] = application[a],
           RowsStay,
           application[a].st = "GRANTED" /\ code[application[a].grant].direct
               => SameHolders(application[a].grant)
    PROVE  ApplicationOK(a)'
BY DEF ApplicationOK, RowsStay, SameHolders

(* Where no handler starts to write a direct grant, there is one at most.  *)
LEMMA MinterKept ==
    ASSUME OneMinter,
           \A q \in Requests : proc'[q].pc = "direct_ledger" => proc'[q] = proc[q]
    PROVE  OneMinter'
BY DEF OneMinter, At

(* A code whose count and holders stay the same stays accounted for, while *)
(* those at work on it get no more and those about to count stay, or a     *)
(* fault is counted.                                                       *)
LEMMA CodeKept ==
    ASSUME NEW c \in Codes, CodeOK(c), TypeOK, TypeOK',
           code'[c].st = "NONE" <=> code[c].st = "NONE",
           code'[c].quota = code[c].quota, code'[c].used = code[c].used,
           code'[c].direct = code[c].direct,
           SameHolders(c),
           Redeeming(c)' \subseteq Redeeming(c),
           Counting(c)' \subseteq Counting(c),
           \/ faults' = faults /\ Counting(c)' = Counting(c)
           \/ faults' = faults + 1
    PROVE  CodeOK(c)'
<1> DEFINE k == Cardinality(Counting(c))
           k2 == Cardinality(Counting(c)')
           m == Cardinality(Redeeming(c))
           m2 == Cardinality(Redeeming(c)')
           r == Cardinality(Redeemers(c))
<1>1. k \in Nat /\ m \in Nat /\ k <= N
  BY AtWork, SomeRequests
<1>2. k2 \in Nat /\ k2 <= k
  <2>1. Counting(c) \in SUBSET Requests
    BY DEF Counting
  <2>2. IsFiniteSet(Counting(c))
    BY <2>1, SomeOfRequests
  <2>3. Counting(c)' \in SUBSET Counting(c)
    OBVIOUS
  <2>4. QED
    BY <2>2, <2>3, FS_Subset, FS_CardinalityType
<1>3. m2 \in Nat /\ m2 <= m
  <2>1. Redeeming(c) \in SUBSET Requests
    BY DEF Redeeming
  <2>2. IsFiniteSet(Redeeming(c))
    BY <2>1, SomeOfRequests
  <2>3. Redeeming(c)' \in SUBSET Redeeming(c)
    OBVIOUS
  <2>4. QED
    BY <2>2, <2>3, FS_Subset, FS_CardinalityType
<1>4. r \in Nat /\ Redeemers(c)' = Redeemers(c)
  BY RedeemersFinite DEF SameHolders
<1>5. code[c].used \in Nat /\ code[c].quota \in Nat /\ faults \in Nat
  BY DEF TypeOK, CodeRow
<1>6. code[c].st = "NONE" => Untouched(c)'
  BY <1>4 DEF CodeOK, Untouched
<1>7. code[c].direct => code[c].quota = 1 /\ code[c].used = 1 /\ r <= 1
  BY DEF CodeOK
<1>8. ~code[c].direct => code[c].used + k2 <= r
  BY <1>1, <1>2, <1>4, <1>5 DEF CodeOK
<1>9. ~code[c].direct => r <= code[c].used + k2 + N * faults'
  <2>1. ~code[c].direct => r <= code[c].used + k + N * faults
    BY DEF CodeOK, N
  <2>2. CASE faults' = faults /\ Counting(c)' = Counting(c)
    BY <2>1, <2>2
  <2>3. CASE faults' = faults + 1
    <3>1. N * (faults + 1) = N * faults + N /\ N * faults \in Nat
      BY <1>5, SomeRequests
    <3>2. QED
      BY <2>1, <2>3, <3>1, <1>1, <1>2, <1>4, <1>5, SomeRequests
  <2>4. QED
    BY <2>2, <2>3
<1>10. code[c].st # "NONE" /\ ~code[c].direct => code[c].used + m2 + 1 <= code[c].quota + N
  BY <1>1, <1>3, <1>5, SomeRequests DEF CodeOK, N
<1>11. QED
  BY <1>4, <1>6, <1>7, <1>8, <1>9, <1>10 DEF CodeOK, N

(* A step that neither makes, redeems nor grants a code: every handler     *)
(* that moves turns from the codes, and one that was about to count does   *)
(* not, but for a fault.                                                   *)
LEMMA Quiet ==
    ASSUME Inv, TypeOK', RowsStay, ledger' = ledger,
           \A c \in Codes : /\ code'[c].st = "NONE" <=> code[c].st = "NONE"
                            /\ code'[c].quota = code[c].quota
                            /\ code'[c].used = code[c].used
                            /\ code'[c].direct = code[c].direct,
           \A a \in Applications : application'[a] = application[a] \/ ApplicationOK(a)',
           \A q \in Requests : \/ proc'[q] = proc[q]
                               \/ /\ HandlerOK(q)'
                                  /\ proc'[q].pc \notin {"red_ledger", "red_write", "direct_ledger"},
           \/ /\ faults' = faults
              /\ \A q \in Requests : proc'[q] = proc[q] \/ proc[q].pc # "red_write"
           \/ faults' = faults + 1
    PROVE  Accounted'
<1>1. \A c \in Codes : SameHolders(c)
  BY DEF SameHolders, Redeemers
<1>2. ASSUME NEW q \in Requests PROVE HandlerOK(q)'
  <2>1. HandlerOK(q)
    BY DEF Inv, Accounted
  <2>2. proc[q].pc \in {"direct_ledger", "grant_write"} => SameHolders(proc[q].c)
    BY <1>1, <2>1 DEF HandlerOK
  <2>3. QED
    BY <2>1, <2>2, HandlerKept
<1>3. OneMinter'
  BY MinterKept DEF Inv, Accounted
<1>4. ASSUME NEW a \in Applications PROVE ApplicationOK(a)'
  <2>1. ApplicationOK(a)
    BY DEF Inv, Accounted
  <2>2. application[a].st = "GRANTED" => SameHolders(application[a].grant)
    BY <1>1, <2>1 DEF ApplicationOK
  <2>3. QED
    BY <2>1, <2>2, ApplicationKept
<1>5. ASSUME NEW c \in Codes PROVE CodeOK(c)'
  <2>1. Redeeming(c)' \subseteq Redeeming(c) /\ Counting(c)' \subseteq Counting(c)
    BY DEF Redeeming, Counting
  <2>2. \/ faults' = faults /\ Counting(c)' = Counting(c)
        \/ faults' = faults + 1
    BY DEF Counting
  <2>3. CodeOK(c) /\ TypeOK
    BY DEF Inv, Accounted
  <2>4. QED
    BY <1>1, <2>1, <2>2, <2>3, CodeKept
<1>6. QED
  BY <1>2, <1>3, <1>4, <1>5 DEF Accounted

(* A step that works on one code and leaves the applications alone: it is  *)
(* enough that this code and the handler that steps are right.             *)
LEMMA OneCodeStep ==
    ASSUME Inv, TypeOK', RowsStay, UNCHANGED <<application, faults>>,
           NEW c \in Codes, CodeOK(c)', OneMinter',
           code[c].st # "NONE" /\ code[c].direct => SameHolders(c),
           \A d \in Codes \ {c} : /\ code'[d] = code[d]
                                  /\ SameHolders(d)
                                  /\ Counting(d)' = Counting(d)
                                  /\ Redeeming(d)' = Redeeming(d),
           \A q \in Requests : proc'[q] = proc[q] \/ HandlerOK(q)'
    PROVE  Accounted'
<1>1. \A d \in Codes : code[d].st # "NONE" /\ code[d].direct => SameHolders(d)
  OBVIOUS
<1>2. ASSUME NEW q \in Requests PROVE HandlerOK(q)'
  <2>1. HandlerOK(q)
    BY DEF Inv, Accounted
  <2>2. proc[q].pc \in {"direct_ledger", "grant_write"} /\ code[proc[q].c].direct
            => SameHolders(proc[q].c)
    BY <1>1, <2>1 DEF HandlerOK
  <2>3. QED
    BY <2>1, <2>2, HandlerKept
<1>3. ASSUME NEW a \in Applications PROVE ApplicationOK(a)'
  <2>1. ApplicationOK(a)
    BY DEF Inv, Accounted
  <2>2. application[a].st = "GRANTED" /\ code[application[a].grant].direct
            => SameHolders(application[a].grant)
    BY <1>1, <2>1 DEF ApplicationOK
  <2>3. QED
    BY <2>1, <2>2, ApplicationKept
<1>4. ASSUME NEW d \in Codes PROVE CodeOK(d)'
  <2>1. CASE d = c
    BY <2>1
  <2>2. CASE d # c
    <3>1. CodeOK(d) /\ TypeOK
      BY DEF Inv, Accounted
    <3>2. QED
      BY <2>2, <3>1, CodeKept
  <2>3. QED
    BY <2>1, <2>2
<1>5. QED
  BY <1>2, <1>3, <1>4 DEF Accounted

------------------------------------------------------------------------------
(* The steps that make, redeem or grant a code.                            *)

(* A code that is not there has nobody at work on it.                      *)
LEMMA NobodyAtNone ==
    ASSUME Inv, NEW c \in Codes, code[c].st = "NONE"
    PROVE  /\ Redeeming(c) = {} /\ Counting(c) = {} /\ Redeemers(c) = {}
           /\ \A q \in Requests : At(q, "direct_ledger") => proc[q].c # c
BY DEF Inv, Accounted, HandlerOK, CodeOK, Untouched, Redeeming, Counting, At

(* A new code is accounted for.                                            *)
LEMMA NewCodeOK ==
    ASSUME Inv, TypeOK', NEW c \in Codes, NEW multi \in BOOLEAN, NEW quota \in Nat \ {0},
           NewCode(c, multi, quota), UNCHANGED <<ledger, faults>>,
           Redeeming(c)' = {}, Counting(c)' = {}
    PROVE  CodeOK(c)'
<1>1. /\ code'[c].st = "AUTHORIZED" /\ code'[c].quota = quota
      /\ code'[c].used = 0 /\ code'[c].direct = FALSE
  BY DEF NewCode, NoCode, Inv, TypeOK
<1>2. Redeemers(c)' = {}
  <2>1. code[c].st = "NONE"
    BY DEF NewCode
  <2>2. QED
    BY <2>1, NobodyAtNone DEF Redeemers
<1>3. Cardinality({}) = 0
  BY FS_EmptySet
<1>4. N * faults \in Nat /\ faults' = faults
  BY SomeRequests DEF Inv, TypeOK
<1>5. QED
  BY <1>1, <1>2, <1>3, <1>4, SomeRequests DEF CodeOK, N

LEMMA GenerateStep ==
    ASSUME Inv, TypeOK', NEW c \in Codes, Generate(c)
    PROVE  Accounted'
<1>1. PICK multi \in BOOLEAN, quota \in 1 .. MaxQuota : NewCode(c, multi, quota)
  BY DEF Generate
<1>2. quota \in Nat \ {0}
  BY ActivationAssumption
<1>3. code[c].st = "NONE" /\ UNCHANGED <<ledger, application, proc, faults>>
  BY <1>1 DEF Generate, NewCode
<1>4. \A d \in Codes : /\ Redeeming(d)' = Redeeming(d) /\ Counting(d)' = Counting(d)
                       /\ SameHolders(d)
  BY <1>3 DEF Redeeming, Counting, SameHolders, Redeemers
<1>5. CodeOK(c)'
  BY <1>1, <1>2, <1>3, <1>4, NobodyAtNone, NewCodeOK
<1>6. \A d \in Codes \ {c} : code'[d] = code[d]
  BY <1>1 DEF NewCode, Inv, TypeOK
<1>7. RowsStay
  BY <1>3, <1>6 DEF RowsStay
<1>8. OneMinter'
  BY <1>3, MinterKept DEF Inv, Accounted
<1>9. QED
  BY <1>3, <1>4, <1>5, <1>6, <1>7, <1>8, OneCodeStep

LEMMA CodeMintStep ==
    ASSUME Inv, TypeOK', NEW p \in Requests, CodeMint(p)
    PROVE  Accounted'
<1> USE DEF Inv, TypeOK
<1>1. PICK c \in Codes, multi \in BOOLEAN :
          /\ NewCode(c, multi, 1)
          /\ proc' = [proc EXCEPT ![p].pc = "grant_write", ![p].c = c]
  BY DEF CodeMint
<1> DEFINE h == [proc[p] EXCEPT !.pc = "grant_write", !.c = c]
<1>2. h \in Handler /\ h.pc = "grant_write" /\ h.c = c /\ h.a = proc[p].a /\ h.e = proc[p].e
  <2>1. proc[p] \in Handler /\ "grant_write" \in PC
    BY DEF PC
  <2>2. h \in Handler
    BY <2>1, MovedType
  <2>3. QED
    BY <2>1, <2>2, MovedFields
<1>3. proc' = [proc EXCEPT ![p] = h] /\ proc'[p] = h
  BY <1>1
<1>4. code[c].st = "NONE" /\ UNCHANGED <<ledger, application, faults>>
  BY <1>1 DEF CodeMint, NewCode
<1>5. \A d \in Codes : Redeeming(d)' = Redeeming(d) /\ Counting(d)' = Counting(d)
  BY <1>2, <1>3, WorkChanges DEF CodeMint, At, Redeeming, Counting
<1>6. \A d \in Codes : SameHolders(d)
  BY <1>4 DEF SameHolders, Redeemers
<1>7. CodeOK(c)'
  BY <1>1, <1>4, <1>5, NobodyAtNone, NewCodeOK
<1>8. \A d \in Codes \ {c} : code'[d] = code[d]
  BY <1>1 DEF NewCode
<1>9. code'[c].st # "NONE" /\ ~code'[c].direct
  BY <1>1 DEF NewCode, NoCode
<1>10. RowsStay
  BY <1>4, <1>8 DEF RowsStay
<1>11. OneMinter'
  BY <1>2, <1>3, MinterKept DEF Accounted
<1>12. HandlerOK(p)'
  BY <1>2, <1>3, <1>4, <1>9 DEF CodeMint, At, HandlerOK, Accounted
<1>13. \A q \in Requests : proc'[q] = proc[q] \/ HandlerOK(q)'
  BY <1>3, <1>12
<1>14. QED
  BY <1>4, <1>5, <1>6, <1>7, <1>8, <1>10, <1>11, <1>13, OneCodeStep

LEMMA DirectMintStep ==
    ASSUME Inv, TypeOK', NEW p \in Requests, DirectMint(p)
    PROVE  Accounted'
<1> USE DEF Inv, TypeOK
<1>1. PICK c \in Codes :
          /\ code[c].st = "NONE"
          /\ code' = [code EXCEPT ![c] = [NoCode EXCEPT
                        !.st = "USED", !.quota = 1, !.used = 1, !.direct = TRUE]]
          /\ proc' = [proc EXCEPT ![p].pc = "direct_ledger", ![p].c = c]
  BY DEF DirectMint
<1> DEFINE h == [proc[p] EXCEPT !.pc = "direct_ledger", !.c = c]
<1>2. h \in Handler /\ h.pc = "direct_ledger" /\ h.c = c /\ h.a = proc[p].a /\ h.e = proc[p].e
  <2>1. proc[p] \in Handler /\ "direct_ledger" \in PC
    BY DEF PC
  <2>2. h \in Handler
    BY <2>1, MovedType
  <2>3. QED
    BY <2>1, <2>2, MovedFields
<1>3. proc' = [proc EXCEPT ![p] = h] /\ proc'[p] = h
  BY <1>1
<1>4. UNCHANGED <<ledger, application, faults>>
  BY DEF DirectMint
<1>5. \A d \in Codes : Redeeming(d)' = Redeeming(d) /\ Counting(d)' = Counting(d)
  BY <1>2, <1>3, WorkChanges DEF DirectMint, At, Redeeming, Counting
<1>6. \A d \in Codes : SameHolders(d)
  BY <1>4 DEF SameHolders, Redeemers
<1>7. \A d \in Codes \ {c} : code'[d] = code[d]
  BY <1>1
<1>8. /\ code'[c].st = "USED" /\ code'[c].direct = TRUE
      /\ code'[c].quota = 1 /\ code'[c].used = 1
  BY <1>1 DEF NoCode
<1>9. Redeemers(c)' = {}
  BY <1>1, <1>6, NobodyAtNone DEF SameHolders
<1>10. CodeOK(c)'
  BY <1>8, <1>9, FS_EmptySet DEF CodeOK
<1>11. RowsStay
  BY <1>1, <1>4, <1>7 DEF RowsStay
<1>12. OneMinter'
  <2>1. \A q \in Requests : At(q, "direct_ledger") => proc[q].c # c
    BY <1>1, NobodyAtNone
  <2>2. QED
    BY <1>2, <1>3, <2>1 DEF OneMinter, At, Accounted
<1>13. HandlerOK(p)'
  <2>1. /\ h.a \in Applications
        /\ application[h.a].st # "NONE"
        /\ h.e = application[h.a].email
    BY <1>2 DEF DirectMint, At, HandlerOK, Accounted
  <2>2. application'[h.a] = application[h.a]
    BY <1>4
  <2>3. QED
    BY <1>2, <1>3, <1>8, <1>9, <2>1, <2>2 DEF HandlerOK
<1>14. \A q \in Requests : proc'[q] = proc[q] \/ HandlerOK(q)'
  BY <1>3, <1>13
<1>15. QED
  BY <1>1, <1>4, <1>5, <1>6, <1>7, <1>10, <1>11, <1>12, <1>14, OneCodeStep

(* The holders of a direct grant are nobody before its handler writes them.*)
LEMMA DirectLedgerStep ==
    ASSUME Inv, TypeOK', NEW p \in Requests, DirectLedger(p)
    PROVE  Accounted'
<1> USE DEF Inv, TypeOK
<1>1. /\ proc[p].c \in Codes /\ proc[p].a \in Applications
      /\ application[proc[p].a].st # "NONE"
      /\ proc[p].e = application[proc[p].a].email
  BY DEF DirectLedger, At, Accounted, HandlerOK
<1>2. PICK c \in Codes, e \in Emails : c = proc[p].c /\ e = proc[p].e
  BY <1>1 DEF Accounted, ApplicationOK
<1>3. code[c].st # "NONE" /\ code[c].direct /\ Redeemers(c) = {}
  BY <1>2 DEF DirectLedger, At, Accounted, HandlerOK
<1> DEFINE h == [proc[p] EXCEPT !.pc = "grant_write"]
<1>4. h \in Handler /\ h.pc = "grant_write" /\ h.c = c /\ h.a = proc[p].a /\ h.e = e
  <2>1. proc[p] \in Handler /\ "grant_write" \in PC
    BY DEF PC
  <2>2. h \in Handler
    BY <2>1, MovedType
  <2>3. QED
    BY <1>2, <2>1, <2>2 DEF Handler
<1>5. proc' = [proc EXCEPT ![p] = h] /\ proc'[p] = h
  BY DEF DirectLedger, Goto
<1>6. UNCHANGED <<code, application, faults>> /\ ledger' = ledger \cup {<<c, e>>}
  BY <1>2 DEF DirectLedger
<1>7. \A d \in Codes : Redeeming(d)' = Redeeming(d) /\ Counting(d)' = Counting(d)
  BY <1>4, <1>5, WorkChanges DEF DirectLedger, At, Redeeming, Counting
<1>8. Redeemers(c)' = {e}
  <2>1. \A x \in Emails : <<c, x>> \notin ledger
    BY <1>3 DEF Redeemers
  <2>2. \A x \in Emails : <<c, x>> \in ledger' <=> x = e
    BY <1>6, <2>1
  <2>3. QED
    BY <1>2, <2>2 DEF Redeemers
<1>9. \A d \in Codes \ {c} : SameHolders(d)
  BY <1>6 DEF SameHolders, Redeemers
<1>10. RowsStay
  BY <1>6 DEF RowsStay
<1>11. ASSUME NEW q \in Requests PROVE HandlerOK(q)'
  <2>1. CASE q = p
    BY <1>1, <1>2, <1>3, <1>4, <1>5, <1>6, <1>8, <2>1 DEF HandlerOK
  <2>2. CASE q # p
    <3>1. HandlerOK(q) /\ proc'[q] = proc[q]
      BY <1>5, <2>2 DEF Accounted
    <3>2. proc[q].pc \in {"direct_ledger", "grant_write"} => proc[q].c # c
      <4>1. proc[q].pc = "direct_ledger" => proc[q].c # c
        BY <1>2, <2>2 DEF DirectLedger, At, Accounted, OneMinter
      <4>2. proc[q].pc = "grant_write" => proc[q].c # c
        BY <1>1, <1>2, <1>3, <3>1 DEF HandlerOK
      <4>3. QED
        BY <4>1, <4>2
    <3>3. proc[q].pc \in {"direct_ledger", "grant_write"} => SameHolders(proc[q].c)
      BY <1>9, <3>1, <3>2 DEF HandlerOK
    <3>4. QED
      BY <1>10, <3>1, <3>3, HandlerKept
  <2>3. QED
    BY <2>1, <2>2
<1>12. OneMinter'
  BY <1>4, <1>5, MinterKept DEF Accounted
<1>13. ASSUME NEW a \in Applications PROVE ApplicationOK(a)'
  <2>1. ApplicationOK(a) /\ application'[a] = application[a]
    BY <1>6 DEF Accounted
  <2>2. application[a].st = "GRANTED" => SameHolders(application[a].grant)
    BY <1>1, <1>2, <1>3, <1>9, <2>1 DEF ApplicationOK
  <2>3. QED
    BY <1>10, <2>1, <2>2, ApplicationKept
<1>14. ASSUME NEW d \in Codes PROVE CodeOK(d)'
  <2>1. CodeOK(d)
    BY DEF Accounted
  <2>2. CASE d = c
    <3>1. Cardinality({e}) = 1
      BY FS_Singleton
    <3>2. code[c].quota = 1 /\ code[c].used = 1
      BY <1>1, <1>2, <1>3, <2>1, <2>2 DEF CodeOK
    <3>3. CodeOK(c)'
      BY <1>1, <1>2, <1>3, <1>6, <1>8, <3>1, <3>2 DEF CodeOK
    <3>4. QED
      BY <2>2, <3>3
  <2>3. CASE d # c
    BY <1>6, <1>7, <1>9, <2>1, <2>3, CodeKept
  <2>4. QED
    BY <2>2, <2>3
<1>15. QED
  BY <1>11, <1>12, <1>13, <1>14 DEF Accounted

(* What passes the checks together is bounded by the handlers there are.   *)
LEMMA RedeemStep ==
    ASSUME Inv, TypeOK', NEW p \in Requests, NEW c \in Codes, NEW e \in Emails,
           Redeem(p, c, e)
    PROVE  Accounted'
<1> USE DEF Inv, TypeOK
<1>1. At(p, "idle") /\ UNCHANGED <<code, ledger, application, faults>>
  BY DEF Redeem
<1>2. RowsStay
  BY <1>1 DEF RowsStay
<1>3. ASSUME code[c].st # "NONE",
             proc' = [proc EXCEPT ![p] = [Idle EXCEPT !.pc = "red_expire", !.c = c]]
      PROVE  Accounted'
  <2>1. proc'[p].pc = "red_expire" /\ proc'[p].c = c
    BY <1>3 DEF Idle
  <2>2. HandlerOK(p)'
    BY <1>1, <1>3, <2>1 DEF HandlerOK
  <2>3. \A q \in Requests : q # p => proc'[q] = proc[q]
    BY <1>3
  <2>4. QED
    BY <1>1, <1>2, <2>1, <2>2, <2>3, Quiet DEF At
<1>4. ASSUME NEW last \in BOOLEAN,
             code[c].st # "NONE", code[c].used < code[c].quota,
             proc' = [proc EXCEPT ![p] = [Idle EXCEPT
                        !.pc = "red_ledger", !.c = c, !.e = e, !.last = last]]
      PROVE  Accounted'
  <2> DEFINE h == [Idle EXCEPT !.pc = "red_ledger", !.c = c, !.e = e, !.last = last]
  <2>1. h \in Handler /\ h.pc = "red_ledger" /\ h.c = c /\ h.e = e
    BY DEF Idle, Handler, PC
  <2>2. proc' = [proc EXCEPT ![p] = h] /\ proc'[p] = h
    BY <1>4
  <2>3. \A d \in Codes : Counting(d)' = Counting(d)
    BY <1>1, <2>1, <2>2, WorkChanges DEF At, Counting
  <2>4. \A d \in Codes \ {c} : Redeeming(d)' = Redeeming(d)
    BY <1>1, <2>1, <2>2, WorkChanges DEF At, Redeeming
  <2>5. \A d \in Codes : SameHolders(d)
    BY <1>1 DEF SameHolders, Redeemers
  <2>6. CodeOK(c) /\ code'[c] = code[c] /\ code[c].used \in Nat /\ code[c].quota \in Nat
    BY <1>1 DEF Accounted, CodeRow
  <2>7. ~code[c].direct
    BY <1>4, <2>6 DEF CodeOK
  <2>8. CodeOK(c)'
    <3>1. Cardinality(Redeeming(c)') \in Nat /\ Cardinality(Redeeming(c)') <= N
      <4>1. Redeeming(c)' \in SUBSET Requests
        BY DEF Redeeming
      <4>2. QED
        BY <4>1, SomeOfRequests
    <3>2. code[c].used + Cardinality(Redeeming(c)') + 1 <= code[c].quota + N
      BY <1>4, <2>6, <3>1, SomeRequests
    <3>3. QED
      BY <1>1, <1>4, <2>3, <2>5, <2>6, <2>7, <3>2 DEF CodeOK, SameHolders, N
  <2>9. HandlerOK(p)'
    BY <1>4, <2>1, <2>2, <2>6, <2>7 DEF HandlerOK
  <2>10. OneMinter'
    BY <2>1, <2>2, MinterKept DEF Accounted
  <2>11. QED
    BY <1>1, <1>2, <2>2, <2>3, <2>4, <2>5, <2>8, <2>9, <2>10, OneCodeStep
<1>5. (~code[c].multi \/ code[c].used + 1 >= code[c].quota) \in BOOLEAN
  OBVIOUS
<1>6. QED
  BY <1>3, <1>4, <1>5 DEF Redeem

(* A redemption on the ledger is one that waits to be counted.             *)
LEMMA RedeemLedgerStep ==
    ASSUME Inv, TypeOK', NEW p \in Requests, RedeemLedger(p)
    PROVE  Accounted'
<1> USE DEF Inv, TypeOK
<1>0. PICK c \in Codes, e \in Emails : c = proc[p].c /\ e = proc[p].e
  BY DEF RedeemLedger, At, Accounted, HandlerOK
<1>1. /\ proc[p].pc = "red_ledger" /\ proc[p].c = c /\ proc[p].e = e
      /\ code[c].st # "NONE" /\ ~code[c].direct
  BY <1>0 DEF RedeemLedger, At, Accounted, HandlerOK
<1>2. UNCHANGED <<code, application, faults>> /\ ledger' = ledger \cup {<<c, e>>}
  BY <1>0 DEF RedeemLedger
<1>3. RowsStay
  BY <1>2 DEF RowsStay
<1>4. CASE <<c, e>> \in ledger
  <2>1. proc' = [proc EXCEPT ![p] = Idle] /\ ledger' = ledger
    BY <1>1, <1>2, <1>4 DEF RedeemLedger, Return
  <2>2. proc'[p].pc = "idle" /\ \A q \in Requests : q # p => proc'[q] = proc[q]
    BY <2>1 DEF Idle
  <2>3. HandlerOK(p)'
    BY <2>1, HandlerIdle
  <2>4. QED
    BY <1>1, <1>2, <1>3, <2>1, <2>2, <2>3, Quiet
<1>5. CASE <<c, e>> \notin ledger
  <2> DEFINE h == [proc[p] EXCEPT !.pc = "red_write"]
  <2>1. h \in Handler /\ h.pc = "red_write" /\ h.c = c /\ h.e = e
    <3>1. proc[p] \in Handler /\ "red_write" \in PC
      BY DEF PC
    <3>2. h \in Handler
      BY <3>1, MovedType
    <3>3. QED
      BY <1>1, <3>1, <3>2 DEF Handler
  <2>2. proc' = [proc EXCEPT ![p] = h] /\ proc'[p] = h
    BY <1>1, <1>5 DEF RedeemLedger, Goto
  <2>3. \A d \in Codes : Redeeming(d)' = Redeeming(d)
    BY <1>1, <2>1, <2>2, WorkChanges DEF Redeeming
  <2>4. Counting(c)' = Counting(c) \cup {p} /\ p \notin Counting(c)
    BY <1>1, <2>1, <2>2, WorkChanges DEF Counting
  <2>5. \A d \in Codes \ {c} : Counting(d)' = Counting(d)
    BY <1>1, <2>1, <2>2, WorkChanges DEF Counting
  <2>6. Redeemers(c)' = Redeemers(c) \cup {e} /\ e \notin Redeemers(c)
    BY <1>1, <1>2, <1>5 DEF Redeemers
  <2>7. \A d \in Codes \ {c} : SameHolders(d)
    BY <1>2 DEF SameHolders, Redeemers
  <2>8. CodeOK(c)'
    <3>1. Cardinality(Counting(c)') = Cardinality(Counting(c)) + 1
      <4>1. Counting(c) \in SUBSET Requests
        BY DEF Counting
      <4>2. IsFiniteSet(Counting(c))
        BY <4>1, SomeOfRequests
      <4>3. QED
        BY <2>4, <4>2, FS_AddElement
    <3>2. Cardinality(Redeemers(c)') = Cardinality(Redeemers(c)) + 1
      BY <1>1, <2>6, RedeemersFinite, FS_AddElement
    <3>3. Redeeming(c)' = Redeeming(c) /\ code' = code /\ faults' = faults
      BY <1>1, <1>2, <2>3
    <3>4. CodeOK(c)
      BY <1>1 DEF Accounted
    <3>5. code[c].used \in Nat /\ N * faults \in Nat
      BY <1>1, SomeRequests DEF CodeRow
    <3>6. code[c].used + Cardinality(Counting(c)') <= Cardinality(Redeemers(c)')
      BY <1>1, <3>1, <3>2, <3>4, <3>5, AtWork, RedeemersFinite DEF CodeOK
    <3>7. Cardinality(Redeemers(c)') <= code[c].used + Cardinality(Counting(c)') + N * faults
      BY <1>1, <3>1, <3>2, <3>4, <3>5, AtWork, RedeemersFinite DEF CodeOK, N
    <3>8. QED
      BY <1>1, <3>3, <3>4, <3>6, <3>7 DEF CodeOK, N
  <2>9. HandlerOK(p)'
    BY <1>1, <1>2, <2>1, <2>2 DEF HandlerOK
  <2>10. OneMinter'
    BY <2>1, <2>2, MinterKept DEF Accounted
  <2>11. QED
    BY <1>1, <1>2, <1>3, <2>2, <2>3, <2>5, <2>7, <2>8, <2>9, <2>10, OneCodeStep
<1>6. QED
  BY <1>4, <1>5

(* A redemption counted waits no longer.                                   *)
LEMMA RedeemWriteStep ==
    ASSUME Inv, TypeOK', NEW p \in Requests, RedeemWrite(p)
    PROVE  Accounted'
<1> USE DEF Inv, TypeOK
<1>0. PICK c \in Codes : c = proc[p].c
  BY DEF RedeemWrite, At, Accounted, HandlerOK
<1>1. /\ proc[p].pc = "red_write" /\ proc[p].c = c
      /\ code[c].st # "NONE" /\ ~code[c].direct
  BY <1>0 DEF RedeemWrite, At, Accounted, HandlerOK
<1>2. UNCHANGED <<ledger, application, faults>>
  BY DEF RedeemWrite
<1>3. /\ code'[c].st # "NONE" /\ code'[c].used = code[c].used + 1
      /\ code'[c].quota = code[c].quota /\ code'[c].direct = code[c].direct
  BY <1>1 DEF RedeemWrite, CodeRow
<1>4. \A d \in Codes \ {c} : code'[d] = code[d]
  BY <1>1 DEF RedeemWrite
<1>5. proc' = [proc EXCEPT ![p] = Idle] /\ proc'[p] = Idle /\ Idle \in Handler
  BY IdleType DEF RedeemWrite, Return
<1>6. RowsStay
  BY <1>2, <1>3, <1>4 DEF RowsStay
<1>7. \A d \in Codes \ {c} : Redeeming(d)' = Redeeming(d) /\ Counting(d)' = Counting(d)
  BY <1>1, <1>5, WorkChanges DEF Redeeming, Counting, Idle
<1>8. /\ Redeeming(c)' = Redeeming(c) \ {p} /\ p \in Redeeming(c)
      /\ Counting(c)' = Counting(c) \ {p} /\ p \in Counting(c)
  BY <1>1, <1>5, WorkChanges DEF Redeeming, Counting, Idle
<1>9. \A d \in Codes : SameHolders(d)
  BY <1>2 DEF SameHolders, Redeemers
<1>10. CodeOK(c)'
  <2>1. IsFiniteSet(Redeeming(c)) /\ IsFiniteSet(Counting(c))
    <3>1. Redeeming(c) \in SUBSET Requests /\ Counting(c) \in SUBSET Requests
      BY DEF Redeeming, Counting
    <3>2. QED
      BY <3>1, SomeOfRequests
  <2>2. /\ Cardinality(Redeeming(c)') = Cardinality(Redeeming(c)) - 1
        /\ Cardinality(Counting(c)') = Cardinality(Counting(c)) - 1
    BY <1>8, <2>1, FS_RemoveElement
  <2>3. Redeemers(c)' = Redeemers(c) /\ faults' = faults
    BY <1>1, <1>2, <1>9 DEF SameHolders
  <2>4. CodeOK(c)
    BY <1>1 DEF Accounted
  <2>5. code[c].used \in Nat /\ code[c].quota \in Nat /\ N * faults \in Nat
    BY <1>1, SomeRequests DEF CodeRow
  <2>6. code'[c].used + Cardinality(Counting(c)') <= Cardinality(Redeemers(c))
    BY <1>1, <1>3, <2>2, <2>4, <2>5, AtWork, RedeemersFinite DEF CodeOK
  <2>7. Cardinality(Redeemers(c)) <= code'[c].used + Cardinality(Counting(c)') + N * faults
    BY <1>1, <1>3, <2>2, <2>4, <2>5, AtWork, RedeemersFinite DEF CodeOK, N
  <2>8. code'[c].used + Cardinality(Redeeming(c)') + 1 <= code'[c].quota + N
    BY <1>1, <1>3, <2>2, <2>4, <2>5, AtWork, SomeRequests DEF CodeOK, N
  <2>9. QED
    BY <1>1, <1>3, <2>3, <2>6, <2>7, <2>8 DEF CodeOK, N
<1>11. HandlerOK(p)'
  BY <1>5, HandlerIdle
<1>12. OneMinter'
  BY <1>5, MinterKept DEF Accounted, Idle
<1>13. QED
  BY <1>1, <1>2, <1>4, <1>5, <1>6, <1>7, <1>9, <1>10, <1>11, <1>12, OneCodeStep

------------------------------------------------------------------------------
(* The other steps are quiet.                                              *)

QuietNext ==
    \/ \E p \in Requests : \/ RedeemExpire(p) \/ GrantWrite(p) \/ HandlerThrows(p)
                           \/ \E a \in Applications : Approve(p, a)
    \/ \E c \in Codes : Authorize(c) \/ Lapse(c)
    \/ Sweep
    \/ \E a \in Applications : Reject(a) \/ \E e \in Emails : Apply(a, e)
    \/ Crash
    \/ UNCHANGED vars

LEMMA QuietSteps ==
    ASSUME Inv, TypeOK', QuietNext
    PROVE  Accounted'
<1> USE DEF Inv, TypeOK
<1> DEFINE CodesStay ==
               \A c \in Codes : /\ code'[c].st = "NONE" <=> code[c].st = "NONE"
                                /\ code'[c].quota = code[c].quota
                                /\ code'[c].used = code[c].used
                                /\ code'[c].direct = code[c].direct
           Back(q) == proc'[q] = proc[q] \/ proc'[q] = Idle
<1>1. \A q \in Requests : proc'[q] = Idle =>
          HandlerOK(q)' /\ proc'[q].pc \notin {"red_ledger", "red_write", "direct_ledger"}
  BY HandlerIdle DEF Idle
<1>2. ASSUME NEW p \in Requests, RedeemExpire(p) PROVE Accounted'
  <2>1. PICK c \in Codes : c = proc[p].c /\ code[c].st # "NONE"
    BY <1>2 DEF RedeemExpire, At, Accounted, HandlerOK
  <2>2. code' = [code EXCEPT ![c].st = "EXPIRED"]
    BY <1>2, <2>1 DEF RedeemExpire
  <2>3. CodesStay
    BY <2>1, <2>2 DEF CodeRow
  <2>4. UNCHANGED <<ledger, application, faults>>
    BY <1>2 DEF RedeemExpire
  <2>5. \A q \in Requests : Back(q) /\ (proc'[q] = proc[q] \/ proc[q].pc # "red_write")
    BY <1>2 DEF RedeemExpire, Return, At
  <2>6. RowsStay
    BY <2>3, <2>4 DEF RowsStay
  <2>7. QED
    BY <1>1, <2>3, <2>4, <2>5, <2>6, Quiet
<1>3. ASSUME NEW p \in Requests, GrantWrite(p) PROVE Accounted'
  <2>1. PICK a \in Applications, c \in Codes : a = proc[p].a /\ c = proc[p].c
    BY <1>3 DEF GrantWrite, At, Accounted, HandlerOK
  <2>2. /\ code[c].st # "NONE"
        /\ application[a].st # "NONE" /\ proc[p].e = application[a].email
        /\ code[c].direct => Redeemers(c) = {proc[p].e}
    BY <1>3, <2>1 DEF GrantWrite, At, Accounted, HandlerOK
  <2>3. application[a].email \in Emails
    BY <2>2 DEF Accounted, ApplicationOK
  <2>4. UNCHANGED <<code, ledger, faults>>
    BY <1>3 DEF GrantWrite
  <2>5. application' = [application EXCEPT ![a].st = "GRANTED", ![a].grant = c]
    BY <1>3, <2>1 DEF GrantWrite
  <2>6. /\ application'[a].st = "GRANTED" /\ application'[a].grant = c
        /\ application'[a].email = application[a].email
        /\ \A b \in Applications : b # a => application'[b] = application[b]
    BY <2>5 DEF ApplicationRow
  <2>7. Redeemers(c)' = Redeemers(c)
    BY <2>4 DEF Redeemers
  <2>8. ApplicationOK(a)'
    BY <2>2, <2>3, <2>4, <2>6, <2>7 DEF ApplicationOK
  <2>9. \A q \in Requests : Back(q) /\ (proc'[q] = proc[q] \/ proc[q].pc # "red_write")
    BY <1>3 DEF GrantWrite, Return, At
  <2>10. RowsStay
    BY <2>4, <2>6 DEF RowsStay
  <2>11. QED
    BY <1>1, <2>4, <2>6, <2>8, <2>9, <2>10, Quiet
<1>4. ASSUME NEW p \in Requests, HandlerThrows(p) PROVE Accounted'
  <2>1. UNCHANGED <<code, ledger, application>> /\ faults' = faults + 1
    BY <1>4 DEF HandlerThrows, Fault
  <2>2. \A q \in Requests : Back(q)
    BY <1>4 DEF HandlerThrows, Return
  <2>3. RowsStay
    BY <2>1 DEF RowsStay
  <2>4. QED
    BY <1>1, <2>1, <2>2, <2>3, Quiet
<1>5. ASSUME NEW p \in Requests, NEW a \in Applications, Approve(p, a) PROVE Accounted'
  <2>1. PICK mode \in {"code_mint", "direct_mint"} :
            proc' = [proc EXCEPT ![p] = [Idle EXCEPT
                       !.pc = mode, !.a = a, !.e = application[a].email]]
    BY <1>5 DEF Approve
  <2>2. proc'[p].pc = mode /\ proc'[p].a = a /\ proc'[p].e = application[a].email
    BY <2>1 DEF Idle
  <2>3. UNCHANGED <<code, ledger, application, faults>> /\ application[a].st = "PENDING"
    BY <1>5 DEF Approve
  <2>4. HandlerOK(p)'
    BY <2>2, <2>3 DEF HandlerOK
  <2>5. \A q \in Requests : q # p => proc'[q] = proc[q]
    BY <2>1
  <2>6. RowsStay /\ proc[p].pc = "idle"
    BY <1>5, <2>3 DEF RowsStay, Approve, At
  <2>7. QED
    BY <2>2, <2>3, <2>4, <2>5, <2>6, Quiet
<1>6. ASSUME NEW c \in Codes, Authorize(c) \/ Lapse(c) PROVE Accounted'
  <2>1. CodesStay
    BY <1>6 DEF Authorize, Lapse, CodeRow
  <2>2. UNCHANGED <<ledger, application, proc, faults>>
    BY <1>6 DEF Authorize, Lapse
  <2>3. RowsStay
    BY <2>1, <2>2 DEF RowsStay
  <2>4. QED
    BY <2>1, <2>2, <2>3, Quiet
<1>7. ASSUME Sweep PROVE Accounted'
  <2>1. CodesStay
    BY <1>7 DEF Sweep, CodeRow
  <2>2. UNCHANGED <<ledger, application, proc, faults>>
    BY <1>7 DEF Sweep
  <2>3. RowsStay
    BY <2>1, <2>2 DEF RowsStay
  <2>4. QED
    BY <2>1, <2>2, <2>3, Quiet
<1>8. ASSUME NEW a \in Applications,
             Reject(a) \/ \E e \in Emails : Apply(a, e)
      PROVE  Accounted'
  <2>1. UNCHANGED <<code, ledger, proc, faults>>
    BY <1>8 DEF Reject, Apply
  <2>2. \A b \in Applications : b # a => application'[b] = application[b]
    BY <1>8 DEF Reject, Apply
  <2>3. /\ application'[a].st \in {"PENDING", "REJECTED"}
        /\ application[a].st # "NONE" => application'[a].email = application[a].email
        /\ application[a].st = "NONE" => application'[a].email \in Emails
    BY <1>8 DEF Reject, Apply, ApplicationRow
  <2>4. ApplicationOK(a)
    BY DEF Accounted
  <2>5. ApplicationOK(a)'
    BY <2>3, <2>4 DEF ApplicationOK
  <2>6. RowsStay
    BY <2>1, <2>2, <2>3 DEF RowsStay
  <2>7. QED
    BY <2>1, <2>2, <2>5, <2>6, Quiet
<1>9. ASSUME Crash PROVE Accounted'
  <2>1. UNCHANGED <<code, ledger, application>> /\ faults' = faults + 1
    BY <1>9 DEF Crash, Fault
  <2>2. \A q \in Requests : Back(q)
    BY <1>9 DEF Crash
  <2>3. RowsStay
    BY <2>1 DEF RowsStay
  <2>4. QED
    BY <1>1, <2>1, <2>2, <2>3, Quiet
<1>10. ASSUME UNCHANGED vars PROVE Accounted'
  <2>1. UNCHANGED <<code, ledger, application, proc, faults>>
    BY <1>10 DEF vars
  <2>2. RowsStay
    BY <2>1 DEF RowsStay
  <2>3. QED
    BY <2>1, <2>2, Quiet
<1>11. QED
  BY <1>2, <1>3, <1>4, <1>5, <1>6, <1>7, <1>8, <1>9, <1>10 DEF QuietNext

------------------------------------------------------------------------------
(* The invariant and what follows from it.                                 *)

LEMMA AccountedInit == Init => Accounted
<1> SUFFICES ASSUME Init PROVE Accounted
  OBVIOUS
<1>1. /\ \A p \in Requests : HandlerOK(p)
      /\ OneMinter
      /\ \A a \in Applications : ApplicationOK(a)
  BY DEF Init, HandlerOK, OneMinter, At, ApplicationOK, Idle, NoApplication
<1>2. ASSUME NEW c \in Codes PROVE CodeOK(c)
  <2>1. Redeemers(c) = {} /\ Counting(c) = {}
    BY DEF Init, Redeemers, Counting, Idle
  <2>2. N * faults = 0
    BY SomeRequests DEF Init
  <2>3. QED
    BY <2>1, <2>2, FS_EmptySet DEF Init, CodeOK, Untouched, NoCode, N
<1>3. QED
  BY <1>1, <1>2 DEF Accounted

LEMMA InvInit == Init => Inv
BY TypeInit, AccountedInit DEF Inv

LEMMA InvNext == Inv /\ [Next]_vars => Inv'
<1> SUFFICES ASSUME Inv, [Next]_vars PROVE Inv'
  OBVIOUS
<1>1. TypeOK'
  BY TypeNext
<1>2. ASSUME QuietNext PROVE Accounted'
  BY <1>1, <1>2, QuietSteps
<1>3. ASSUME NEW p \in Requests, RedeemLedger(p) PROVE Accounted'
  BY <1>1, <1>3, RedeemLedgerStep
<1>4. ASSUME NEW p \in Requests, RedeemWrite(p) PROVE Accounted'
  BY <1>1, <1>4, RedeemWriteStep
<1>5. ASSUME NEW p \in Requests, NEW c \in Codes, NEW e \in Emails, Redeem(p, c, e)
      PROVE  Accounted'
  BY <1>1, <1>5, RedeemStep
<1>6. ASSUME NEW p \in Requests, CodeMint(p) PROVE Accounted'
  BY <1>1, <1>6, CodeMintStep
<1>7. ASSUME NEW p \in Requests, DirectMint(p) PROVE Accounted'
  BY <1>1, <1>7, DirectMintStep
<1>8. ASSUME NEW p \in Requests, DirectLedger(p) PROVE Accounted'
  BY <1>1, <1>8, DirectLedgerStep
<1>9. ASSUME NEW c \in Codes, Generate(c) PROVE Accounted'
  BY <1>1, <1>9, GenerateStep
<1>10. Accounted'
  BY <1>2, <1>3, <1>4, <1>5, <1>6, <1>7, <1>8, <1>9 DEF Next, RequestStep, QuietNext
<1>11. QED
  BY <1>1, <1>10 DEF Inv

(* The count of a code, its ledger, the handlers at work and the faults    *)
(* account for each other in every reachable state: redeemActivationCode   *)
(* and approveActivationRequest, interleaved and cut short anywhere.       *)
THEOREM AccountedCorrect == Spec => [](TypeOK /\ Accounted)
<1>1. Inv => TypeOK /\ Accounted
  BY DEF Inv
<1>2. QED
  BY <1>1, InvInit, InvNext, PTL DEF Spec

(* Every reachable state is well typed.                                    *)
THEOREM TypeCorrect == Spec => []TypeOK
<1>1. TypeOK /\ Accounted => TypeOK
  OBVIOUS
<1>2. QED
  BY <1>1, AccountedCorrect, PTL

(* Nothing that runs at once gives a code to more accounts than its quota, *)
(* the handlers and the faults allow.                                      *)
THEOREM Bounded == Spec => []QuotaBounded
<1>1. TypeOK /\ Accounted => QuotaBounded
  <2> SUFFICES ASSUME TypeOK, Accounted, NEW c \in Codes, code[c].st # "NONE"
               PROVE  Cardinality(Redeemers(c)) + 1 <= code[c].quota + N * (1 + faults)
    BY DEF QuotaBounded, N
  <2>1. /\ code[c].used \in Nat /\ code[c].quota \in Nat /\ faults \in Nat
        /\ CodeOK(c)
    BY DEF TypeOK, CodeRow, Accounted
  <2>2. N * (1 + faults) = N + N * faults /\ N * faults \in Nat
    BY <2>1, SomeRequests
  <2>3. CASE code[c].direct
    BY <2>1, <2>2, <2>3, SomeRequests, RedeemersFinite DEF CodeOK
  <2>4. CASE ~code[c].direct
    BY <2>1, <2>2, <2>4, SomeRequests, RedeemersFinite, AtWork DEF CodeOK, N
  <2>5. QED
    BY <2>3, <2>4
<1>2. QED
  BY <1>1, AccountedCorrect, PTL

(* No use of a code is counted that is not on the ledger.                  *)
THEOREM Backing == Spec => []CountBacked
<1>1. TypeOK /\ Accounted => CountBacked
  <2> SUFFICES ASSUME TypeOK, Accounted, NEW c \in Codes, ~code[c].direct
               PROVE  code[c].used <= Cardinality(Redeemers(c))
    BY DEF CountBacked
  <2>1. code[c].used \in Nat /\ CodeOK(c)
    BY DEF TypeOK, CodeRow, Accounted
  <2>2. QED
    BY <2>1, AtWork, RedeemersFinite DEF CodeOK
<1>2. QED
  BY <1>1, AccountedCorrect, PTL

(* An application that is GRANTED directly has its account on the ledger.  *)
THEOREM Access == Spec => []GrantedHasAccess
<1>1. TypeOK /\ Accounted => GrantedHasAccess
  BY ActivationAssumption DEF GrantedHasAccess, Accounted, ApplicationOK
<1>2. QED
  BY <1>1, AccountedCorrect, PTL

(* Who holds a used-up code, or is being given it, can only become fewer.  *)
LEMMA ClosedNext ==
    ASSUME Inv, [Next]_vars,
           NEW c \in Codes, code[c].st # "NONE", code[c].used >= code[c].quota
    PROVE  Claims(c)' \subseteq Claims(c) /\ code'[c].used >= code'[c].quota
<1> USE DEF Inv, TypeOK
<1> DEFINE Claiming(h) == h.c = c /\ h.pc \in {"red_ledger", "red_write", "direct_ledger"}
           Stays == /\ code'[c].quota = code[c].quota
                    /\ code'[c].used = code[c].used
           Fewer == \A q \in Requests :
                       Claiming(proc'[q]) => Claiming(proc[q]) /\ proc'[q].e = proc[q].e
<1>1. ASSUME ledger' = ledger, Fewer PROVE Claims(c)' \subseteq Claims(c)
  BY <1>1 DEF Claims, Redeemers
<1>2. code[c].used \in Nat /\ code[c].quota \in Nat
  BY DEF CodeRow
<1>3. ASSUME NEW p \in Requests, NEW d \in Codes, NEW e \in Emails, Redeem(p, d, e)
      PROVE  Claims(c)' \subseteq Claims(c) /\ Stays
  <2>1. UNCHANGED <<code, ledger>>
    BY <1>3 DEF Redeem
  <2>2. Fewer
    <3>1. (~code[d].multi \/ code[d].used + 1 >= code[d].quota) \in BOOLEAN
      OBVIOUS
    <3>2. \/ proc' = [proc EXCEPT ![p] = [Idle EXCEPT !.pc = "red_expire", !.c = d]]
          \/ /\ code[d].used < code[d].quota
             /\ \E last \in BOOLEAN : proc' = [proc EXCEPT ![p] = [Idle EXCEPT
                                  !.pc = "red_ledger", !.c = d, !.e = e, !.last = last]]
      BY <1>3, <3>1 DEF Redeem
    <3>3. proc'[p].c = d /\ (proc'[p].pc = "red_expire" \/ d # c)
      <4>1. CASE proc' = [proc EXCEPT ![p] = [Idle EXCEPT !.pc = "red_expire", !.c = d]]
        BY <4>1 DEF Idle
      <4>2. ASSUME NEW last \in BOOLEAN,
                   proc' = [proc EXCEPT ![p] = [Idle EXCEPT
                              !.pc = "red_ledger", !.c = d, !.e = e, !.last = last]]
            PROVE  proc'[p].c = d
        BY <4>2 DEF Idle
      <4>3. code[d].used < code[d].quota => d # c
        BY <1>2
      <4>4. QED
        BY <3>2, <4>1, <4>2, <4>3
    <3>4. \A q \in Requests : q # p => proc'[q] = proc[q]
      BY <3>2
    <3>5. QED
      BY <3>3, <3>4
  <2>3. QED
    BY <1>1, <2>1, <2>2
<1>4. ASSUME NEW p \in Requests, RedeemLedger(p) \/ DirectLedger(p)
      PROVE  Claims(c)' \subseteq Claims(c) /\ Stays
  <2>1. code' = code /\ ledger' = ledger \cup {<<proc[p].c, proc[p].e>>}
    BY <1>4 DEF RedeemLedger, DirectLedger
  <2>2. proc[p].pc \in {"red_ledger", "direct_ledger"}
    BY <1>4 DEF RedeemLedger, DirectLedger, At
  <2>3. Fewer
    BY <1>4, <2>2 DEF RedeemLedger, DirectLedger, Goto, Return, Idle, Handler
  <2>4. Redeemers(c)' \subseteq Claims(c)
    BY <2>1, <2>2 DEF Claims, Redeemers
  <2>5. QED
    BY <2>1, <2>3, <2>4 DEF Claims
<1>5. ASSUME NEW p \in Requests, RedeemWrite(p)
      PROVE  Claims(c)' \subseteq Claims(c) /\ code'[c].used >= code'[c].quota
  <2>1. ledger' = ledger
    BY <1>5 DEF RedeemWrite
  <2>2. Fewer
    BY <1>5 DEF RedeemWrite, Return, Idle
  <2>3. code'[c].quota = code[c].quota /\ code'[c].used \in {code[c].used, code[c].used + 1}
    BY <1>5 DEF RedeemWrite, CodeRow
  <2>4. QED
    BY <1>1, <1>2, <2>1, <2>2, <2>3
<1>6. ASSUME NEW p \in Requests, CodeMint(p) \/ DirectMint(p)
      PROVE  Claims(c)' \subseteq Claims(c) /\ Stays
  <2>1. PICK d \in Codes :
            /\ code[d].st = "NONE"
            /\ \E r : code' = [code EXCEPT ![d] = r]
            /\ \/ proc' = [proc EXCEPT ![p].pc = "grant_write", ![p].c = d]
               \/ proc' = [proc EXCEPT ![p].pc = "direct_ledger", ![p].c = d]
    BY <1>6 DEF CodeMint, DirectMint, NewCode
  <2>2. d # c /\ ledger' = ledger
    BY <1>6, <2>1 DEF CodeMint, DirectMint
  <2>3. Fewer
    <3>1. proc'[p].c = d
      BY <2>1 DEF Handler
    <3>2. \A q \in Requests : q # p => proc'[q] = proc[q]
      BY <2>1
    <3>3. QED
      BY <2>2, <3>1, <3>2
  <2>4. QED
    BY <1>1, <2>1, <2>2, <2>3
<1>7. ASSUME NEW d \in Codes, Generate(d) PROVE Claims(c)' \subseteq Claims(c) /\ Stays
  <2>1. code[d].st = "NONE" /\ (\E r : code' = [code EXCEPT ![d] = r])
        /\ UNCHANGED <<ledger, proc>>
    BY <1>7 DEF Generate, NewCode
  <2>2. QED
    BY <1>1, <2>1
<1>8. ASSUME QuietNext PROVE Claims(c)' \subseteq Claims(c) /\ Stays
  <2>1. ledger' = ledger
    BY <1>8 DEF QuietNext, RedeemExpire, GrantWrite, HandlerThrows, Approve, Authorize,
                Lapse, Sweep, Reject, Apply, Crash, vars
  <2>2. ASSUME NEW p \in Requests,
               \/ RedeemExpire(p) \/ GrantWrite(p) \/ HandlerThrows(p)
               \/ \E a \in Applications : Approve(p, a)
        PROVE  Fewer /\ Stays
    <3>1. \A q \in Requests : q # p => proc'[q] = proc[q]
      BY <2>2 DEF RedeemExpire, GrantWrite, HandlerThrows, Return, Approve
    <3>2. proc'[p].pc \in {"idle", "code_mint", "direct_mint"}
      <4>1. CASE RedeemExpire(p) \/ GrantWrite(p) \/ HandlerThrows(p)
        BY <4>1 DEF RedeemExpire, GrantWrite, HandlerThrows, Return, Idle
      <4>2. ASSUME NEW a \in Applications, Approve(p, a)
            PROVE  proc'[p].pc \in {"idle", "code_mint", "direct_mint"}
        BY <4>2 DEF Approve, Idle
      <4>3. QED
        BY <2>2, <4>1, <4>2
    <3>3. Stays
      <4>1. CASE RedeemExpire(p)
        BY <4>1 DEF RedeemExpire, CodeRow
      <4>2. CASE code' = code
        BY <4>2
      <4>3. QED
        BY <2>2, <4>1, <4>2 DEF GrantWrite, HandlerThrows, Approve
    <3>4. QED
      BY <3>1, <3>2, <3>3
  <2>3. ASSUME \/ \E d \in Codes : Authorize(d) \/ Lapse(d)
               \/ Sweep
               \/ \E a \in Applications : Reject(a) \/ \E e \in Emails : Apply(a, e)
               \/ UNCHANGED vars
        PROVE  Fewer /\ Stays
    <3>1. proc' = proc
      BY <2>3 DEF Authorize, Lapse, Sweep, Reject, Apply, vars
    <3>2. Stays
      BY <2>3 DEF Authorize, Lapse, Sweep, Reject, Apply, vars, CodeRow
    <3>3. QED
      BY <3>1, <3>2
  <2>4. ASSUME Crash PROVE Fewer /\ Stays
    BY <2>4 DEF Crash, Idle
  <2>5. Fewer /\ Stays
    BY <1>8, <2>2, <2>3, <2>4 DEF QuietNext
  <2>6. QED
    BY <1>1, <2>1, <2>5
<1>9. Stays => code'[c].used >= code'[c].quota
  OBVIOUS
<1>10. QED
  BY <1>3, <1>4, <1>5, <1>6, <1>7, <1>8, <1>9 DEF Next, RequestStep, QuietNext

(* Once a code's count has reached its quota, no account joins those who   *)
(* have it or were already being given it.                                 *)
THEOREM Closed == Spec => UsedUpIsClosed
<1>1. Inv /\ [Next]_vars =>
          [\A c \in Codes :
              code[c].st # "NONE" /\ code[c].used >= code[c].quota =>
                  /\ Claims(c)' \subseteq Claims(c)
                  /\ code'[c].used >= code'[c].quota]_vars
  BY ClosedNext
<1>2. QED
  BY <1>1, InvInit, InvNext, PTL DEF Spec, UsedUpIsClosed

=============================================================================
