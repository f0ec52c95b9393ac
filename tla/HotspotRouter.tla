---------------------------- MODULE HotspotRouter ----------------------------
(***************************************************************************)
(* How the router learns of a voucher, and what is cleared away again: the *)
(* provisioning worker's push and the session it records, the script the   *)
(* router pulls and runs, the cleanup timer, and the administrator's       *)
(* disconnect.  The router is a RouterOS as the adapter's calls see it.    *)
(***************************************************************************)
EXTENDS AccessStore

JobOf(w) == <<proc[w].kind, proc[w].code>>

Complete(w) ==
    /\ Return(w)
    /\ pq' = [pq EXCEPT ![JobOf(w)] = "none"]

(* A job is pushed to the router of its voucher's venue, an order's for    *)
(* the buyer's MAC, a voucher's for its holder's.                          *)
TakeJob(w, j) ==
    LET c == j[2] IN
    /\ On("push", c)
    /\ Free(w)
    /\ voucher[c].venue = Home
    /\ pq[j] = "waiting"
    /\ pq' = [pq EXCEPT ![j] = "active"]
    /\ proc' = [proc EXCEPT ![w] = [Idle EXCEPT !.pc = "push", !.kind = j[1], !.code = c,
                  !.mac = IF j[1] = "order" THEN voucher[c].buyer ELSE voucher[c].mac]]
    /\ UNCHANGED <<voucher, session, alert, router, cleaning, printed, faults>>

(* createHotspotUser is refused when the name is taken, and may fail       *)
(* before or after the router did it.  An order's failure alerts the       *)
(* owner; neither fails the job.                                           *)
Push(w) ==
    LET c == proc[w].code
        made == [user EXCEPT ![c] = "live"]
        degraded == IF proc[w].kind = "order" THEN "alert" ELSE "session"
    IN
    /\ At(w, "push")
    /\ \/ /\ user[c] = "none"
          /\ user' = made
          /\ Goto(w, IF proc[w].mac # None THEN "bind" ELSE "session")
          /\ UNCHANGED faults
       \/ /\ user[c] # "none"
          /\ Goto(w, degraded)
          /\ UNCHANGED <<user, faults>>
       \/ /\ Fault
          /\ user' \in {user, IF user[c] = "none" THEN made ELSE user}
          /\ Goto(w, degraded)
    /\ UNCHANGED <<voucher, session, pq, alert, binding, script, cleaning, printed>>

(* addIpBinding: a MAC has one binding; a second is refused and ignored,   *)
(* as is a router that fails.                                              *)
Bind(w) ==
    LET m == proc[w].mac IN
    /\ At(w, "bind")
    /\ \/ /\ binding' = [binding EXCEPT ![m] =
                           IF @ = None THEN [tag |-> "WP", code |-> proc[w].code] ELSE @]
          /\ UNCHANGED faults
       \/ Fault /\ UNCHANGED binding
    /\ Goto(w, "session")
    /\ UNCHANGED <<voucher, session, pq, alert, user, script, cleaning, printed>>

(* Mutant: the alert is created without looking.                           *)
AlertReadSkipped(w) ==
    /\ At(w, "alert")
    /\ Goto(w, "alert_write")
    /\ UNCHANGED <<voucher, session, pq, alert, router, cleaning, printed, faults>>

(* notifyOnce: look for an unread one, then create; a failure of either is *)
(* swallowed.                                                              *)
AlertRead(w) ==
    /\ At(w, "alert")
    /\ Goto(w, IF alert[proc[w].code] > 0 THEN "session" ELSE "alert_write")
    /\ UNCHANGED <<voucher, session, pq, alert, router, cleaning, printed, faults>>

AlertWrite(w) ==
    /\ At(w, "alert_write")
    /\ \/ alert' = [alert EXCEPT ![proc[w].code] = @ + 1] /\ UNCHANGED faults
       \/ Fault /\ UNCHANGED alert
    /\ Goto(w, "session")
    /\ UNCHANGED <<voucher, session, pq, router, cleaning, printed>>

(* The owner reads what there is.                                          *)
MarkAllRead ==
    /\ Somewhere("read alerts")
    /\ alert' = [c \in Codes |-> 0]
    /\ UNCHANGED <<voucher, session, pq, router, cleaning, proc, printed, faults>>

(* Unclaimed stock becomes ACTIVE with its session.                        *)
Activated(c) == [voucher EXCEPT ![c].st = IF @ = "ISSUED" THEN "ACTIVE" ELSE @]

(* An order's session is looked for by the order, a voucher's by the       *)
(* voucher, which finds the order's too: that one names both.              *)
HasSession(w) ==
    LET j == JobOf(w) IN
    \/ session[j] # <<>>
    \/ j[1] = "voucher" /\ session[<<"order", j[2]>>] # <<>>

(* Mutant: a job that runs again records a second session.                 *)
SessionFindSkipped(w) ==
    /\ At(w, "session")
    /\ Goto(w, "commit")
    /\ UNCHANGED <<voucher, session, pq, alert, router, cleaning, printed, faults>>

SessionFind(w) ==
    LET c == proc[w].code IN
    /\ At(w, "session")
    /\ IF HasSession(w)
       THEN /\ voucher' = IF proc[w].kind = "voucher" THEN Activated(c) ELSE voucher
            /\ Complete(w)
       ELSE Goto(w, "commit") /\ UNCHANGED <<voucher, pq>>
    /\ UNCHANGED <<session, alert, router, cleaning, printed, faults>>

SessionCommit(w) ==
    LET c == proc[w].code IN
    /\ At(w, "commit")
    /\ session' = [session EXCEPT ![JobOf(w)] = Append(@, "ACTIVE")]
    /\ voucher' = IF proc[w].kind = "voucher" THEN Activated(c) ELSE voucher
    /\ Complete(w)
    /\ UNCHANGED <<alert, router, cleaning, printed, faults>>

WorkerStep(w) ==
    \/ \E j \in JobIds : TakeJob(w, j)
    \/ Push(w)
    \/ Bind(w)
    \/ AlertRead(w)
    \/ AlertWrite(w)
    \/ SessionFind(w)
    \/ SessionCommit(w)

------------------------------------------------------------------------------
(* generateRouterSyncScript.  The sweep and the query touch different rows *)
(* and need no step between them.  The script is a snapshot: the router    *)
(* runs it later.                                                          *)
Listed ==
    {c \in Codes : /\ voucher[c].venue = Home
                   /\ voucher[c].st \in Claimed
                   /\ voucher[c].life # "past"}

Row(c) == [code |-> c, mac |-> voucher[c].mac]
Fetch(rows) ==
    /\ Somewhere("pull")
    /\ ~script.held
    /\ voucher' = Swept
    /\ script' = [held |-> TRUE, rows |-> {Row(c) : c \in rows}]
    /\ UNCHANGED <<session, pq, alert, user, binding, cleaning, proc, printed, faults>>

(* Mutant: a first use takes a voucher off the list.                       *)
PullActive == Fetch({c \in Listed : voucher[c].st = "ACTIVE"})

(* Mutant: stock that was never claimed is listed too.                     *)
PullIssued == Fetch({c \in Codes : voucher[c].st # "NONE"})

(* The newest SyncLimit of them; any so many stand for the newest.         *)
Pull ==
    \E rows \in SUBSET Listed :
        /\ rows = Listed \/ Cardinality(rows) = SyncLimit
        /\ Cardinality(rows) <= SyncLimit
        /\ Fetch(rows)

(* A bypass is dropped when the name that its comment holds from the tenth *)
(* character is no user's.  That is the code of a "WavePass:" binding; a   *)
(* "WP:" one with a six-digit code has nothing there and stays, and with a *)
(* longer code it has a name nobody has.                                   *)
Orphans(users) ==
    {b \in Binding : IF b.tag = "WavePass" THEN users[b.code] = "none"
                     ELSE b.code \notin ShortCodes}

(* What the bindings may be once the script's are added and some dropped.  *)
Bindings(dropped) ==
    {new \in [Devices -> Binding \cup {None}] :
        \A m \in Devices :
            LET named == {r.code : r \in {x \in script.rows : x.mac = m}}
                added == IF binding[m] # None THEN {binding[m]}
                         ELSE IF named = {} THEN {None}
                         ELSE {[tag |-> "WavePass", code |-> c] : c \in named}
            IN \E b \in added : new[m] = IF b \in dropped THEN None ELSE b}

WithScriptUsers ==
    [c \in Codes |-> IF user[c] = "none" /\ \E r \in script.rows : r.code = c
                     THEN "live" ELSE user[c]]

(* Mutant: the script only adds.                                           *)
RunScriptAdds ==
    /\ script.held
    /\ user' = WithScriptUsers
    /\ binding' \in Bindings({})
    /\ script' = NoScript
    /\ UNCHANGED <<voucher, session, pq, alert, cleaning, proc, printed, faults>>

(* The router runs it in one go: missing users and bindings are added, the *)
(* first row with a MAC winning it, and then the orphans are dropped.      *)
RunScript ==
    /\ script.held
    /\ user' = WithScriptUsers
    /\ binding' \in Bindings(Orphans(user'))
    /\ script' = NoScript
    /\ UNCHANGED <<voucher, session, pq, alert, cleaning, proc, printed, faults>>

(* A user has used up its limit-uptime.                                    *)
UserSpent(c) ==
    /\ On("spend", c)
    /\ user[c] = "live"
    /\ user' = [user EXCEPT ![c] = "spent"]
    /\ UNCHANGED <<voucher, session, pq, alert, binding, script, cleaning, proc,
                   printed, faults>>

------------------------------------------------------------------------------
(* cleanup, every minute.  First the router: the users it reports as       *)
(* expired are removed, those whose removal fails staying.  A RouterOS row *)
(* has neither of the fields the code looks at, so it may be none.         *)
CleanupRouter ==
    /\ Somewhere("cleanup")
    /\ ~cleaning
    /\ cleaning' = TRUE
    /\ \E gone \in SUBSET {c \in Codes : user[c] = "spent"} :
          user' = [c \in Codes |-> IF c \in gone THEN "none" ELSE user[c]]
    /\ UNCHANGED <<voucher, session, pq, alert, binding, script, proc, printed, faults>>

(* Mutant: the sessions are swept only when a user was removed.            *)
CleanupSessionsIdle ==
    /\ cleaning
    /\ cleaning' = FALSE
    /\ voucher' = Swept
    /\ UNCHANGED <<session, pq, alert, router, proc, printed, faults>>

(* Then the database: overdue sessions and unsold vouchers.                *)
CleanupSessions ==
    /\ cleaning
    /\ cleaning' = FALSE
    /\ session' = [j \in JobIds |->
                     [i \in DOMAIN session[j] |->
                        IF session[j][i] = "OVERDUE" THEN "EXPIRED" ELSE session[j][i]]]
    /\ voucher' = Swept
    /\ UNCHANGED <<pq, alert, router, proc, printed, faults>>

(* A session's expiresAt passes.                                           *)
SessionLapses(j, i) ==
    /\ On("overdue", j[2])
    /\ session[j][i] = "ACTIVE"
    /\ session' = [session EXCEPT ![j][i] = "OVERDUE"]
    /\ UNCHANGED <<voucher, pq, alert, router, cleaning, proc, printed, faults>>

(* disconnectSession asks the router to remove the user named by the       *)
(* session's MAC; users are named by code, so that is a 404 and no error.  *)
(* The row is then ENDED whatever it has become.                           *)
Disconnect(p, j, i) ==
    /\ On("disconnect", j[2])
    /\ Free(p)
    /\ session[j][i] \in {"ACTIVE", "OVERDUE"}
    /\ proc' = [proc EXCEPT ![p] = [Idle EXCEPT !.pc = "disconnect_write",
                  !.kind = j[1], !.code = j[2]]]
    /\ UNCHANGED <<voucher, session, pq, alert, router, cleaning, printed, faults>>

(* Mutant: the row is given a status the schema does not have.             *)
DisconnectWriteClosed(p) ==
    /\ At(p, "disconnect_write")
    /\ \E i \in DOMAIN session[JobOf(p)] :
          session' = [session EXCEPT ![JobOf(p)][i] = "DISCONNECTED"]
    /\ Return(p)
    /\ UNCHANGED <<voucher, pq, alert, router, cleaning, printed, faults>>

DisconnectWrite(p) ==
    /\ At(p, "disconnect_write")
    /\ \E i \in DOMAIN session[JobOf(p)] :
          session' = [session EXCEPT ![JobOf(p)][i] = "ENDED"]
    /\ Return(p)
    /\ UNCHANGED <<voucher, pq, alert, router, cleaning, printed, faults>>

=============================================================================
