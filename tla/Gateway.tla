-------------------------------- MODULE Gateway --------------------------------
(***************************************************************************)
(* Who reaches which router through the central:                           *)
(*   central/src/services/jump_access.py     the nft table                  *)
(*   central/src/services/local_dns.py       the hosts file of the resolver *)
(*   central/src/services/state_snapshot.py  what both are computed from    *)
(*                                                                         *)
(* Two loops reconcile the table and the hosts file with the snapshot and  *)
(* the reservations every 20 s; the handlers that book, release and edit   *)
(* do it at once.  The handlers run on one event loop and wait for the     *)
(* table's lock there, so that one of them at a time is in a reconcile.    *)
(*                                                                         *)
(* Data abstraction.  A lab stands for its routers, whose addresses are    *)
(* the lab's own; the table's sets per user say who of the Users (active,  *)
(* no admin, with a Linux account) may open a connection to a lab.  One    *)
(* that is open goes on whatever the table says (its first rule accepts ct *)
(* state established), so this module has new connections only.  The labs  *)
(* run all the time; their agents answer the collector or not.             *)
(***************************************************************************)
EXTENDS Reservations

CONSTANTS
    VMs,
    VmOf,       \* VmOf[l]: the vm that runs lab l
    MaxRestarts, \* bound: restarts of the central
    NoSnapshot, NoTable, Nobody

ASSUME GatewayAssumption ==
    /\ VmOf \in [Labs -> VMs]
    /\ MaxRestarts \in Nat
    /\ \A S \in SUBSET Labs : S # NoSnapshot
    /\ Nobody \notin Users

VARIABLES
    snapshot, \* _SNAPSHOT: the labs the agents reported
    table,    \* the nft table vlm_jump
    hosts,    \* the labs in the hosts file
    lock,     \* the _LOCK of jump_access: its holder
    task,     \* task[a]: where activity a is in a reconcile
    restarts

netVars == <<snapshot, table, hosts, lock, task, restarts>>
vars == <<res, now, netVars>>

Free == "free"

\* The loop of jump_access, the handlers, the loop of local_dns.
Activities == {"jump", "api", "dns"}
Idle == [pc |-> "idle"]

\* holder[l]: whose set of the table has the routers of l; at: when the
\* reservations were read, or that this central has not loaded the table.
Rules == {[holder |-> h, at |-> t] :
            h \in UNION {[S -> Users \cup {Nobody}] : S \in SUBSET Labs},
            t \in 0 .. Horizon}
NotOurs == Horizon + 1

-----------------------------------------------------------------------------
(* state_snapshot                                                          *)

\* fetch_agent_state: an agent that does not answer has no labs.
Reported(answering) == {l \in Labs : VmOf[l] \in answering}

\* refresh_now_async.  When the snapshot was collected makes no difference
\* here, the agents being free to answer or not at any time.
Refresh(answering) ==
    /\ snapshot' = Reported(answering)
    /\ UNCHANGED <<resVars, table, hosts, lock, task, restarts>>

-----------------------------------------------------------------------------
(* jump_access                                                             *)

Go(a, t) == task' = [task EXCEPT ![a] = t]

\* What follows the table: the loop sleeps, the handler goes on to the hosts.
AfterTable(a) == IF a = "api" THEN [pc |-> "resolve"] ELSE Idle

\* The loop wakes up.
Wake ==
    /\ task["jump"] = Idle
    /\ Go("jump", [pc |-> "lock"])
    /\ UNCHANGED <<resVars, snapshot, table, hosts, lock, restarts>>

\* reconcile_now: take the lock and read the snapshot.
AcquireMutant(a) ==   \* without the lock
    /\ task[a].pc = "lock"
    /\ snapshot # NoSnapshot
    /\ lock' = a
    /\ Go(a, [pc |-> "attach", labs |-> snapshot])
    /\ UNCHANGED <<resVars, snapshot, table, hosts, restarts>>

Acquire(a) ==
    /\ task[a].pc = "lock"
    /\ lock = Free
    /\ IF snapshot = NoSnapshot
       THEN Go(a, AfterTable(a)) /\ UNCHANGED lock
       ELSE lock' = a /\ Go(a, [pc |-> "attach", labs |-> snapshot])
    /\ UNCHANGED <<resVars, snapshot, table, hosts, restarts>>

\* attach_reservations on every lab of the snapshot; it prunes the store.
\* Where several entries are active it keeps one that began last.
HolderOf(l) ==
    IF ActiveOn(l) = {} THEN {Nobody} ELSE {e.owner : e \in LatestActive(l)}

Attach(a) ==
    /\ task[a].pc = "attach"
    /\ \E h \in [task[a].labs -> Users \cup {Nobody}] :
        /\ \A l \in task[a].labs : h[l] \in HolderOf(l)
        /\ Go(a, [pc |-> "delete", rules |-> [holder |-> h, at |-> now]])
    /\ res' = Unexpired
    /\ UNCHANGED <<now, snapshot, table, hosts, lock, restarts>>

\* _apply_rules: delete the table, then load the new one.
DeleteTable(a) ==
    /\ task[a].pc = "delete"
    /\ table' = NoTable
    /\ Go(a, [pc |-> "load", rules |-> task[a].rules])
    /\ UNCHANGED <<resVars, snapshot, hosts, lock, restarts>>

LoadTable(a) ==
    /\ task[a].pc = "load"
    /\ table' = task[a].rules
    /\ Go(a, [pc |-> "hosts", rules |-> task[a].rules])
    /\ UNCHANGED <<resVars, snapshot, hosts, lock, restarts>>

\* nft refuses: reconcile_now raises, the loop and the handler log it.
LoadFailsHoldingMutant(a) ==   \* the lock is not released
    /\ task[a].pc = "load"
    /\ Go(a, AfterTable(a))
    /\ UNCHANGED <<resVars, snapshot, table, hosts, lock, restarts>>

LoadFailsEndsLoopMutant(a) ==   \* the exception ends the loop, which never wakes again
    /\ task[a].pc = "load"
    /\ lock' = Free
    /\ Go(a, [pc |-> "resolve"])
    /\ UNCHANGED <<resVars, snapshot, table, hosts, restarts>>

LoadFails(a) ==
    /\ task[a].pc = "load"
    /\ lock' = Free
    /\ Go(a, AfterTable(a))
    /\ UNCHANGED <<resVars, snapshot, table, hosts, restarts>>

\* reconcile_from_items ends with the hosts file, without the lock of
\* local_dns; errors of the file or of the resolver's reload are logged.
WriteHosts(a) ==
    /\ task[a].pc = "hosts"
    /\ hosts' \in {hosts, DOMAIN task[a].rules.holder}
    /\ lock' = Free
    /\ Go(a, AfterTable(a))
    /\ UNCHANGED <<resVars, snapshot, table, restarts>>

-----------------------------------------------------------------------------
(* local_dns                                                               *)

\* reconcile_now_async reads the snapshot before it takes its own lock.
Resolve(a) ==
    /\ IF a = "dns" THEN task[a] = Idle ELSE task[a].pc = "resolve"
    /\ IF snapshot = NoSnapshot
       THEN a = "api" /\ Go(a, Idle)
       ELSE Go(a, [pc |-> "names", labs |-> snapshot])
    /\ UNCHANGED <<resVars, snapshot, table, hosts, lock, restarts>>

\* Under the lock: prune the store, write the file if it differs.
WriteNames(a) ==
    /\ task[a].pc = "names"
    /\ res' = Unexpired
    /\ hosts' = task[a].labs
    /\ Go(a, Idle)
    /\ UNCHANGED <<now, snapshot, table, lock, restarts>>

\* Writing raises, which the loop and the handlers log.
WriteNamesFailsMutant(a) ==   \* the exception ends the loop
    /\ task[a].pc = "names" /\ hosts # task[a].labs
    /\ res' = Unexpired
    /\ Go(a, IF a = "dns" THEN [pc |-> "resolve"] ELSE Idle)
    /\ UNCHANGED <<now, snapshot, table, hosts, lock, restarts>>

WriteNamesFails(a) ==
    /\ task[a].pc = "names" /\ hosts # task[a].labs
    /\ res' = Unexpired
    /\ Go(a, Idle)
    /\ UNCHANGED <<now, snapshot, table, hosts, lock, restarts>>

-----------------------------------------------------------------------------
(* The handlers, and the central as a whole.                               *)

\* create_lab_reservation and delete_lab_reservation reconcile both ...
BookOrRelease(A) ==
    /\ task["api"] = Idle
    /\ A
    /\ Go("api", [pc |-> "lock"])
    /\ UNCHANGED <<snapshot, table, hosts, lock, restarts>>

\* ... update_sandbox_yaml the hosts file, after an apply.
SandboxApplied ==
    /\ task["api"] = Idle
    /\ Go("api", [pc |-> "resolve"])
    /\ UNCHANGED <<resVars, snapshot, table, hosts, lock, restarts>>

\* The other reservation handlers and readers leave the gateway alone.  A move
\* of a scheduled entry to this very microsecond, which would begin it without
\* a reconcile, is left out.
OtherHandler(A) == task["api"] = Idle /\ A /\ UNCHANGED netVars

\* The files, the table and the hosts stay; threads and the snapshot go.
Restart ==
    /\ restarts < MaxRestarts
    /\ restarts' = restarts + 1
    /\ snapshot' = NoSnapshot
    /\ table' = IF table = NoTable THEN NoTable
                ELSE [holder |-> table.holder, at |-> NotOurs]
    /\ lock' = Free
    /\ task' = [a \in Activities |-> Idle]
    /\ UNCHANGED <<resVars, hosts>>

GatewayInit ==
    /\ res = {} /\ now = 0
    /\ snapshot = NoSnapshot
    /\ table = NoTable
    /\ hosts = {}
    /\ lock = Free
    /\ task = [a \in Activities |-> Idle]
    /\ restarts = 0

Reconcile(a) ==
    \/ Acquire(a) \/ Attach(a) \/ DeleteTable(a)
    \/ LoadTable(a) \/ LoadFails(a) \/ WriteHosts(a)

GatewayNext ==
    \/ (Tick \/ Prune) /\ UNCHANGED netVars
    \/ \E u \in Users, l \in Labs, s \in 0 .. Horizon, h \in 1 .. MaxHours :
          BookOrRelease(ReserveLab(u, l, s, h))
    \/ \E l \in Labs : BookOrRelease(ReleaseLab(l))
    \/ \E l \in Labs, i \in Ids : OtherHandler(CancelScheduled(l, i))
    \/ \E l \in Labs, i \in Ids, s \in (now + 1) .. Horizon, h \in 1 .. MaxHours :
          OtherHandler(UpdateScheduled(l, i, s, h))
    \/ \E l \in Labs, a \in 1 .. MaxTotalHours : OtherHandler(ExtendReservation(l, a))
    \/ SandboxApplied
    \/ \E answering \in SUBSET VMs : Refresh(answering)
    \/ Wake
    \/ \E a \in {"jump", "api"} : Reconcile(a)
    \/ \E a \in {"api", "dns"} : Resolve(a) \/ WriteNames(a) \/ WriteNamesFails(a)
    \/ Restart

\* The loops wake every 20 s and each step of a reconcile ends.  The lock is
\* free for those 20 s, so that nobody misses it for ever.  (nft and the
\* resolver's reload run without a timeout: one that hangs is left out.)
Fairness ==
    /\ WF_vars(snapshot = NoSnapshot /\ \E answering \in SUBSET VMs : Refresh(answering))
    /\ WF_vars(Wake)
    /\ \A a \in {"jump", "api"} :
        /\ SF_vars(Acquire(a))
        /\ WF_vars(Attach(a) \/ DeleteTable(a) \/ LoadTable(a) \/ LoadFails(a) \/ WriteHosts(a))
    /\ \A a \in {"api", "dns"} :
        WF_vars(Resolve(a) \/ WriteNames(a) \/ WriteNamesFails(a))

GatewaySpec == GatewayInit /\ [][GatewayNext]_vars
FairGatewaySpec == GatewaySpec /\ Fairness

-----------------------------------------------------------------------------
(* Properties.                                                             *)

Critical == {"attach", "delete", "load", "hosts"}

Task ==
    {[pc |-> p] : p \in {"idle", "lock", "resolve"}}
    \cup {[pc |-> p, labs |-> S] : p \in {"attach", "names"}, S \in SUBSET Labs}
    \cup {[pc |-> p, rules |-> r] : p \in {"delete", "load", "hosts"}, r \in Rules}

\* Types, and the lock's holder is the one activity inside reconcile_now.
GatewayTypeOK ==
    /\ TypeOK
    /\ snapshot = NoSnapshot \/ snapshot \subseteq Labs
    /\ \/ table = NoTable
       \/ table \in Rules \cup {[r EXCEPT !.at = NotOurs] : r \in Rules}
    /\ hosts \subseteq Labs
    /\ task \in [Activities -> Task]
    /\ restarts \in 0 .. MaxRestarts
    /\ \A a \in Activities : task[a].pc \in Critical <=> lock = a

\* The rules give each lab to a user who holds it, and to somebody if
\* anybody does.
Matches(holder) ==
    \A l \in DOMAIN holder : holder[l] \in HolderOf(l)

\* No reconcile that read the reservations before a booking or a release
\* outlives it: once the handler is back from reconcile_now, the table is what
\* the reservations say, until the clock moves (jump_access._LOCK spans the
\* reading and the loading).
TableIsCurrent ==
    /\ task["api"].pc \in {"idle", "resolve", "names"}
    /\ table # NoTable
    /\ table.at = now
    => Matches(table.holder)

\* A new connection of user u to a router of lab l passes: there is no table,
\* the table does not know the router, or it has it in the user's set.
LetIn(u, l) ==
    \/ table = NoTable
    \/ l \notin DOMAIN table.holder
    \/ table.holder[l] = u

\* Whoever is let in without a reservation, by an expiry, a refused load or a
\* lab new to the table, is shut out in the end, once nft accepts what it is
\* given and the lab's agent goes on answering (the loop of jump_access).  What
\* was connected before stays connected.
ExpiryIsEnforced ==
    \A u \in Users, l \in Labs :
        /\ <>[](snapshot # NoSnapshot /\ l \in snapshot)
        /\ <>[][\A a \in {"jump", "api"} : ~LoadFails(a)]_vars
        => ((LetIn(u, l) /\ u \notin HolderOf(l)) ~> (~LetIn(u, l) \/ u \in HolderOf(l)))

\* The event loop blocks on the lock of a thread that talks to nft: every
\* handler gets through.
HandlersReturn == (task["api"] # Idle) ~> (task["api"] = Idle)

\* Three writers, two of them unlocked, bring the hosts file to a snapshot
\* that stays, once writing does not fail any more.
HostsFollowSnapshot ==
    \A S \in SUBSET Labs :
        /\ <>[](snapshot = S)
        /\ <>[][\A a \in {"api", "dns"} : ~WriteNamesFails(a)]_vars
        => []<>(hosts = S)

================================================================================
