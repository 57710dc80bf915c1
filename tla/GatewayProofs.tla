----------------------------- MODULE GatewayProofs -----------------------------
(***************************************************************************)
(* No reconcile of the nft table outlives a booking or a release, for any  *)
(* labs, users, ids and limits.                                            *)
(*                                                                         *)
(* TableIsCurrent is not inductive: a load makes the table what the thread *)
(* computed before, so the thread's rules have to be current as well       *)
(* (RulesCurrent), which they stay because a handler that changes the      *)
(* reservations queues for the lock behind them.  The lock makes the rules *)
(* of the other activity irrelevant.  The clock keeps old tables from      *)
(* being mistaken for current ones (ReadInThePast), and a central without  *)
(* a snapshot has loaded nothing yet (NothingLoaded).                      *)
(***************************************************************************)
EXTENDS Gateway, ReservationsProofs

Loaders == {"jump", "api"}

\* Only reconcile_now holds the lock, and its holder is inside.
LockInv ==
    /\ DOMAIN task = Activities
    /\ \A a \in Activities : task[a].pc \in Critical <=> lock = a
    /\ task["dns"].pc \notin Critical \cup {"lock"}

\* What a thread read, it read before now.
ReadInThePast ==
    /\ now \in 0 .. Horizon
    /\ table # NoTable => table.at \in 0 .. now \/ table.at = NotOurs
    /\ \A a \in Loaders : task[a].pc \in {"delete", "load"} => task[a].rules.at \in 0 .. now

\* The rules to be loaded are current, unless the handler that made them old
\* is about to replace them.
RulesCurrent ==
    \A a \in Loaders :
        /\ task[a].pc \in {"delete", "load"}
        /\ task[a].rules.at = now
        /\ task["api"].pc # "lock"
        => Matches(task[a].rules.holder)

\* The table is current unless a handler has yet to delete it.
LoadedCurrent ==
    /\ task["api"].pc \notin {"lock", "attach", "delete"}
    /\ table # NoTable
    /\ table.at = now
    => Matches(table.holder)

NothingLoaded ==
    snapshot = NoSnapshot =>
        /\ lock = Free
        /\ table # NoTable => table.at = NotOurs

-----------------------------------------------------------------------------
(* Who holds a lab.                                                        *)

\* A step that leaves the active entries of a lab leaves its holder.
LEMMA SameActiveSameHolder ==
    ASSUME NEW l, ActiveOn(l)' = ActiveOn(l)
    PROVE  HolderOf(l)' = HolderOf(l)
  BY DEF HolderOf, LatestActive

LEMMA PruneKeepsHolders ==
    ASSUME res' = Unexpired \/ res' = res, now' = now, NEW l
    PROVE  HolderOf(l)' = HolderOf(l)
<1>1. ActiveOn(l)' = ActiveOn(l)
  BY DEF ActiveOn, Unexpired, IsActive
<1> QED
  BY <1>1, SameActiveSameHolder

LEMMA CancelKeepsHolders ==
    ASSUME Inv, NEW k, NEW i, CancelScheduled(k, i), NEW l
    PROVE  HolderOf(l)' = HolderOf(l)
<1>1. ActiveOn(l)' = ActiveOn(l)
  BY DEF CancelScheduled, ScheduledOn, ActiveOn, Unexpired, IsActive, Inv, TypeOK, Entry
<1> QED
  BY <1>1, SameActiveSameHolder

LEMMA MoveKeepsHolders ==
    ASSUME Inv, NEW k, NEW i, NEW s \in Nat, s > now, NEW h \in 1 .. MaxHours,
           UpdateScheduled(k, i, s, h), NEW l
    PROVE  HolderOf(l)' = HolderOf(l)
<1>1. PICK e \in ScheduledOn(k) :
        res' = (Unexpired \ {e}) \cup
                 {[e EXCEPT !.start = s, !.end = s + h, !.hours = h]}
  BY DEF UpdateScheduled
<1> DEFINE n == [e EXCEPT !.start = s, !.end = s + h, !.hours = h]
<1>2. e \in Entry /\ e.start > now /\ now \in Nat /\ now' = now /\ n.start = s
  BY DEF ScheduledOn, Unexpired, Inv, TypeOK, UpdateScheduled, Entry
<1>3. ~IsActive(e) /\ ~IsActive(n) /\ now' = now
  BY <1>2 DEF IsActive, Entry
<1>4. ActiveOn(l)' = ActiveOn(l)
  <2> HIDE DEF n
  <2> QED
    BY <1>1, <1>3 DEF ActiveOn, Unexpired, IsActive, n
<1> QED
  BY <1>4, SameActiveSameHolder

LEMMA ExtensionKeepsHolders ==
    ASSUME Inv, NEW k, NEW a \in 1 .. MaxTotalHours, ExtendReservation(k, a), NEW l
    PROVE  HolderOf(l)' = HolderOf(l)
<1>1. PICK e \in FirstActive(k) :
        \E t \in 0 .. MaxTotalHours :
            res' = (Unexpired \ {e}) \cup
                     {[e EXCEPT !.end = @ + a, !.hours = t, !.extended = TRUE]}
  BY DEF ExtendReservation, Rounded
<1>0. PICK t \in 0 .. MaxTotalHours :
        res' = (Unexpired \ {e}) \cup
                 {[e EXCEPT !.end = @ + a, !.hours = t, !.extended = TRUE]}
  BY <1>1
<1> DEFINE n == [e EXCEPT !.end = @ + a, !.hours = t, !.extended = TRUE]
<1>2. /\ e \in Entry /\ e \in Unexpired /\ e.lab = k /\ IsActive(e)
      /\ now \in Nat /\ now' = now /\ a \in Nat
  BY LimitsAssumption
     DEF FirstActive, ActiveOn, Unexpired, Inv, TypeOK, ExtendReservation
<1>3. n.lab = e.lab /\ n.owner = e.owner /\ n.start = e.start /\ n.end = e.end + a
  BY <1>2 DEF Entry
<1>4. IsActive(n) /\ n.end >= now
  BY <1>2, <1>3 DEF IsActive, Entry
<1> HIDE DEF n
<1>5. CASE l # k
  <2>1. ActiveOn(l)' = ActiveOn(l)
    BY <1>0, <1>2, <1>3, <1>5 DEF ActiveOn, Unexpired, IsActive, n
  <2> QED
    BY <2>1, SameActiveSameHolder
<1>6. CASE l = k
  <2>1. ActiveOn(l)' = (ActiveOn(l) \ {e}) \cup {n}
    BY <1>0, <1>2, <1>3, <1>4, <1>6 DEF ActiveOn, Unexpired, IsActive, n
  <2>2. e \in ActiveOn(l)
    BY <1>2, <1>6 DEF ActiveOn
  <2>3. \A f \in ActiveOn(l) : \E g \in ActiveOn(l)' : g.start = f.start /\ g.owner = f.owner
    BY <1>3, <2>1, <2>2
  <2>4. \A g \in ActiveOn(l)' : \E f \in ActiveOn(l) : g.start = f.start /\ g.owner = f.owner
    BY <1>3, <2>1, <2>2
  <2>5. {f.owner : f \in LatestActive(l)'} = {f.owner : f \in LatestActive(l)}
    BY <2>3, <2>4 DEF LatestActive
  <2> QED
    BY <2>1, <2>2, <2>5 DEF HolderOf
<1> QED
  BY <1>5, <1>6

-----------------------------------------------------------------------------
(* Steps of the whole gateway.                                             *)

\* Every step is a step of the reservation store as well.
LEMMA GatewayStepIsStoreStep == Inv /\ [GatewayNext]_vars => [Next]_resVars
<1> SUFFICES ASSUME Inv, [GatewayNext]_vars PROVE [Next]_resVars
  OBVIOUS
<1>1. ASSUME NEW u \in Users, NEW l \in Labs, NEW s \in 0 .. Horizon,
             NEW h \in 1 .. MaxHours, ReserveLab(u, l, s, h)
      PROVE  Next
  <2>1. h \in 0 .. MaxHours + 1
    BY LimitsAssumption
  <2> QED
    BY <1>1, <2>1 DEF Next
<1>2. ASSUME NEW l \in Labs, NEW i \in Ids, NEW s \in (now + 1) .. Horizon,
             NEW h \in 1 .. MaxHours, UpdateScheduled(l, i, s, h)
      PROVE  Next
  <2>1. s \in 0 .. Horizon
    BY LimitsAssumption DEF Inv, TypeOK
  <2>2. h \in 0 .. MaxHours + 1
    BY LimitsAssumption
  <2> QED
    BY <1>2, <2>1, <2>2 DEF Next
<1>3. ASSUME NEW l \in Labs, NEW a \in 1 .. MaxTotalHours, ExtendReservation(l, a)
      PROVE  Next
  <2>1. a \in 0 .. MaxTotalHours
    BY LimitsAssumption
  <2> QED
    BY <1>3, <2>1 DEF Next
<1>4. ASSUME NEW l \in Labs, ReleaseLab(l) PROVE Next
  BY <1>4 DEF Next
<1>5. ASSUME NEW l \in Labs, NEW i \in Ids, CancelScheduled(l, i) PROVE Next
  BY <1>5 DEF Next
<1>6. ASSUME res' = Unexpired, UNCHANGED now PROVE [Next]_resVars
  BY <1>6 DEF Next, Prune, resVars
<1>7. CASE Tick \/ Prune
  BY <1>7 DEF Next
<1>8. ASSUME NEW a \in Loaders, Reconcile(a) PROVE [Next]_resVars
  BY <1>6, <1>8
     DEF Reconcile, Acquire, Attach, DeleteTable, LoadTable, LoadFails, WriteHosts
<1>9. ASSUME NEW a \in {"api", "dns"}, Resolve(a) \/ WriteNames(a) \/ WriteNamesFails(a)
      PROVE  [Next]_resVars
  BY <1>6, <1>9 DEF Resolve, WriteNames, WriteNamesFails
<1>10. CASE SandboxApplied \/ Wake \/ Restart
            \/ \E answering \in SUBSET VMs : Refresh(answering)
  BY <1>10 DEF SandboxApplied, Wake, Restart, Refresh
<1>11. CASE UNCHANGED vars
  BY <1>11 DEF vars, resVars
<1> QED
  BY <1>1, <1>2, <1>3, <1>4, <1>5, <1>7, <1>8, <1>9, <1>10, <1>11
     DEF GatewayNext, BookOrRelease, OtherHandler, Loaders

\* Where an activity is after Go, and where the others are.
LEMMA GoesTo ==
    ASSUME DOMAIN task = Activities, NEW a \in Activities, NEW t, Go(a, t)
    PROVE  /\ DOMAIN task' = Activities
           /\ task'[a] = t
           /\ \A b \in Activities \ {a} : task'[b] = task[b]
  BY DEF Go

\* The parts of the invariant beyond the store's.
GateInv == LockInv /\ ReadInThePast /\ RulesCurrent /\ LoadedCurrent /\ NothingLoaded

\* A step that leaves the gateway and the holders alone, and the clock.
LEMMA QuietStep ==
    ASSUME GateInv, UNCHANGED netVars, now' = now,
           \A l : HolderOf(l)' = HolderOf(l)
    PROVE  GateInv'
  BY DEF GateInv, netVars, LockInv, ReadInThePast, RulesCurrent, LoadedCurrent,
         NothingLoaded, Matches

LEMMA TickKeepsGate ==
    ASSUME GateInv, Tick, UNCHANGED netVars
    PROVE  GateInv'
<1>1. LockInv' /\ NothingLoaded'
  BY DEF GateInv, netVars, LockInv, NothingLoaded
<1>2. now \in 0 .. Horizon /\ now' = now + 1 /\ now' \in 0 .. Horizon /\ Horizon \in Nat
  BY LimitsAssumption DEF GateInv, ReadInThePast, Tick
<1>3. ReadInThePast'
  BY <1>2 DEF GateInv, netVars, ReadInThePast
<1>4. RulesCurrent' /\ LoadedCurrent'
  BY <1>2 DEF GateInv, netVars, ReadInThePast, RulesCurrent, LoadedCurrent, NotOurs
<1> QED
  BY <1>1, <1>3, <1>4 DEF GateInv

\* A booking or a release queues behind whatever is being loaded.
LEMMA BookOrReleaseKeepsGate ==
    ASSUME GateInv, task["api"] = Idle, Go("api", [pc |-> "lock"]), now' = now,
           UNCHANGED <<snapshot, table, hosts, lock, restarts>>
    PROVE  GateInv'
<1>1. /\ DOMAIN task' = Activities
      /\ task'["api"] = [pc |-> "lock"]
      /\ task'["jump"] = task["jump"] /\ task'["dns"] = task["dns"]
  BY GoesTo DEF GateInv, LockInv, Activities
<1> QED
  BY <1>1 DEF GateInv, LockInv, ReadInThePast, RulesCurrent, LoadedCurrent,
              NothingLoaded, Activities, Loaders, Critical, Idle

LEMMA RefreshKeepsGate ==
    ASSUME GateInv, NEW answering \in SUBSET VMs, Refresh(answering)
    PROVE  GateInv'
<1>1. NothingLoaded'
  BY GatewayAssumption DEF Refresh, Reported, NothingLoaded
<1>2. \A l : HolderOf(l)' = HolderOf(l)
  BY PruneKeepsHolders DEF Refresh, resVars
<1> QED
  BY <1>1, <1>2 DEF GateInv, Refresh, LockInv, ReadInThePast, RulesCurrent,
              LoadedCurrent, Matches, resVars

\* Steps before the table and around it: nothing is loaded, and whoever goes
\* on to "lock" or beyond the table leaves no claim behind.
LEMMA ApproachKeepsGate ==
    ASSUME GateInv, Wake \/ SandboxApplied \/ (\E a \in {"api", "dns"} : Resolve(a))
    PROVE  GateInv'
<1>1. \A l : HolderOf(l)' = HolderOf(l)
  BY PruneKeepsHolders DEF Wake, SandboxApplied, Resolve, resVars
<1>2. PICK a, t :
        /\ a \in Activities /\ Go(a, t) /\ task[a].pc \in {"idle", "resolve"}
        /\ t.pc \in {"lock", "resolve", "idle", "names"}
        /\ t.pc = "lock" => a = "jump"
        /\ UNCHANGED <<resVars, snapshot, table, hosts, lock, restarts>>
  BY DEF Wake, SandboxApplied, Resolve, Activities, Idle
<1>3. /\ DOMAIN task' = Activities /\ task'[a] = t
      /\ \A b \in Activities \ {a} : task'[b] = task[b]
  BY <1>2, GoesTo DEF GateInv, LockInv
<1>4. LockInv'
  BY <1>2, <1>3 DEF GateInv, LockInv, Critical, Activities
<1>5. ReadInThePast' /\ NothingLoaded'
  BY <1>2, <1>3 DEF GateInv, ReadInThePast, NothingLoaded, Loaders, Activities, resVars
<1>6. RulesCurrent' /\ LoadedCurrent'
  BY <1>1, <1>2, <1>3
     DEF GateInv, RulesCurrent, LoadedCurrent, Matches, Loaders, Activities, resVars
<1> QED
  BY <1>4, <1>5, <1>6 DEF GateInv

LEMMA NamesKeepGate ==
    ASSUME GateInv, NEW a \in {"api", "dns"}, WriteNames(a) \/ WriteNamesFails(a)
    PROVE  GateInv'
<1>1. \A l : HolderOf(l)' = HolderOf(l)
  BY PruneKeepsHolders DEF WriteNames, WriteNamesFails
<1>2. /\ DOMAIN task' = Activities /\ task'[a] = Idle
      /\ \A b \in Activities \ {a} : task'[b] = task[b]
  BY GoesTo DEF GateInv, LockInv, WriteNames, WriteNamesFails, Activities
<1>3. LockInv' /\ NothingLoaded'
  BY <1>2 DEF GateInv, WriteNames, WriteNamesFails, LockInv, NothingLoaded, Critical,
             Activities, Idle
<1>4. ReadInThePast' /\ RulesCurrent' /\ LoadedCurrent'
  BY <1>1, <1>2 DEF GateInv, WriteNames, WriteNamesFails, ReadInThePast, RulesCurrent,
                    LoadedCurrent, Matches, Loaders, Activities, Idle
<1> QED
  BY <1>3, <1>4 DEF GateInv

\* A restart forgets who was loading what, and that the table is current.
LEMMA RestartKeepsGate ==
    ASSUME GateInv, Restart
    PROVE  GateInv'
<1>1. /\ task' = [b \in Activities |-> Idle] /\ lock' = Free /\ now' = now
      /\ table' # NoTable => table'.at = NotOurs
  BY DEF Restart, resVars
<1>2. now \in 0 .. Horizon /\ now # NotOurs
  BY LimitsAssumption DEF GateInv, ReadInThePast, NotOurs
<1> QED
  BY <1>1, <1>2 DEF GateInv, LockInv, ReadInThePast, RulesCurrent, LoadedCurrent,
                    NothingLoaded, Critical, Activities, Loaders, Idle, Free

-----------------------------------------------------------------------------
(* The steps of reconcile_now.  The lock keeps the other loader out of it. *)

\* Where a reconcile goes when it is over.
LEMMA AfterTableIs ==
    ASSUME NEW a \in Loaders
    PROVE  AfterTable(a).pc = IF a = "api" THEN "resolve" ELSE "idle"
  BY DEF AfterTable, Idle, Loaders

\* The other loader is not inside while this one holds the lock.
LEMMA OtherOutside ==
    ASSUME GateInv, NEW a \in Loaders, lock = a, NEW b \in Loaders, b # a
    PROVE  task[b].pc \notin Critical
  BY DEF GateInv, LockInv, Loaders, Activities

LEMMA AcquireKeepsGate ==
    ASSUME GateInv, NEW a \in Loaders, Acquire(a)
    PROVE  GateInv'
<1>1. \A l : HolderOf(l)' = HolderOf(l)
  BY PruneKeepsHolders DEF Acquire, resVars
<1>2. PICK t : /\ Go(a, t)
               /\ \/ snapshot = NoSnapshot /\ t = AfterTable(a) /\ lock' = lock
                  \/ snapshot # NoSnapshot /\ t.pc = "attach" /\ lock' = a
               /\ task[a].pc = "lock" /\ lock = Free
               /\ UNCHANGED <<resVars, snapshot, table, hosts, restarts>>
  BY DEF Acquire
<1>3. /\ DOMAIN task' = Activities /\ task'[a] = t /\ a \in Activities
      /\ \A b \in Activities \ {a} : task'[b] = task[b]
  BY <1>2, GoesTo DEF GateInv, LockInv, Loaders, Activities
<1>4. t.pc \in {"resolve", "idle", "attach"} /\ (t.pc = "attach" <=> lock' = a)
  BY <1>2, AfterTableIs DEF Free, Loaders
<1>5. \A b \in Activities : task[b].pc \notin Critical
  BY <1>2 DEF GateInv, LockInv, Activities, Free
<1>6. LockInv'
  BY <1>2, <1>3, <1>4, <1>5 DEF GateInv, LockInv, Critical, Activities, Loaders, Free
<1>7. ReadInThePast' /\ NothingLoaded'
  BY <1>2, <1>3, <1>4 DEF GateInv, ReadInThePast, NothingLoaded, Loaders, Activities, resVars
<1>8. RulesCurrent'
  BY <1>3, <1>4, <1>5 DEF RulesCurrent, Loaders, Activities, Critical
<1>9. LoadedCurrent'
  <2>1. CASE snapshot = NoSnapshot
    \* Nothing was loaded by this central, and the table is not current.
    <3>1. table # NoTable => table.at # now
      BY <2>1, LimitsAssumption DEF GateInv, NothingLoaded, ReadInThePast, NotOurs
    <3> QED
      BY <3>1, <1>2 DEF LoadedCurrent, resVars
  <2>2. CASE snapshot # NoSnapshot /\ a = "api"
    BY <2>2, <1>2, <1>3, <1>4 DEF LoadedCurrent
  <2>3. CASE snapshot # NoSnapshot /\ a = "jump"
    BY <2>3, <1>1, <1>2, <1>3
       DEF GateInv, LoadedCurrent, Matches, Activities, resVars
  <2> QED
    BY <2>1, <2>2, <2>3 DEF Loaders
<1> QED
  BY <1>6, <1>7, <1>8, <1>9 DEF GateInv

LEMMA AttachKeepsGate ==
    ASSUME GateInv, NEW a \in Loaders, Attach(a)
    PROVE  GateInv'
<1>1. \A l : HolderOf(l)' = HolderOf(l)
  BY PruneKeepsHolders DEF Attach
<1>2. PICK h \in [task[a].labs -> Users \cup {Nobody}] :
        /\ \A l \in task[a].labs : h[l] \in HolderOf(l)
        /\ Go(a, [pc |-> "delete", rules |-> [holder |-> h, at |-> now]])
  BY DEF Attach
<1>3. /\ DOMAIN task' = Activities /\ a \in Activities
      /\ task'[a] = [pc |-> "delete", rules |-> [holder |-> h, at |-> now]]
      /\ \A b \in Activities \ {a} : task'[b] = task[b]
  BY <1>2, GoesTo DEF GateInv, LockInv, Loaders, Activities
<1>4. lock = a /\ task[a].pc = "attach"
  BY <1>3 DEF Attach, GateInv, LockInv, Critical
<1>5. LockInv' /\ NothingLoaded'
  BY <1>3, <1>4 DEF Attach, GateInv, LockInv, NothingLoaded, Critical, Activities, Loaders
<1>6. ReadInThePast'
  BY <1>3 DEF Attach, GateInv, ReadInThePast, Activities, Loaders
<1>7. Matches(h)'
  BY <1>1, <1>2 DEF Matches
<1>8. RulesCurrent'
  BY <1>3, <1>4, <1>7, OtherOutside DEF RulesCurrent, Loaders, Activities, Critical
<1>9. LoadedCurrent'
  <2>1. CASE a = "api"
    BY <2>1, <1>3 DEF LoadedCurrent
  <2>2. CASE a = "jump"
    BY <2>2, <1>1, <1>3 DEF Attach, GateInv, LoadedCurrent, Matches, Activities
  <2> QED
    BY <2>1, <2>2 DEF Loaders
<1> QED
  BY <1>5, <1>6, <1>8, <1>9 DEF GateInv

LEMMA DeleteKeepsGate ==
    ASSUME GateInv, NEW a \in Loaders, DeleteTable(a)
    PROVE  GateInv'
<1>1. \A l : HolderOf(l)' = HolderOf(l)
  BY PruneKeepsHolders DEF DeleteTable, resVars
<1>2. /\ DOMAIN task' = Activities /\ a \in Activities
      /\ task'[a] = [pc |-> "load", rules |-> task[a].rules]
      /\ \A b \in Activities \ {a} : task'[b] = task[b]
  BY GoesTo DEF DeleteTable, GateInv, LockInv, Loaders, Activities
<1>3. LockInv' /\ ReadInThePast' /\ LoadedCurrent' /\ NothingLoaded'
  BY <1>2 DEF DeleteTable, GateInv, LockInv, ReadInThePast, LoadedCurrent,
              NothingLoaded, Critical, Activities, Loaders, resVars
<1>4. RulesCurrent'
  BY <1>1, <1>2 DEF DeleteTable, GateInv, RulesCurrent, Matches, Activities, Loaders, resVars
<1> QED
  BY <1>3, <1>4 DEF GateInv

LEMMA LoadKeepsGate ==
    ASSUME GateInv, NEW a \in Loaders, LoadTable(a)
    PROVE  GateInv'
<1>1. \A l : HolderOf(l)' = HolderOf(l)
  BY PruneKeepsHolders DEF LoadTable, resVars
<1>2. /\ DOMAIN task' = Activities /\ a \in Activities
      /\ task'[a] = [pc |-> "hosts", rules |-> task[a].rules]
      /\ \A b \in Activities \ {a} : task'[b] = task[b]
  BY GoesTo DEF LoadTable, GateInv, LockInv, Loaders, Activities
<1>3. lock = a /\ task[a].pc = "load"
  BY <1>2 DEF LoadTable, GateInv, LockInv, Critical
<1>4. LockInv' /\ NothingLoaded'
  BY <1>2, <1>3 DEF LoadTable, GateInv, LockInv, NothingLoaded, Critical, Activities,
                    Loaders, Free
<1>5. ReadInThePast'
  BY <1>2, <1>3 DEF LoadTable, GateInv, ReadInThePast, Activities, Loaders, resVars
<1>6. RulesCurrent'
  BY <1>2, <1>3, OtherOutside DEF RulesCurrent, Activities, Loaders, Critical
<1>7. LoadedCurrent'
  <2>1. CASE task'["api"].pc = "lock"
    BY <2>1 DEF LoadedCurrent
  <2>2. CASE task'["api"].pc # "lock" /\ table'.at = now
    \* The rules were current, and they are the table now.
    <3>1. task["api"].pc # "lock"
      BY <2>2, <1>2, <1>3 DEF Activities
    <3>2. Matches(task[a].rules.holder)
      BY <2>2, <3>1, <1>3 DEF LoadTable, GateInv, RulesCurrent
    <3> QED
      BY <3>2, <1>1 DEF LoadTable, LoadedCurrent, Matches
  <2>3. CASE table'.at # now
    BY <2>3 DEF LoadTable, LoadedCurrent, resVars
  <2> QED
    BY <2>1, <2>2, <2>3
<1> QED
  BY <1>4, <1>5, <1>6, <1>7 DEF GateInv

\* Whether nft refused the table or it is loaded, the loader lets go.
LEMMA EndKeepsGate ==
    ASSUME GateInv, NEW a \in Loaders, LoadFails(a) \/ WriteHosts(a)
    PROVE  GateInv'
<1>1. \A l : HolderOf(l)' = HolderOf(l)
  BY PruneKeepsHolders DEF LoadFails, WriteHosts, resVars
<1>2. /\ Go(a, AfterTable(a)) /\ lock' = Free /\ task[a].pc \in {"load", "hosts"}
      /\ UNCHANGED <<resVars, snapshot, table, restarts>>
  BY DEF LoadFails, WriteHosts
<1>3. /\ DOMAIN task' = Activities /\ a \in Activities
      /\ task'[a].pc \in {"resolve", "idle"}
      /\ \A b \in Activities \ {a} : task'[b] = task[b]
  BY <1>2, GoesTo, AfterTableIs DEF GateInv, LockInv, Loaders, Activities
<1>4. lock = a
  BY <1>2, <1>3 DEF GateInv, LockInv, Critical
<1>5. LockInv' /\ NothingLoaded'
  BY <1>2, <1>3, <1>4 DEF GateInv, LockInv, NothingLoaded, Critical, Activities,
                          Loaders, Free
<1>6. ReadInThePast'
  BY <1>2, <1>3 DEF GateInv, ReadInThePast, Activities, Loaders, resVars
<1>7. RulesCurrent'
  BY <1>3, <1>4, OtherOutside DEF RulesCurrent, Activities, Loaders, Critical
<1>8. LoadedCurrent'
  BY <1>1, <1>2, <1>3 DEF GateInv, LoadedCurrent, Matches, Activities, Loaders, resVars
<1> QED
  BY <1>5, <1>6, <1>7, <1>8 DEF GateInv

-----------------------------------------------------------------------------

LEMMA GatewayNextKeepsGate == Inv /\ GateInv /\ [GatewayNext]_vars => GateInv'
<1> SUFFICES ASSUME Inv, GateInv, [GatewayNext]_vars PROVE GateInv'
  OBVIOUS
<1>1. CASE (Tick \/ Prune) /\ UNCHANGED netVars
  <2>1. CASE Tick
    BY <1>1, <2>1, TickKeepsGate
  <2>2. CASE Prune
    <3>1. now' = now /\ \A l : HolderOf(l)' = HolderOf(l)
      BY <2>2, PruneKeepsHolders DEF Prune
    <3> QED
      BY <1>1, <3>1, QuietStep
  <2> QED
    BY <1>1, <2>1, <2>2
<1>2. ASSUME NEW u \in Users, NEW l \in Labs, NEW s \in 0 .. Horizon,
             NEW h \in 1 .. MaxHours, BookOrRelease(ReserveLab(u, l, s, h))
      PROVE  GateInv'
  <2>1. now' = now
    BY <1>2 DEF BookOrRelease, ReserveLab
  <2> QED
    BY <1>2, <2>1, BookOrReleaseKeepsGate DEF BookOrRelease
<1>3. ASSUME NEW l \in Labs, BookOrRelease(ReleaseLab(l))
      PROVE  GateInv'
  <2>1. now' = now
    BY <1>3 DEF BookOrRelease, ReleaseLab
  <2> QED
    BY <1>3, <2>1, BookOrReleaseKeepsGate DEF BookOrRelease
<1>4. ASSUME NEW l \in Labs, NEW i \in Ids, OtherHandler(CancelScheduled(l, i))
      PROVE  GateInv'
  <2>1. now' = now /\ \A k : HolderOf(k)' = HolderOf(k)
    BY <1>4, CancelKeepsHolders DEF OtherHandler, CancelScheduled
  <2> QED
    BY <1>4, <2>1, QuietStep DEF OtherHandler
<1>5. ASSUME NEW l \in Labs, NEW i \in Ids, NEW s \in (now + 1) .. Horizon,
             NEW h \in 1 .. MaxHours, OtherHandler(UpdateScheduled(l, i, s, h))
      PROVE  GateInv'
  <2>1. s \in Nat /\ s > now
    BY LimitsAssumption DEF Inv, TypeOK
  <2>2. now' = now /\ \A k : HolderOf(k)' = HolderOf(k)
    BY <1>5, <2>1, MoveKeepsHolders DEF OtherHandler, UpdateScheduled
  <2> QED
    BY <1>5, <2>2, QuietStep DEF OtherHandler
<1>6. ASSUME NEW l \in Labs, NEW a \in 1 .. MaxTotalHours,
             OtherHandler(ExtendReservation(l, a))
      PROVE  GateInv'
  <2>1. now' = now /\ \A k : HolderOf(k)' = HolderOf(k)
    BY <1>6, ExtensionKeepsHolders DEF OtherHandler, ExtendReservation
  <2> QED
    BY <1>6, <2>1, QuietStep DEF OtherHandler
<1>7. ASSUME NEW answering \in SUBSET VMs, Refresh(answering)
      PROVE  GateInv'
  BY <1>7, RefreshKeepsGate
<1>8. CASE Wake \/ SandboxApplied \/ \E a \in {"api", "dns"} : Resolve(a)
  BY <1>8, ApproachKeepsGate
<1>9. ASSUME NEW a \in {"api", "dns"}, WriteNames(a) \/ WriteNamesFails(a)
      PROVE  GateInv'
  BY <1>9, NamesKeepGate
<1>10. ASSUME NEW a \in Loaders, Reconcile(a)
       PROVE  GateInv'
  BY <1>10, AcquireKeepsGate, AttachKeepsGate, DeleteKeepsGate, LoadKeepsGate,
     EndKeepsGate DEF Reconcile
<1>11. CASE Restart
  BY <1>11, RestartKeepsGate
<1>12. CASE UNCHANGED vars
  <2>1. \A l : HolderOf(l)' = HolderOf(l)
    BY <1>12, PruneKeepsHolders DEF vars
  <2> QED
    BY <1>12, <2>1, QuietStep DEF vars
<1> QED
  BY <1>1, <1>2, <1>3, <1>4, <1>5, <1>6, <1>7, <1>8, <1>9, <1>10, <1>11, <1>12
     DEF GatewayNext, Loaders

\* The inductive invariant of the store and of the gateway.
THEOREM GatewayInvHolds == GatewaySpec => [](Inv /\ GateInv)
<1>1. GatewayInit => Init
  BY DEF GatewayInit, Init
<1>2. Init => Inv
  BY LimitsAssumption DEF Init, Inv, TypeOK, UniqueIds, DurationsBounded,
     ExtendedHaveBegun, OverlapOnlyByExtension
<1>3. GatewayInit => GateInv
  BY LimitsAssumption
     DEF GatewayInit, GateInv, LockInv, ReadInThePast, RulesCurrent, LoadedCurrent,
         NothingLoaded, Activities, Loaders, Critical, Idle, Free
<1>4. Inv /\ GateInv /\ [GatewayNext]_vars => (Inv /\ GateInv)'
  BY GatewayStepIsStoreStep, NextKeepsInv, GatewayNextKeepsGate
<1> QED
  BY <1>1, <1>2, <1>3, <1>4, PTL DEF GatewaySpec

\* The store behind the gateway is the reservation store: what its handlers,
\* the reconciles of jump_access and the timer do to the reservations are steps
\* of its service, so that its theorems hold here as well.
THEOREM GatewayImplementsStore == GatewaySpec => Spec
<1>1. GatewayInit => Init
  BY DEF GatewayInit, Init
<1>2. Inv /\ [GatewayNext]_vars => [Next]_resVars
  BY GatewayStepIsStoreStep
<1> QED
  BY <1>1, <1>2, GatewayInvHolds, PTL DEF GatewaySpec, Spec

\* No reconcile that read the reservations before a booking or a release is
\* what the table says after the handler's own (jump_access.reconcile_now).
THEOREM TableStaysCurrent == GatewaySpec => []TableIsCurrent
<1>1. GateInv => TableIsCurrent
  BY DEF GateInv, LoadedCurrent, TableIsCurrent
<1> QED
  BY <1>1, GatewayInvHolds, PTL

\* Of the users who hold a lab at this moment, a current table lets in all but
\* those whose reservation was extended into the next one or ends right now
\* (attach_reservations shows one reservation per lab, reserve_lab admits no
\* second one).
HoldersLetIn ==
    /\ task["api"].pc \in {"idle", "resolve", "names"}
    /\ table # NoTable
    /\ table.at = now
    => \A l \in DOMAIN table.holder : \A e \in ActiveOn(l) :
          table.holder[l] = e.owner \/ e.extended \/ e.end = now

THEOREM HoldersAreLetIn == GatewaySpec => []HoldersLetIn
<1>1. ASSUME Inv, TableIsCurrent PROVE HoldersLetIn
  <2> SUFFICES ASSUME task["api"].pc \in {"idle", "resolve", "names"},
                      table # NoTable, table.at = now,
                      NEW l \in DOMAIN table.holder, NEW e \in ActiveOn(l),
                      table.holder[l] # e.owner, e.end # now
               PROVE  e.extended
    BY DEF HoldersLetIn
  <2>1. table.holder[l] \in HolderOf(l)
    BY <1>1 DEF TableIsCurrent, Matches
  <2>2. PICK f \in LatestActive(l) : f.owner = table.holder[l]
    BY <2>1 DEF HolderOf
  <2>3. /\ e \in res /\ e.lab = l /\ e.start <= now /\ now <= e.end
        /\ f \in res /\ f.lab = l /\ f.start <= now /\ e.start <= f.start
    BY <2>2 DEF LatestActive, ActiveOn, Unexpired, IsActive
  <2>4. /\ e.start \in Nat /\ e.end \in Nat /\ f.start \in Nat /\ f.end \in Nat
        /\ now \in Nat /\ f.start < f.end
    BY <1>1, <2>3, LimitsAssumption DEF Inv, TypeOK, DurationsBounded, Entry
  <2>5. Overlaps(e.start, e.end, f.start, f.end)
    BY <2>3, <2>4 DEF Overlaps
  <2>6. OverlapOnlyByExtension
    BY <1>1 DEF Inv
  <2> QED
    BY <2>2, <2>3, <2>5, <2>6 DEF OverlapOnlyByExtension
<1> QED
  BY <1>1, GatewayInvHolds, TableStaysCurrent, PTL

\* One thread at a time is between reading the snapshot and writing the hosts
\* file, and nobody else holds its lock (with _LOCK in reconcile_now).
THEOREM LockHolderIsInside == GatewaySpec => []LockInv
  BY GatewayInvHolds, PTL DEF GateInv
===============================================================================
