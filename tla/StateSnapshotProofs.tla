------------------------ MODULE StateSnapshotProofs ------------------------
(***************************************************************************)
(* The snapshot of the central, for any vms, handlers and thresholds: one  *)
(* refresh at a time, no empty answer to a handler that waited for a good  *)
(* refresh, and no transition that the polls have not earned.              *)
(***************************************************************************)
EXTENDS StateSnapshot, TLAPS

Doing == [pc : Pcs, targets : SUBSET VMs, items : Views, excused : BOOLEAN]
Underway(a) == act[a].pc \in {"collect", "transitions", "publish"}

ActTyped == act \in [Activities -> Doing] /\ agents \subseteq VMs /\ inProgress \in BOOLEAN

\* A handler that waits for a first snapshot and has no excuse yet waits for a
\* refresh that can still publish one.
Awaited ==
    \A a \in Activities :
        act[a].pc = "wait" /\ snapshot = Empty /\ ~act[a].excused
            => \E b \in Activities : Underway(b)

RefreshInv == ActTyped /\ OneRefreshAtATime /\ Awaited

-----------------------------------------------------------------------------
LEMMA RestIsTyped == AtRest \in Doing /\ AtRest.pc = "idle"
<1>1. Empty \in [{} -> BOOLEAN] /\ {} \in SUBSET VMs
  BY DEF Empty
<1>2. Empty \in Views
  BY <1>1 DEF Views
<1> QED BY <1>2 DEF AtRest, Doing, Pcs

LEMMA DoingFields ==
    ASSUME ActTyped, NEW a \in Activities
    PROVE  /\ act[a] \in Doing /\ act[a].pc \in Pcs /\ act[a].items \in Views
           /\ act[a].targets \subseteq VMs /\ act[a].excused \in BOOLEAN
  BY DEF ActTyped, Doing

\* A step of a that takes it from one place to another and leaves the others,
\* the flag and the snapshot alone.
LEMMA Moves ==
    ASSUME RefreshInv, NEW a \in Activities, NEW d \in Doing,
           act' = [act EXCEPT ![a] = d], UNCHANGED <<agents, snapshot, inProgress>>,
           \/ Underway(a) /\ d.pc \in {"collect", "transitions", "publish"}
           \/ ~Refreshing(a) /\ d.pc \in {"idle", "refresh", "wait"},
           d.pc = "wait" /\ snapshot = Empty /\ ~d.excused
              => \E b \in Activities : Underway(b)
    PROVE  RefreshInv'
<1>1. ActTyped' /\ act'[a] = d /\ \A b \in Activities \ {a} : act'[b] = act[b]
  BY DEF RefreshInv, ActTyped
<1>2. /\ \A b \in Activities : Refreshing(b)' <=> Refreshing(b)
      /\ \A b \in Activities : Underway(b)' <=> Underway(b)
  BY <1>1 DEF Refreshing, Underway
<1>3. OneRefreshAtATime'
  BY <1>2 DEF RefreshInv, OneRefreshAtATime
<1>4. Awaited'
  BY <1>1, <1>2 DEF RefreshInv, Awaited
<1> QED BY <1>1, <1>3, <1>4 DEF RefreshInv

LEMMA BeginKeeps == ASSUME RefreshInv, NEW a \in Activities, Begin(a) PROVE RefreshInv'
<1> DEFINE d == [act[a] EXCEPT !.pc = "collect", !.targets = agents]
<1>1. act[a] \in Doing /\ ActTyped /\ ~inProgress
  BY DoingFields DEF RefreshInv, Begin
<1>2. d \in Doing /\ d.pc = "collect"
  BY <1>1 DEF Doing, Pcs, ActTyped
<1>3. act' = [act EXCEPT ![a] = d] /\ inProgress' = TRUE /\ UNCHANGED <<agents, snapshot>>
  BY DEF Begin
<1>4. ActTyped' /\ act'[a] = d /\ \A b \in Activities \ {a} : act'[b] = act[b]
  BY <1>1, <1>2, <1>3 DEF ActTyped
<1>5. \A b \in Activities : Refreshing(b)' <=> b = a
  BY <1>1, <1>2, <1>4 DEF RefreshInv, OneRefreshAtATime, Refreshing
<1>6. OneRefreshAtATime'
  BY <1>3, <1>5 DEF OneRefreshAtATime
<1>7. Awaited'
  BY <1>2, <1>4 DEF Awaited, Underway
<1> QED BY <1>4, <1>6, <1>7 DEF RefreshInv

LEMMA ReleaseKeeps == ASSUME RefreshInv, NEW a \in Activities, Release(a) PROVE RefreshInv'
<1>1. /\ act[a].pc = "release" /\ inProgress' = FALSE
      /\ act' = [act EXCEPT ![a] = AtRest] /\ UNCHANGED <<agents, snapshot>>
  BY DEF Release
<1>2. ActTyped' /\ act'[a] = AtRest /\ \A b \in Activities \ {a} : act'[b] = act[b]
  BY <1>1, RestIsTyped DEF RefreshInv, ActTyped
<1>3. \A b \in Activities : Refreshing(b) => b = a
  BY <1>1 DEF RefreshInv, OneRefreshAtATime, Refreshing
<1>4. \A b \in Activities : ~Refreshing(b)'
  BY <1>2, <1>3, RestIsTyped DEF Refreshing
<1>5. OneRefreshAtATime'
  BY <1>1, <1>4 DEF OneRefreshAtATime
<1>6. \A b \in Activities : ~Underway(b)
  BY <1>1, <1>3 DEF Underway, Refreshing
<1>7. Awaited'
  BY <1>1, <1>2, <1>6, RestIsTyped DEF RefreshInv, Awaited
<1> QED BY <1>2, <1>5, <1>7 DEF RefreshInv

\* The end of a refresh before its release: the handlers that wait are excused
\* if there is a reason, and have a snapshot to answer with if there is none.
LEMMA ReleasesSoon ==
    ASSUME RefreshInv, NEW a \in Activities, Underway(a), NEW reason \in BOOLEAN,
           act' = [Excuse(reason) EXCEPT ![a].pc = "release"],
           UNCHANGED <<agents, inProgress>>,
           reason \/ snapshot' # Empty
    PROVE  RefreshInv'
<1>1. ActTyped
  BY DEF RefreshInv
<1>2. ASSUME NEW b \in Activities
      PROVE  /\ Excuse(reason)[b] \in Doing /\ Excuse(reason)[b].pc = act[b].pc
             /\ act[b].pc = "wait" /\ reason => Excuse(reason)[b].excused
  <2>1. act[b].excused \in BOOLEAN /\ act[b] \in Doing
    BY <1>1, DoingFields
  <2>2. Excuse(reason)[b]
           = [act[b] EXCEPT !.excused = @ \/ (act[b].pc = "wait" /\ reason)]
    BY DEF Excuse
  <2> QED BY <2>1, <2>2 DEF Doing
<1>3. Excuse(reason) \in [Activities -> Doing]
  BY <1>2 DEF Excuse
<1>4. /\ act' \in [Activities -> Doing] /\ act'[a].pc = "release"
      /\ \A b \in Activities \ {a} : act'[b] = Excuse(reason)[b]
  BY <1>3 DEF Doing, Pcs
<1>5. \A b \in Activities : Refreshing(b)' <=> Refreshing(b)
  BY <1>2, <1>4 DEF Refreshing, Underway
<1>6. OneRefreshAtATime'
  BY <1>5 DEF RefreshInv, OneRefreshAtATime
<1>7. Awaited'
  BY <1>2, <1>4 DEF Awaited
<1> QED BY <1>1, <1>4, <1>6, <1>7 DEF RefreshInv, ActTyped

LEMMA RefreshStep ==
    ASSUME RefreshInv, NEW a \in Activities, Refresh(a)
    PROVE  RefreshInv'
<1>1. act[a] \in Doing /\ act[a].items \in Views /\ act[a].targets \subseteq VMs /\ ActTyped
  BY DoingFields DEF RefreshInv
<1>2. CASE FoundInProgress(a)
  <2> DEFINE d == [act[a] EXCEPT !.pc = "wait",
                      !.excused = @ \/ \E b \in Activities : act[b].pc = "release"]
  <2>1. act[a].pc \in {"refresh", "wait"} /\ inProgress /\ ~Refreshing(a)
        /\ UNCHANGED <<agents, snapshot, inProgress>>
    BY <1>2 DEF FoundInProgress, Refreshing
  <2>2. CASE snapshot # Empty
    <3>1. act' = [act EXCEPT ![a] = AtRest]
      BY <1>2, <2>2 DEF FoundInProgress
    <3> QED BY <2>1, <3>1, RestIsTyped, Moves
  <2>3. CASE snapshot = Empty
    <3>1. act' = [act EXCEPT ![a] = d]
      BY <1>2, <2>3 DEF FoundInProgress
    <3>2. d \in Doing /\ d.pc = "wait"
      BY <1>1 DEF Doing, Pcs
    <3>3. (\E b \in Activities : act[b].pc = "release") => d.excused
      BY <1>1 DEF Doing
    <3>4. PICK b \in Activities : Refreshing(b)
      BY <2>1 DEF RefreshInv, OneRefreshAtATime
    <3>5. ~d.excused => Underway(b)
      BY <3>3, <3>4 DEF Refreshing, Underway
    <3> HIDE DEF d
    <3> QED BY <2>1, <3>1, <3>2, <3>5, Moves
  <2> QED BY <2>2, <2>3
<1>3. CASE WaitedEnough(a)
  BY <1>3, RestIsTyped, Moves DEF WaitedEnough, Refreshing
<1>4. CASE Begin(a)
  BY <1>4, BeginKeeps
<1>5. CASE Collected(a)
  <2>1. PICK items \in [act[a].targets -> BOOLEAN] :
           act' = [act EXCEPT ![a].pc = "transitions", ![a].items = items]
    BY <1>5 DEF Collected
  <2> DEFINE d == [act[a] EXCEPT !.pc = "transitions", !.items = items]
  <2>2. items \in Views
    BY <1>1 DEF Views
  <2>3. d \in Doing /\ d.pc = "transitions"
    BY <1>1, <2>2 DEF Doing, Pcs
  <2>4. act' = [act EXCEPT ![a] = d]
    BY <2>1
  <2>5. Underway(a) /\ UNCHANGED <<agents, snapshot, inProgress>>
    BY <1>5 DEF Collected, Underway
  <2> HIDE DEF d
  <2> QED BY <2>3, <2>4, <2>5, Moves
<1>6. CASE RecordTransitions(a)
  <2> DEFINE d == [act[a] EXCEPT !.pc = "publish"]
  <2>1. d \in Doing /\ d.pc = "publish"
    BY <1>1 DEF Doing, Pcs
  <2>2. act' = [act EXCEPT ![a] = d]
    BY <1>6 DEF RecordTransitions, Goto
  <2>3. Underway(a) /\ UNCHANGED <<agents, snapshot, inProgress>>
    BY <1>6 DEF RecordTransitions, Underway
  <2> HIDE DEF d
  <2> QED BY <2>1, <2>2, <2>3, Moves
<1>7. CASE Publish(a)
  <2>1. Underway(a) /\ UNCHANGED <<agents, inProgress>> /\ snapshot' = act[a].items
        /\ act' = [Excuse(act[a].items = Empty) EXCEPT ![a].pc = "release"]
    BY <1>7 DEF Publish, Underway
  <2>2. (act[a].items = Empty) \in BOOLEAN
    OBVIOUS
  <2>3. (act[a].items = Empty) \/ snapshot' # Empty
    BY <2>1
  <2> QED BY <2>1, <2>2, <2>3, ReleasesSoon
<1>8. CASE Fail(a)
  <2>1. Underway(a) /\ UNCHANGED <<agents, inProgress>>
        /\ act' = [Excuse(TRUE) EXCEPT ![a].pc = "release"]
    BY <1>8 DEF Fail, Underway
  <2> QED BY <2>1, ReleasesSoon
<1>9. CASE Release(a)
  BY <1>9, ReleaseKeeps
<1> QED BY <1>2, <1>3, <1>4, <1>5, <1>6, <1>7, <1>8, <1>9 DEF Refresh

LEMMA SnapStep == ASSUME RefreshInv, [SnapNext]_snapVars PROVE RefreshInv'
<1>1. ASSUME act' = act, snapshot' = snapshot, inProgress' = inProgress, agents' \subseteq VMs
      PROVE  RefreshInv'
  BY <1>1 DEF RefreshInv, ActTyped, OneRefreshAtATime, Awaited, Refreshing, Underway
<1>2. CASE SetAgents
  BY <1>1, <1>2 DEF SetAgents, RefreshInv, ActTyped
<1>3. CASE Aging \/ UNCHANGED snapVars
  BY <1>1, <1>3 DEF Aging, snapVars, RefreshInv, ActTyped
<1>4. ASSUME NEW a \in Activities, act[a] = AtRest, Goto(a, "refresh"),
             UNCHANGED <<agents, snapshot, inProgress>>
      PROVE  RefreshInv'
  <2> DEFINE d == [act[a] EXCEPT !.pc = "refresh"]
  <2>1. d \in Doing /\ d.pc = "refresh" /\ ~Refreshing(a)
    BY <1>4, RestIsTyped DEF Doing, Pcs, Refreshing
  <2>2. act' = [act EXCEPT ![a] = d]
    BY <1>4 DEF Goto
  <2> HIDE DEF d
  <2> QED BY <1>4, <2>1, <2>2, Moves
<1>5. CASE WakeLoop
  BY <1>4, <1>5 DEF WakeLoop, Activities
<1>6. ASSUME NEW a \in Requests, Request(a) PROVE RefreshInv'
  BY <1>4, <1>6 DEF Request, Activities
<1> QED BY <1>2, <1>3, <1>5, <1>6, RefreshStep DEF SnapNext

LEMMA SnapInitHolds == SnapInit => RefreshInv
<1> SUFFICES ASSUME SnapInit PROVE RefreshInv
  OBVIOUS
<1>1. \A a \in Activities : act[a] = AtRest /\ act[a].pc = "idle"
  BY RestIsTyped DEF SnapInit
<1>2. ActTyped
  BY RestIsTyped DEF SnapInit, ActTyped
<1>3. OneRefreshAtATime /\ Awaited
  BY <1>1 DEF SnapInit, OneRefreshAtATime, Awaited, Refreshing
<1> QED BY <1>2, <1>3 DEF RefreshInv

\* The flag excludes: at most one activity refreshes, and the flag is up exactly
\* while one does.
THEOREM RefreshesAreExclusive == SnapSpec => []OneRefreshAtATime
<1>1. RefreshInv => OneRefreshAtATime
  BY DEF RefreshInv
<1> QED BY <1>1, SnapInitHolds, SnapStep, PTL DEF SnapSpec

-----------------------------------------------------------------------------
(* Empty answers.                                                          *)

LEMMA OnlyTheExcused ==
    ASSUME RefreshInv, [SnapNext]_snapVars, NEW a \in Activities,
           act[a].pc = "wait", act'[a].pc = "idle", snapshot = Empty
    PROVE  act[a].excused
<1>1. ActTyped /\ act[a] # AtRest /\ act[a].excused \in BOOLEAN
  BY RestIsTyped, DoingFields DEF RefreshInv
<1> USE <1>1 DEF ActTyped, Doing
<1>2. ASSUME NEW b \in Activities, Refresh(b) PROVE act[a].excused
  <2>1. CASE FoundInProgress(b)
    BY <2>1 DEF FoundInProgress
  <2>2. CASE WaitedEnough(b)
    <3>1. b = a
      BY <2>2 DEF WaitedEnough
    <3>2. \A c \in Activities : ~Underway(c)
      BY <2>2 DEF WaitedEnough, RefreshInv, OneRefreshAtATime, Underway, Refreshing
    <3> QED BY <3>2 DEF RefreshInv, Awaited
  <2>3. CASE Begin(b) \/ Collected(b) \/ RecordTransitions(b) \/ Release(b)
    BY <2>3 DEF Begin, Collected, RecordTransitions, Release, Goto
  <2>4. ASSUME NEW reason, act' = [Excuse(reason) EXCEPT ![b].pc = "release"] PROVE FALSE
    <3>1. Excuse(reason)[a] = [act[a] EXCEPT !.excused = @ \/ (act[a].pc = "wait" /\ reason)]
      BY DEF Excuse
    <3>2. Excuse(reason)[a].pc = "wait"
      BY <3>1
    <3>3. act'[a].pc \in {"wait", "release"}
      BY <2>4, <3>1, <3>2 DEF Excuse
    <3> QED BY <3>3
  <2>5. CASE Publish(b) \/ Fail(b)
    BY <2>4, <2>5 DEF Publish, Fail
  <2> QED BY <1>2, <2>1, <2>2, <2>3, <2>5 DEF Refresh
<1>3. CASE SetAgents \/ Aging \/ WakeLoop \/ UNCHANGED snapVars
  BY <1>3 DEF SetAgents, Aging, WakeLoop, Goto, snapVars
<1>4. ASSUME NEW b \in Requests, Request(b) PROVE act[a].excused
  BY <1>4 DEF Request, Goto
<1> QED BY <1>2, <1>3, <1>4 DEF SnapNext

\* A handler that waits answers an empty fleet only if the refresh it waited
\* for failed, or found no vm.
THEOREM EmptyAnswersExcused == SnapSpec => EmptyAnswersAreExcused
<1>1. RefreshInv /\ [SnapNext]_snapVars =>
        [\A a \in Activities : act[a].pc = "wait" /\ act'[a].pc = "idle" /\ snapshot = Empty
             => act[a].excused]_snapVars
  BY OnlyTheExcused
<1> QED BY <1>1, SnapInitHolds, SnapStep, PTL DEF SnapSpec, EmptyAnswersAreExcused

-----------------------------------------------------------------------------
(* Transitions.                                                            *)

\* The streaks count answers that the history of the polls shows.
Streaks ==
    /\ failures \in [VMs -> Nat] /\ successes \in [VMs -> Nat]
    /\ polls \in [VMs -> Seq({"up", "down"})]
    /\ \A v \in VMs : /\ failures[v] <= OfflineAfter /\ AllOf(polls[v], failures[v], "down")
                      /\ successes[v] <= OnlineAfter /\ AllOf(polls[v], successes[v], "up")

LEMMA UpToIs ==
    ASSUME NEW l \in Nat, NEW n \in Nat
    PROVE  UpTo(l, n) = IF l <= n THEN l ELSE n
  BY DEF UpTo, Min

LEMMA MaxIs ==
    ASSUME NEW l \in Nat, NEW n \in Nat
    PROVE  Max({l, n}) = IF l <= n THEN n ELSE l
  BY DEF Max

\* One more answer x in front, up to m answers in all.
LEMMA Longer ==
    ASSUME NEW p \in Seq({"up", "down"}), NEW x \in {"up", "down"}, NEW m \in Nat \ {0},
           NEW n \in Nat, AllOf(p, n, x), NEW l \in 0 .. m
    PROVE  /\ SubSeq(<<x>> \o p, 1, UpTo(m, Len(p) + 1)) \in Seq({"up", "down"})
           /\ AllOf(SubSeq(<<x>> \o p, 1, UpTo(m, Len(p) + 1)), UpTo(l, n + 1), x)
<1> DEFINE k == UpTo(m, Len(p) + 1)
           q == SubSeq(<<x>> \o p, 1, k)
<1>1. /\ <<x>> \o p \in Seq({"up", "down"}) /\ Len(<<x>> \o p) = Len(p) + 1 /\ Len(p) \in Nat
      /\ (<<x>> \o p)[1] = x
      /\ \A i \in 2 .. (Len(p) + 1) : (<<x>> \o p)[i] = p[i - 1]
  OBVIOUS
<1>2. k \in 1 .. (Len(p) + 1) /\ (k = m \/ k = Len(p) + 1)
  BY <1>1, UpToIs
<1> HIDE DEF k
<1>3. /\ q \in Seq({"up", "down"}) /\ Len(q) = k
      /\ \A i \in 1 .. k : q[i] = (<<x>> \o p)[i]
  BY <1>1, <1>2
<1>4. UpTo(l, n + 1) \in 0 .. k /\ UpTo(l, n + 1) <= n + 1
  BY <1>1, <1>2, UpToIs DEF AllOf
<1>5. \A i \in 1 .. UpTo(l, n + 1) : q[i] = x
  BY <1>1, <1>2, <1>3, <1>4 DEF AllOf
<1> HIDE DEF q
<1>6. q \in Seq({"up", "down"}) /\ AllOf(q, UpTo(l, n + 1), x)
  BY <1>2, <1>3, <1>4, <1>5 DEF AllOf
<1> QED BY <1>6 DEF q, k

\* One refresh and one vm.
LEMMA OneRecord ==
    ASSUME Streaks, RefreshInv, NEW a \in Activities, RecordTransitions(a), NEW v \in VMs
    PROVE  /\ failures'[v] \in 0 .. OfflineAfter /\ AllOf(polls'[v], failures'[v], "down")
           /\ successes'[v] \in 0 .. OnlineAfter /\ AllOf(polls'[v], successes'[v], "up")
           /\ polls'[v] \in Seq({"up", "down"})
           /\ online[v] = "up" /\ online'[v] = "down" => AllOf(polls'[v], OfflineAfter, "down")
           /\ online[v] = "down" /\ online'[v] = "up" => AllOf(polls'[v], OnlineAfter, "up")
<1> DEFINE items == act[a].items
           m == Max({OfflineAfter, OnlineAfter})
<1>1. /\ OfflineAfter \in Nat \ {0} /\ OnlineAfter \in Nat \ {0} /\ m \in Nat \ {0}
      /\ OfflineAfter <= m /\ OnlineAfter <= m
  BY SnapshotAssumption, MaxIs
<1> HIDE DEF m
<1>2. /\ failures[v] \in Nat /\ successes[v] \in Nat /\ polls[v] \in Seq({"up", "down"})
      /\ failures[v] <= OfflineAfter /\ AllOf(polls[v], failures[v], "down")
      /\ successes[v] <= OnlineAfter /\ AllOf(polls[v], successes[v], "up")
  BY DEF Streaks
<1>3. \A p \in Seq({"up", "down"}) : \A x : AllOf(p, 0, x)
  BY DEF AllOf
<1>4. CASE v \notin DOMAIN items
  <2>1. /\ failures'[v] = failures[v] /\ successes'[v] = successes[v]
        /\ polls'[v] = polls[v] /\ online'[v] = online[v]
    BY <1>4 DEF RecordTransitions
  <2> QED BY <1>1, <1>2, <2>1
<1>5. CASE v \in DOMAIN items
  <2>1. items[v] \in BOOLEAN
    <3>1. items \in Views
      BY DoingFields DEF RefreshInv
    <3> QED BY <1>5, <3>1 DEF Views
  <2>2. /\ polls'[v] = SubSeq(<<Answer(items[v])>> \o polls[v], 1, UpTo(m, Len(polls[v]) + 1))
        /\ online'[v] = NextOnline(v, items[v], failures'[v], successes'[v])
    BY <1>5 DEF RecordTransitions, m
  <2>3. CASE items[v] = TRUE
    <3>0. Answer(items[v]) = "up"
      BY <2>3 DEF Answer
    <3>1. failures'[v] = 0 /\ successes'[v] = UpTo(OnlineAfter, successes[v] + 1)
      BY <1>5, <2>3 DEF RecordTransitions
    <3>2. polls'[v] \in Seq({"up", "down"}) /\ AllOf(polls'[v], successes'[v], "up")
      <4>1. polls'[v] = SubSeq(<<"up">> \o polls[v], 1, UpTo(m, Len(polls[v]) + 1))
        BY <2>2, <3>0
      <4>2. OnlineAfter \in 0 .. m /\ "up" \in {"up", "down"}
        BY <1>1
      <4> DEFINE q == SubSeq(<<"up">> \o polls[v], 1, UpTo(m, Len(polls[v]) + 1))
      <4>3. /\ q \in Seq({"up", "down"})
            /\ AllOf(q, UpTo(OnlineAfter, successes[v] + 1), "up")
        BY <1>1, <1>2, <4>2, Longer
      <4> HIDE DEF q
      <4>4. polls'[v] = q
        BY <4>1 DEF q
      <4> QED BY <3>1, <4>3, <4>4
    <3>3. successes'[v] \in 0 .. OnlineAfter
      BY <1>1, <1>2, <3>1, UpToIs
    <3>4. online[v] = "up" => online'[v] = "up"
      BY <2>2, <2>3 DEF NextOnline
    <3>5. online[v] = "down" /\ online'[v] = "up" => successes'[v] = OnlineAfter
      BY <1>1, <2>2, <2>3, <3>3 DEF NextOnline
    <3> QED BY <1>1, <1>3, <3>1, <3>2, <3>3, <3>4, <3>5
  <2>4. CASE items[v] = FALSE
    <3>0. Answer(items[v]) = "down"
      BY <2>4 DEF Answer
    <3>1. successes'[v] = 0 /\ failures'[v] = UpTo(OfflineAfter, failures[v] + 1)
      BY <1>5, <2>4 DEF RecordTransitions
    <3>2. polls'[v] \in Seq({"up", "down"}) /\ AllOf(polls'[v], failures'[v], "down")
      <4>1. polls'[v] = SubSeq(<<"down">> \o polls[v], 1, UpTo(m, Len(polls[v]) + 1))
        BY <2>2, <3>0
      <4>2. OfflineAfter \in 0 .. m /\ "down" \in {"up", "down"}
        BY <1>1
      <4> DEFINE q == SubSeq(<<"down">> \o polls[v], 1, UpTo(m, Len(polls[v]) + 1))
      <4>3. /\ q \in Seq({"up", "down"})
            /\ AllOf(q, UpTo(OfflineAfter, failures[v] + 1), "down")
        BY <1>1, <1>2, <4>2, Longer
      <4> HIDE DEF q
      <4>4. polls'[v] = q
        BY <4>1 DEF q
      <4> QED BY <3>1, <4>3, <4>4
    <3>3. failures'[v] \in 0 .. OfflineAfter
      BY <1>1, <1>2, <3>1, UpToIs
    <3>4. online[v] = "down" => online'[v] = "down"
      BY <2>2, <2>4 DEF NextOnline
    <3>5. online[v] = "up" /\ online'[v] = "down" => failures'[v] = OfflineAfter
      BY <1>1, <2>2, <2>4, <3>3 DEF NextOnline
    <3> QED BY <1>1, <1>3, <3>1, <3>2, <3>3, <3>4, <3>5
  <2> QED BY <2>1, <2>3, <2>4
<1> QED BY <1>4, <1>5

Earned ==
    \A v \in VMs :
        /\ online[v] = "up" /\ online'[v] = "down" => AllOf(polls'[v], OfflineAfter, "down")
        /\ online[v] = "down" /\ online'[v] = "up" => AllOf(polls'[v], OnlineAfter, "up")

LEMMA StreakStep ==
    ASSUME Streaks, RefreshInv, [SnapNext]_snapVars
    PROVE  Streaks' /\ Earned
<1>1. ASSUME UNCHANGED streakVars PROVE Streaks' /\ Earned
  BY <1>1 DEF streakVars, Streaks, Earned
<1>2. ASSUME NEW a \in Activities, RecordTransitions(a) PROVE Streaks' /\ Earned
  <2>1. Earned
    BY <1>2, OneRecord DEF Earned
  <2>2. /\ failures' = [v \in VMs |-> failures'[v]]
        /\ successes' = [v \in VMs |-> successes'[v]]
        /\ polls' = [v \in VMs |-> polls'[v]]
    BY <1>2 DEF RecordTransitions
  <2>3. \A v \in VMs : failures'[v] \in Nat /\ successes'[v] \in Nat
    BY <1>2, OneRecord, SnapshotAssumption
  <2>4. \A v \in VMs : polls'[v] \in Seq({"up", "down"})
    BY <1>2, OneRecord
  <2>5. \A v \in VMs : failures'[v] <= OfflineAfter /\ successes'[v] <= OnlineAfter
    BY <1>2, OneRecord, SnapshotAssumption
  <2>6. Streaks'
    BY <1>2, <2>2, <2>3, <2>4, <2>5, OneRecord DEF Streaks
  <2> QED BY <2>1, <2>6
<1>3. ASSUME NEW a \in Activities, Refresh(a) PROVE Streaks' /\ Earned
  BY <1>1, <1>2, <1>3
     DEF Refresh, FoundInProgress, WaitedEnough, Begin, Collected, Publish, Fail, Release
<1>4. CASE SetAgents \/ Aging \/ WakeLoop \/ UNCHANGED snapVars
  BY <1>1, <1>4 DEF SetAgents, Aging, WakeLoop, snapVars, streakVars
<1>5. ASSUME NEW a \in Requests, Request(a) PROVE Streaks' /\ Earned
  BY <1>1, <1>5 DEF Request
<1> QED BY <1>3, <1>4, <1>5 DEF SnapNext

\* A vm goes offline or comes back only on as many equal answers in a row as the
\* thresholds ask for.
THEOREM TransitionsEarned == SnapSpec => TransitionsAreEarned
<1>1. SnapInit => Streaks
  <2> SUFFICES ASSUME SnapInit PROVE Streaks
    OBVIOUS
  <2>1. \A x : AllOf(<<>>, 0, x)
    BY DEF AllOf
  <2>2. \A v \in VMs : failures[v] = 0 /\ successes[v] = 0 /\ polls[v] = <<>>
    BY DEF SnapInit
  <2>3. \A v \in VMs : AllOf(polls[v], failures[v], "down") /\ AllOf(polls[v], successes[v], "up")
    BY <2>1, <2>2
  <2>4. \A v \in VMs : failures[v] <= OfflineAfter /\ successes[v] <= OnlineAfter
    BY <2>2, SnapshotAssumption
  <2>5. /\ failures \in [VMs -> Nat] /\ successes \in [VMs -> Nat]
        /\ polls \in [VMs -> Seq({"up", "down"})]
    BY <2>2 DEF SnapInit
  <2> QED BY <2>3, <2>4, <2>5 DEF Streaks
<1>2. Streaks /\ RefreshInv /\ [SnapNext]_snapVars =>
        [\A v \in VMs :
          /\ online[v] = "up" /\ online'[v] = "down" => AllOf(polls'[v], OfflineAfter, "down")
          /\ online[v] = "down" /\ online'[v] = "up" => AllOf(polls'[v], OnlineAfter, "up")
        ]_snapVars
  BY StreakStep DEF Earned
<1>3. Streaks /\ RefreshInv /\ [SnapNext]_snapVars => Streaks'
  BY StreakStep
<1> QED
  BY <1>1, <1>2, <1>3, SnapInitHolds, SnapStep, PTL DEF SnapSpec, TransitionsAreEarned
=============================================================================
