---------------------------- MODULE StateSnapshot ----------------------------
(***************************************************************************)
(* The central's picture of its vm-agents                                  *)
(* (central/src/services/state_snapshot.py): a snapshot that a background  *)
(* thread refreshes every three seconds, and the request handlers when it  *)
(* is missing or too old.  Whoever finds a refresh under way takes what    *)
(* there is, or waits for it.  A vm counts as offline after several failed *)
(* polls in a row and as online again after several good ones; the audit   *)
(* log gets the transitions.                                               *)
(*                                                                         *)
(* The thread runs an event loop of its own, so that every acquisition of  *)
(* _LOCK is a step.  Data abstraction: of an agent's answer the model has  *)
(* whether it came; of the age of the snapshot whether it is above         *)
(* _max_age_seconds.  Streaks stop counting at their threshold.            *)
(***************************************************************************)
EXTENDS Naturals, Sequences, SequencesExt

CONSTANTS
    VMs,
    Requests,      \* request handlers
    Loop,          \* the background thread
    OfflineAfter,  \* _offline_confirmation_failures
    OnlineAfter,   \* _online_confirmation_successes
    MaxFailures    \* bound: refreshes that fail

ASSUME SnapshotAssumption ==
    /\ OfflineAfter \in Nat \ {0, 1} /\ OnlineAfter \in Nat \ {0}
    /\ MaxFailures \in Nat
    /\ Loop \notin Requests

VARIABLES
    agents,      \* get_settings()["agents"]
    snapshot,    \* _SNAPSHOT: the vms it lists, and which of them answered
    tooOld,      \* its age is above _max_age_seconds
    inProgress,  \* _REFRESH_IN_PROGRESS
    online,      \* _VM_ONLINE_STATE
    failures, successes,  \* _VM_FAILURE_STREAK, _VM_SUCCESS_STREAK
    polls,       \* history: the newest answers of each vm, newest first
    failed,      \* how many refreshes have failed
    act          \* what each activity is doing

snapVars == <<agents, snapshot, tooOld, inProgress, online, failures, successes, polls,
              failed, act>>
streakVars == <<online, failures, successes, polls>>

Activities == Requests \cup {Loop}
Views == UNION {[S -> BOOLEAN] : S \in SUBSET VMs}
Empty == [v \in {} |-> FALSE]
Pcs == {"idle", "refresh", "wait", "collect", "transitions", "publish", "release"}

\* items: what was collected; excused: why an empty answer may be right.
AtRest == [pc |-> "idle", targets |-> {}, items |-> Empty, excused |-> FALSE]
Goto(a, pc) == act' = [act EXCEPT ![a].pc = pc]
Refreshing(a) == act[a].pc \in {"collect", "transitions", "publish", "release"}

SnapInit ==
    /\ agents \in SUBSET VMs
    /\ snapshot = Empty /\ tooOld = FALSE /\ inProgress = FALSE
    /\ online = [v \in VMs |-> "unknown"]
    /\ failures = [v \in VMs |-> 0] /\ successes = [v \in VMs |-> 0]
    /\ polls = [v \in VMs |-> <<>>]
    /\ act = [a \in Activities |-> AtRest] /\ failed = 0

\* A vm is registered or removed (VmRegistry).
SetAgents ==
    /\ \E v \in VMs : agents' \in {agents \cup {v}, agents \ {v}}
    /\ agents' # agents
    /\ UNCHANGED <<failed, snapshot, tooOld, inProgress, streakVars, act>>

Aging ==
    /\ snapshot # Empty /\ ~tooOld
    /\ tooOld' = TRUE
    /\ UNCHANGED <<failed, agents, snapshot, inProgress, streakVars, act>>

-----------------------------------------------------------------------------
(* get_or_refresh_snapshot_async and the loop.                             *)

\* The first look.  A handler that is served at once changes nothing; the
\* others go on to refresh_now_async.
Request(a) ==
    /\ a \in Requests /\ act[a] = AtRest
    /\ snapshot = Empty \/ (~inProgress /\ tooOld)
    /\ Goto(a, "refresh")
    /\ UNCHANGED <<failed, agents, snapshot, tooOld, inProgress, streakVars>>

WakeLoop ==
    /\ act[Loop] = AtRest
    /\ Goto(Loop, "refresh")
    /\ UNCHANGED <<failed, agents, snapshot, tooOld, inProgress, streakVars>>

-----------------------------------------------------------------------------
(* refresh_now_async(force=True).                                          *)

FoundInProgressMutant(a) ==   \* waits once and answers whatever there is
    /\ act[a].pc \in {"refresh", "wait"}
    /\ inProgress
    /\ act' = [act EXCEPT ![a] =
                  IF snapshot # Empty \/ act[a].pc = "wait" THEN AtRest
                  ELSE [@ EXCEPT !.pc = "wait"]]
    /\ UNCHANGED <<failed, agents, snapshot, tooOld, inProgress, streakVars>>

\* One turn of its loop, under the lock: somebody else refreshes, and there is
\* a snapshot to answer with or not.
FoundInProgress(a) ==
    /\ act[a].pc \in {"refresh", "wait"}
    /\ inProgress
    /\ act' = IF snapshot # Empty THEN [act EXCEPT ![a] = AtRest]
              ELSE [act EXCEPT ![a].pc = "wait",
                        ![a].excused = @ \/ \E b \in Activities : act[b].pc = "release"]
    /\ UNCHANGED <<failed, agents, snapshot, tooOld, inProgress, streakVars>>

\* The refresh that was waited for is over: its snapshot, or none.
WaitedEnough(a) ==
    /\ act[a].pc = "wait"
    /\ ~inProgress
    /\ act' = [act EXCEPT ![a] = AtRest]
    /\ UNCHANGED <<failed, agents, snapshot, tooOld, inProgress, streakVars>>

\* The flag is taken; the settings are read after it.
BeginMutant(a) ==   \* the flag is tested before the lock is taken
    /\ act[a].pc = "refresh"
    /\ inProgress' = TRUE
    /\ act' = [act EXCEPT ![a].pc = "collect", ![a].targets = agents]
    /\ UNCHANGED <<failed, agents, snapshot, tooOld, streakVars>>

Begin(a) ==
    /\ act[a].pc = "refresh"
    /\ ~inProgress
    /\ inProgress' = TRUE
    /\ act' = [act EXCEPT ![a].pc = "collect", ![a].targets = agents]
    /\ UNCHANGED <<failed, agents, snapshot, tooOld, streakVars>>

\* collect_all: every agent answers or does not.
Collected(a) ==
    /\ act[a].pc = "collect"
    /\ \E items \in [act[a].targets -> BOOLEAN] :
          act' = [act EXCEPT ![a].pc = "transitions", ![a].items = items]
    /\ UNCHANGED <<failed, agents, snapshot, tooOld, inProgress, streakVars>>

UpTo(limit, n) == Min({limit, n})
Answer(up) == IF up THEN "up" ELSE "down"

\* The state a vm goes to with one more answer.
NextOnline(v, up, fail, good) ==
    CASE online[v] = "unknown" -> IF up THEN "up" ELSE "down"
      [] online[v] = "up" /\ ~up /\ fail >= OfflineAfter -> "down"
      [] online[v] = "down" /\ up /\ good >= OnlineAfter -> "up"
      [] OTHER -> online[v]

\* _record_vm_connectivity_transitions, under the lock.
RecordTransitionsMutant(a) ==   \* a good poll leaves the failures as they are
    /\ act[a].pc = "transitions"
    /\ LET items == act[a].items
           up(v) == v \in DOMAIN items /\ items[v]
           down(v) == v \in DOMAIN items /\ ~items[v]
       IN  /\ failures' = [v \in VMs |-> IF down(v) THEN UpTo(OfflineAfter, failures[v] + 1)
                                         ELSE failures[v]]
           /\ successes' = [v \in VMs |-> IF up(v) THEN UpTo(OnlineAfter, successes[v] + 1)
                                          ELSE IF down(v) THEN 0 ELSE successes[v]]
           /\ online' = [v \in VMs |-> IF v \in DOMAIN items
                             THEN NextOnline(v, items[v], failures'[v], successes'[v])
                             ELSE online[v]]
           /\ polls' = [v \in VMs |-> IF v \in DOMAIN items
                             THEN SubSeq(<<Answer(items[v])>> \o polls[v], 1,
                                         UpTo(Max({OfflineAfter, OnlineAfter}), Len(polls[v]) + 1))
                             ELSE polls[v]]
    /\ Goto(a, "publish")
    /\ UNCHANGED <<failed, agents, snapshot, tooOld, inProgress>>

RecordTransitions(a) ==
    /\ act[a].pc = "transitions"
    /\ LET items == act[a].items
           up(v) == v \in DOMAIN items /\ items[v]
           down(v) == v \in DOMAIN items /\ ~items[v]
       IN  /\ failures' = [v \in VMs |-> IF down(v) THEN UpTo(OfflineAfter, failures[v] + 1)
                                         ELSE IF up(v) THEN 0 ELSE failures[v]]
           /\ successes' = [v \in VMs |-> IF up(v) THEN UpTo(OnlineAfter, successes[v] + 1)
                                          ELSE IF down(v) THEN 0 ELSE successes[v]]
           /\ online' = [v \in VMs |-> IF v \in DOMAIN items
                             THEN NextOnline(v, items[v], failures'[v], successes'[v])
                             ELSE online[v]]
           /\ polls' = [v \in VMs |-> IF v \in DOMAIN items
                             THEN SubSeq(<<Answer(items[v])>> \o polls[v], 1,
                                         UpTo(Max({OfflineAfter, OnlineAfter}), Len(polls[v]) + 1))
                             ELSE polls[v]]
    /\ Goto(a, "publish")
    /\ UNCHANGED <<failed, agents, snapshot, tooOld, inProgress>>

\* The handlers that wait hear of a refresh that fails or finds no agent.
Excuse(reason) ==
    [b \in Activities |-> [act[b] EXCEPT !.excused = @ \/ (act[b].pc = "wait" /\ reason)]]

PublishMutant(a) ==   \* merges what was collected into the old snapshot
    /\ act[a].pc = "publish"
    /\ snapshot' = [v \in DOMAIN act[a].items \cup DOMAIN snapshot |->
                       IF v \in DOMAIN act[a].items THEN act[a].items[v] ELSE snapshot[v]]
    /\ tooOld' = FALSE
    /\ act' = [Excuse(act[a].items = Empty) EXCEPT ![a].pc = "release"]
    /\ UNCHANGED <<failed, agents, inProgress, streakVars>>

Publish(a) ==
    /\ act[a].pc = "publish"
    /\ snapshot' = act[a].items
    /\ tooOld' = FALSE
    /\ act' = [Excuse(act[a].items = Empty) EXCEPT ![a].pc = "release"]
    /\ UNCHANGED <<failed, agents, inProgress, streakVars>>

\* An exception: the settings cannot be read, a transition cannot be recorded,
\* the handler is cancelled.
FailMutant(a) ==   \* no "finally"
    /\ act[a].pc \in {"collect", "transitions", "publish"} /\ failed < MaxFailures
    /\ failed' = failed + 1
    /\ act' = [Excuse(TRUE) EXCEPT ![a] = AtRest]
    /\ UNCHANGED <<agents, snapshot, tooOld, inProgress, streakVars>>

Fail(a) ==
    /\ act[a].pc \in {"collect", "transitions", "publish"} /\ failed < MaxFailures
    /\ failed' = failed + 1
    /\ act' = [Excuse(TRUE) EXCEPT ![a].pc = "release"]
    /\ UNCHANGED <<agents, snapshot, tooOld, inProgress, streakVars>>

\* finally: under the lock once more.  The activity answers what it collected
\* or raises.
Release(a) ==
    /\ act[a].pc = "release"
    /\ inProgress' = FALSE
    /\ act' = [act EXCEPT ![a] = AtRest]
    /\ UNCHANGED <<failed, agents, snapshot, tooOld, streakVars>>

Refresh(a) ==
    \/ FoundInProgress(a) \/ WaitedEnough(a) \/ Begin(a) \/ Collected(a)
    \/ RecordTransitions(a) \/ Publish(a) \/ Fail(a) \/ Release(a)

SnapNext ==
    \/ SetAgents \/ Aging \/ WakeLoop
    \/ \E a \in Requests : Request(a)
    \/ \E a \in Activities : Refresh(a)

SnapSpec == SnapInit /\ [][SnapNext]_snapVars

\* Every await of a refresh has a timeout, and the thread wakes up every three
\* seconds.  A handler that waits looks every 50 ms, while the thread leaves the
\* flag alone for three seconds.
FairSnapSpec ==
    /\ SnapSpec
    /\ WF_snapVars(WakeLoop)
    /\ \A a \in Activities : WF_snapVars(Refresh(a))
    /\ \A a \in Requests : SF_snapVars(WaitedEnough(a))

-----------------------------------------------------------------------------
(* Properties.                                                             *)

\* The flag is up exactly while one activity refreshes: no two refreshes
\* count the same poll twice or publish in the wrong order, and none that
\* failed or was cancelled leaves the flag behind (refresh_now_async).
OneRefreshAtATime ==
    /\ \A a, b \in Activities : Refreshing(a) /\ Refreshing(b) => a = b
    /\ inProgress <=> \E a \in Activities : Refreshing(a)

AllOf(s, n, answer) == Len(s) >= n /\ \A i \in 1..n : s[i] = answer

\* A vm changes between online and offline only on as many equal answers in a
\* row as the thresholds say, whoever refreshed and however many refreshes
\* failed or left the vm out in between.
TransitionsAreEarned ==
    [][\A v \in VMs :
          /\ online[v] = "up" /\ online'[v] = "down" => AllOf(polls'[v], OfflineAfter, "down")
          /\ online[v] = "down" /\ online'[v] = "up" => AllOf(polls'[v], OnlineAfter, "up")
      ]_snapVars

\* Whoever waited for another's refresh and still answers an empty fleet has
\* waited for one that failed or found no vm registered.
EmptyAnswersAreExcused ==
    [][\A a \in Activities :
          act[a].pc = "wait" /\ act'[a].pc = "idle" /\ snapshot = Empty => act[a].excused]_snapVars

\* Every handler that refreshes or waits answers.
RequestsReturn == \A a \in Requests : act[a].pc # "idle" ~> act[a].pc = "idle"

\* A registered vm appears in the snapshot, and a removed one goes, unless the
\* registration changes again.
SnapshotCatchesUp ==
    \A v \in VMs :
        /\ v \in agents ~> (v \in DOMAIN snapshot \/ v \notin agents)
        /\ v \notin agents ~> (v \notin DOMAIN snapshot \/ v \in agents)
=============================================================================
